------------------------------ MODULE PageBudget ------------------------------
(***************************************************************************)
(* What the scan coordinator promises, without permit ids, scan counts or  *)
(* policies: every image has a budget of pages; a promise takes its pages  *)
(* from the budget before anything is read, is given once and settled at   *)
(* most once, and its settlement returns exactly what was not used.        *)
(* ScanCoordinator implements it (ScanCoordinator!ImplementsBudget).       *)
(***************************************************************************)
EXTENDS Integers

CONSTANTS
  Image,    (* the images that have a budget                               *)
  Promise,  (* promises, records with an image and a number of pages       *)
  Limit     (* the pages an image has                                      *)

VARIABLES
  left,     (* the pages of each image that nothing has claimed            *)
  open,     (* promises outstanding                                        *)
  closed    (* promises settled, with the pages each one used              *)

vars == << left, open, closed >>

Init ==
  /\ left = [i \in Image |-> Limit]
  /\ open = {}
  /\ closed = {}

Give(promise) ==
  /\ promise.pages > 0
  /\ open' = open \cup {promise}
  /\ promise.pages <= left[promise.image]
  /\ left' = [left EXCEPT ![promise.image] = @ - promise.pages]
  /\ UNCHANGED closed

Settle(promise, used) ==
  /\ left' = [left EXCEPT ![promise.image] = @ + (promise.pages - used)]
  /\ open' = open \ {promise}
  /\ closed' = closed \cup {[permit |-> promise, pages |-> used]}

Given == open \cup {c.permit : c \in closed}

Next ==
  \/ \E promise \in Promise \ Given : Give(promise)
  \/ \E promise \in open : \E used \in 0 .. promise.pages : Settle(promise, used)

Spec == Init /\ [][Next]_vars
=============================================================================
