------------------------------- MODULE Browser -------------------------------
(***************************************************************************)
(* The calls a page of the frontend has in flight (frontend/src/lib/api):  *)
(* nothing orders their answers, a call outlives the step of the page that *)
(* made it and even the page, and it may fail before or after the server   *)
(* has done its work.  from is what the code that awaits the answer still  *)
(* sees of the page, here is that this page is still mounted.              *)
(***************************************************************************)
EXTENDS Naturals

CONSTANTS
  Slots, \* calls in flight
  None

VARIABLE calls

Free == {s \in Slots : calls[s] = None}
Asked(kind, id, from) ==
  [calls EXCEPT ![CHOOSE s \in Free : TRUE] =
     [kind |-> kind, id |-> id, from |-> from, here |-> TRUE, pc |-> "sent", seen |-> None]]
Answered(s, id, seen) ==
  [calls EXCEPT ![s].pc = "answered", ![s].id = id, ![s].seen = seen]
Taken(s) == [calls EXCEPT ![s] = None]

At(s, kind, pc) == calls[s] # None /\ calls[s].kind = kind /\ calls[s].pc = pc
InFlight(kind) == \E s \in Slots : calls[s] # None /\ calls[s].kind = kind /\ calls[s].here

(* An error of the server, or an answer that is lost. *)
Broken(s) == [calls EXCEPT ![s].pc = "error"]
CanBreak(s) == calls[s] # None /\ calls[s].pc # "error"

(* The page is left: its calls go on.  Or it is loaded again: they are     *)
(* forgotten.                                                              *)
Orphaned == [s \in Slots |-> IF calls[s] = None THEN None ELSE [calls[s] EXCEPT !.here = FALSE]]
Forgotten == [s \in Slots |-> None]
=============================================================================
