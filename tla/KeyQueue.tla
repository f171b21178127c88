------------------------------ MODULE KeyQueue ------------------------------
(***************************************************************************)
(* What a controller relies on its work queue for.  A key is worked on by  *)
(* one worker at a time; a request made at any time, also while the key is *)
(* being worked on, stands until a worker starts on the key afterwards.  A *)
(* request may outlive that start (a delayed one still to come), so that a *)
(* key can be worked on once more than was asked for, but never less.      *)
(*                                                                         *)
(* The modules of the controllers keep of the queue what this module does: *)
(* whether the key is requested, and whether it is worked on.              *)
(***************************************************************************)
CONSTANT Keys

VARIABLES
  todo,   \* keys that are to be worked on
  busy,   \* keys that are being worked on
  open    \* requests are still accepted

vars == <<todo, busy, open>>

Init == todo = {} /\ busy = {} /\ open = TRUE

Request(k) ==
  /\ open
  /\ todo' = todo \cup {k}
  /\ UNCHANGED <<busy, open>>

Start(k) ==
  /\ k \in todo \ busy
  /\ todo' \in {todo, todo \ {k}}
  /\ busy' = busy \cup {k}
  /\ UNCHANGED open

Finish(k) ==
  /\ k \in busy
  /\ busy' = busy \ {k}
  /\ UNCHANGED <<todo, open>>

\* Only the end of the program lets requests fall.
ShutDown ==
  /\ open /\ open' = FALSE
  /\ todo' \in SUBSET todo
  /\ UNCHANGED busy

Next == ShutDown \/ \E k \in Keys : Request(k) \/ Start(k) \/ Finish(k)

Spec == Init /\ [][Next]_vars
=============================================================================
