---------------------------- MODULE ReadThrough ----------------------------
(***************************************************************************)
(* What a cache in front of a slow and changing source promises callers    *)
(* that run at the same time.  A call whose key is filled is given what    *)
(* the cell holds.  A call that finds it empty is given something that the *)
(* source was while the call lasted, and the cell then holds that; or an   *)
(* error, if the source failed then, and the cell is left alone.  So a     *)
(* cell changes only at the hand of calls that found it empty, but for     *)
(* callers that insist: once the last of them is gone, every caller is     *)
(* given the same for ever.                                                *)
(***************************************************************************)
EXTENDS Integers, Sequences

CONSTANTS
  Callers,
  Keys,
  Kept,       \* the keys that have a cell
  None,       \* no content, and no call
  Error,
  Made(_, _),    \* what a caller makes of a content, or Error
  Insists(_, _)  \* whether a caller may want a key made anew

VARIABLES
  past,   \* for each key, what its source has been, now last
  cell,   \* for each key, what is kept, or None
  call,   \* for each caller, the call that is not answered yet, or None
  given   \* for each caller, what it was given last

vars == <<past, cell, call, given>>

\* What a call may come back with.
Seen(p) == { Made(p, past[call[p].key][i]) : i \in call[p].since .. Len(past[call[p].key]) }

Init ==
  /\ \A k \in Keys : Len(past[k]) = 1
  /\ cell = [k \in Keys |-> None]
  /\ call = [p \in Callers |-> None]
  /\ given = [p \in Callers |-> None]

Change ==
  /\ \A k \in Keys : \/ past'[k] = past[k]
                   \/ past'[k] = Append(past[k], past'[k][Len(past[k]) + 1])
  /\ UNCHANGED <<cell, call, given>>

Hit(p, k) ==
  /\ call[p] = None
  /\ cell[k] # None
  /\ given' = [given EXCEPT ![p] = cell[k]]
  /\ UNCHANGED <<past, cell, call>>

Miss(p, k) ==
  /\ call[p] = None
  /\ cell[k] = None \/ Insists(p, k)
  /\ call' = [call EXCEPT ![p] = [key |-> k, since |-> Len(past[k])]]
  /\ UNCHANGED <<past, cell, given>>

Fill(p) ==
  /\ call[p] # None
  /\ \E v \in Seen(p) \ {Error} :
       /\ cell' = IF call[p].key \in Kept THEN [cell EXCEPT ![call[p].key] = v] ELSE cell
       /\ given' = [given EXCEPT ![p] = v]
  /\ call' = [call EXCEPT ![p] = None]
  /\ UNCHANGED past

Fail(p) ==
  /\ call[p] # None
  /\ Error \in Seen(p)
  /\ given' = [given EXCEPT ![p] = Error]
  /\ call' = [call EXCEPT ![p] = None]
  /\ UNCHANGED <<past, cell>>

Next ==
  \/ Change
  \/ \E p \in Callers : Fill(p) \/ Fail(p) \/ \E k \in Keys : Hit(p, k) \/ Miss(p, k)

Spec == Init /\ [][Next]_vars
=============================================================================
