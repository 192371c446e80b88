--------------------------- MODULE ControlPromise ---------------------------
(***************************************************************************)
(* What control mode promises a client, as the comment on control_block    *)
(* says it: lines and the output of panes are queued; output may be sent   *)
(* before what waits in front of it, but the bytes of a pane stay in their *)
(* order and a line is held up until everything that was queued before it  *)
(* has been sent or given up.                                              *)
(***************************************************************************)
EXTENDS Integers, Sequences, SequencesExt

CONSTANT Panes

VARIABLES todo,   \* what waits: <<pane, byte>> or <<Line, number>>
          front,  \* pairs <<x, y>> of what waits: the line y has to come after x
          last,   \* per pane: the newest byte that was queued or passed over
          lines,  \* lines written so far
          sent    \* what the last step gave to the client

Line == "line"

Init == todo = {} /\ front = {} /\ last = [p \in Panes |-> 0] /\ lines = 0 /\ sent = <<>>

\* No byte of a pane comes back.
Onward == \A p \in Panes : last'[p] >= last[p]

\* Output of a pane is queued; it is new.
Output(p) ==
    /\ todo \subseteq todo'
    /\ todo' \ todo \subseteq {p} \X (last[p] + 1 .. last'[p])
    /\ sent' = <<>>
    /\ UNCHANGED <<front, lines>>

\* What waits, without the output of the panes P.
Rest(P) == {x \in todo : x[1] \notin P}
Among(S) == front \cap (S \X S)

\* The output of the panes P is given up.
GiveUp(P) ==
    /\ todo' = Rest(P) /\ front' = Among(Rest(P))
    /\ sent' = <<>>
    /\ UNCHANGED lines

\* And a line is written: it is sent at once only if nothing waits.
Write(P) ==
    LET line == <<Line, lines + 1>>
    IN /\ lines' = lines + 1
       /\ \/ /\ Rest(P) = {}
             /\ todo' = {} /\ front' = {} /\ sent' = <<line>>
          \/ /\ Rest(P) # {}
             /\ todo' = Rest(P) \cup {line}
             /\ front' = Among(Rest(P)) \cup (Rest(P) \X {line})
             /\ sent' = <<>>

\* Output of a pane goes in front of lines that were there before it.
Overtake(p) ==
    /\ front \subseteq front'
    /\ front' \ front \subseteq {x \in todo : x[1] = p} \X {x \in todo : x[1] = Line}
    /\ sent' = <<>>
    /\ UNCHANGED <<todo, lines>>

\* What waits is sent, after what has to come before it.
Before(x, y) == <<x, y>> \in front \/ (x[1] = y[1] /\ x[2] < y[2])
Send ==
    /\ IsInjective(sent') /\ ToSet(sent') \subseteq todo
    /\ \A i \in DOMAIN sent', x \in todo :
           Before(x, sent'[i]) => \E j \in DOMAIN sent' : j < i /\ sent'[j] = x
    /\ todo' = todo \ ToSet(sent') /\ front' = Among(todo')
    /\ UNCHANGED lines

Next ==
    /\ Onward
    /\ \/ \E p \in Panes : Output(p) \/ Overtake(p)
       \/ \E P \in SUBSET Panes : GiveUp(P) \/ Write(P)
       \/ Send

Spec == Init /\ [][Next]_<<todo, front, last, lines, sent>>
=============================================================================
