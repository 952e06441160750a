---------------------------- MODULE MessageQueue ----------------------------
(***************************************************************************)
(* What a queue promises of its messages: a sequence, to which a message   *)
(* is added at either end and from whose front it is taken or read.        *)
(***************************************************************************)
EXTENDS Integers, Sequences

CONSTANTS Messages, Lengths

VARIABLES
  uxLength,  \* the messages it has room for, chosen when it is created
  contents,
  buffer     \* what the last reader was given

vars == <<uxLength, contents, buffer>>

Init == uxLength \in Lengths /\ contents = <<>> /\ buffer \in Messages

SendToBack(m) == /\ Len(contents) < uxLength
                 /\ contents' = Append(contents, m)
                 /\ UNCHANGED buffer

SendToFront(m) == /\ Len(contents) < uxLength
                  /\ contents' = <<m>> \o contents
                  /\ UNCHANGED buffer

(* Only a queue of length 1 may be overwritten.                            *)
Overwrite(m) == uxLength = 1 /\ contents' = <<m>> /\ UNCHANGED buffer

Receive == /\ contents # <<>>
           /\ buffer' = Head(contents)
           /\ contents' = Tail(contents)

Peek == contents # <<>> /\ buffer' = Head(contents) /\ UNCHANGED contents

Reset == contents' = <<>> /\ UNCHANGED buffer

Next == /\ \/ \E m \in Messages : SendToBack(m) \/ SendToFront(m) \/ Overwrite(m)
           \/ Receive \/ Peek \/ Reset
        /\ UNCHANGED uxLength

Spec == Init /\ [][Next]_vars
=============================================================================
