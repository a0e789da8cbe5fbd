----------------------------- MODULE MCDisplay -----------------------------
(* A small instance of Display: sequences with each way to parse and send. *)
EXTENDS Display
Tree(on, off, invert) == [on |-> on, off |-> off, invert |-> invert]
\* Two commands; one; an unknown type, and an empty payload, in the middle.
Two == <<5, 30, 1, 17, 41, 0, 2, 8, 9>>
Exit == <<5, 0, 1, 40>>
Unknown == <<5, 0, 1, 17, 9, 0, 1, 7, 5, 0, 1, 41>>
EmptyPayload == <<3, 0, 0, 5, 0, 1, 41>>
\* An empty payload at the end, a length beyond the property, and one that
\* fits only with the header counted twice.
Malformed == {<<5, 0, 1, 17, 3, 0, 0>>, <<5, 0, 9, 1>>, <<5, 0, 2, 1>>}
MCTrees ==
  {Tree(Two, Exit, invert) : invert \in BOOLEAN}
    \union {Tree(Unknown, NoSequence, FALSE), Tree(NoSequence, EmptyPayload, TRUE)}
    \union {Tree(on, NoSequence, FALSE) : on \in Malformed}
    \union {Tree(Two, off, FALSE) : off \in Malformed}
MCCallers == {"drm", "sysfs"}
\* Off, below the least setting, and full.
MCBrightnesses == {0, 5, 4095}
=============================================================================
