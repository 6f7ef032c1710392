--------------------------------- MODULE Texts ---------------------------------
(***************************************************************************)
(* Texts for the functions that take one: a behaviour takes a subject (the *)
(* function, or the field, that is looked at) and grows a text chunk by    *)
(* chunk, so that every text over the chunks of the subject up to the      *)
(* bound is a state.  A character is its code 0..255.                      *)
(***************************************************************************)
EXTENDS Naturals, Sequences

\* The printable characters from 32 on; the place of the backquote is not used.
ASCII == " !\"#$%&'()*+,-./0123456789:;<=>?@ABCDEFGHIJKLMNOPQRSTUVWXYZ[\\]^__abcdefghijklmnopqrstuvwxyz{|}~"
Txt(s) ==
    [i \in 1 .. Len(s) |->
        CHOOSE c \in 32 .. 126 : SubSeq(ASCII, c - 31, c - 31) = SubSeq(s, i, i)]

CONSTANTS
    Subjects,           \* the subjects of the run
    Chunks(_),          \* subject -> the chunks its texts are made of
    MaxChunks(_)        \* subject -> bound on the number of chunks

VARIABLES subject, text, chunks

vars == <<subject, text, chunks>>

Init == /\ subject \in Subjects
        /\ text = <<>>
        /\ chunks = 0

Extend(c) ==
    /\ chunks < MaxChunks(subject)
    /\ text' = text \o c
    /\ chunks' = chunks + 1
    /\ UNCHANGED subject

Next == \E c \in Chunks(subject) : Extend(c)

Spec == Init /\ [][Next]_vars
===============================================================================
