---------------------------- MODULE SecureStream ----------------------------
(***************************************************************************)
(* What TLS promises the listener of a stream, with no records, reads or   *)
(* handshakes in it.  What the speaker says is heard in its order, once    *)
(* and without gaps.  The stream ends cleanly when the speaker has said    *)
(* that it was all, and not before all of it was heard.  It may be cut at  *)
(* any time, but a listener who did not ask for the end is told.           *)
(***************************************************************************)
EXTENDS Naturals, Sequences

CONSTANT Piece      \* what may be said, numbered in the order it is said

VARIABLES
    said,   \* the pieces said so far
    over,   \* the speaker has said that they were all
    heard,  \* the pieces heard so far, one after the other
    told,   \* the listener has asked for the end, or was told of a failure
    end     \* how the stream has ended for the listener

streamVars == <<said, over, heard, told, end>>

Init ==
    /\ said = {}
    /\ over = FALSE
    /\ heard = << >>
    /\ told = FALSE
    /\ end = "none"

Pieces(s) == {s[i] : i \in DOMAIN s}

\* What was heard stays, and what is heard now goes on where it ended.
HearsOn ==
    /\ Len(heard) <= Len(heard')
    /\ \A i \in DOMAIN heard : heard'[i] = heard[i]
    /\ \A i, j \in DOMAIN heard' : i < j => heard'[i] < heard'[j]
    /\ Pieces(heard') \subseteq said
    /\ \A i \in Pieces(heard'), j \in said : j < i => j \in Pieces(heard')

Say(i) ==
    /\ ~over
    /\ \A j \in said : j < i
    /\ said' = said \cup {i}
    /\ UNCHANGED <<over, heard, told, end>>

SayEnd ==
    /\ ~over
    /\ over' = TRUE
    /\ UNCHANGED <<said, heard, told, end>>

Hear ==
    /\ end = "none"
    /\ HearsOn
    /\ UNCHANGED <<said, over, told, end>>

HearEnd ==
    /\ end = "none"
    /\ over
    /\ HearsOn
    /\ Pieces(heard') = said
    /\ end' = "clean"
    /\ UNCHANGED <<said, over, told>>

Learn ==
    /\ told' = TRUE
    /\ UNCHANGED <<said, over, heard, end>>

Cut ==
    /\ end = "none"
    /\ end' = "cut"
    /\ told' = TRUE
    /\ UNCHANGED <<said, over, heard>>

Next ==
    \/ \E i \in Piece : Say(i)
    \/ SayEnd \/ Hear \/ HearEnd \/ Learn \/ Cut

Spec == Init /\ [][Next]_streamVars

=============================================================================
