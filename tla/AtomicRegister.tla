---------------------------- MODULE AtomicRegister ----------------------------
(***************************************************************************)
(* What Store.AtomicWrite promises of one document: the abstract           *)
(* specification that AtomicStore implements.                              *)
(*                                                                         *)
(* A reader always finds a whole document that somebody wrote.  A write    *)
(* first becomes visible and then permanent.  A write that was answered    *)
(* with success is permanent: no failure brings back an older document.    *)
(* One that was answered with an error, or never, may be visible or not,   *)
(* and may still be undone if the host fails.                              *)
(***************************************************************************)
EXTENDS Naturals, Sequences

CONSTANT Docs     \* the documents

VARIABLES
    versions,     \* what the next host failure may leave; readers see the last
    promised      \* the rank of the latest version whose write was confirmed

register == <<versions, promised>>

Latest(s) == s[Len(s)]

\* rank: how many documents were published before and with this one.
Versions == [doc : Docs, rank : Nat]

Init ==
    /\ \E d \in Docs : versions = <<[doc |-> d, rank |-> 0]>>
    /\ promised = 0

\* One more version, later than all before.
Publish ==
    /\ versions' \in Seq(Versions)
    /\ versions' = Append(versions, Latest(versions'))
    /\ Latest(versions').rank > Latest(versions).rank
    /\ UNCHANGED promised

\* Everything visible becomes permanent, and one write is confirmed.
Confirm ==
    /\ versions' = <<Latest(versions)>>
    /\ promised' \in promised .. Latest(versions).rank

HostFailure ==
    /\ \E i \in 1 .. Len(versions) : versions' = <<versions[i]>>
    /\ UNCHANGED promised

Next == Publish \/ Confirm \/ HostFailure

Spec == Init /\ [][Next]_register
==============================================================================
