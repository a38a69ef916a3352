------------------------------- MODULE Relay --------------------------------
(***************************************************************************)
(* What a proxied channel promises to the client and the host that talk    *)
(* through it, without goroutines, messages and flags: each gets what the  *)
(* other sent, in order and nothing else; the end of a stream comes behind *)
(* all of it; a channel is closed under a peer only when the other has     *)
(* left and nothing more is due; and a relay that ends well owes nobody    *)
(* anything.  Standard error is not promised.                              *)
(***************************************************************************)
EXTENDS Integers

CONSTANTS
    Sides,      \* the two channels
    Other(_)    \* the other one

VARIABLES
    sent,     \* [Sides -> Nat] the data the peer of s has sent
    given,    \* [Sides -> Nat] the data the peer of s was given
    asked,    \* [Sides -> Nat] the requests the peer of s has sent
    passed,   \* [Sides -> Nat] the requests the peer of s was passed
    finished, \* sides whose peer sends no more data
    gone,     \* sides whose peer has closed
    left,     \* ... before the relay did
    eof,      \* sides whose peer was told that there is no more data
    shut,     \* sides the relay has closed
    result    \* how the relay ended

peerVars  == <<sent, asked, finished, gone, left>>
relayVars == <<given, passed, eof, result>>
vars == <<sent, given, asked, passed, finished, gone, left, eof, shut, result>>

Init ==
    /\ \A f \in {sent, given, asked, passed} : f = [s \in Sides |-> 0]
    /\ \A S \in {finished, gone, left, eof, shut} : S = {}
    /\ result = "none"

AllData(s) == given[s] = sent[Other(s)]
Whole(s)   == AllData(s) /\ passed[s] = asked[Other(s)]

-----------------------------------------------------------------------------
(* The peers                                                               *)

Sends(s) ==
    /\ s \notin finished
    /\ sent' = [sent EXCEPT ![s] = @ + 1]
    /\ UNCHANGED <<asked, finished, gone, left, shut, relayVars>>

Asks(s) ==
    /\ s \notin gone
    /\ asked' = [asked EXCEPT ![s] = @ + 1]
    /\ UNCHANGED <<sent, finished, gone, left, shut, relayVars>>

Finishes(s) ==
    /\ s \notin finished
    /\ finished' = finished \cup {s}
    /\ UNCHANGED <<sent, asked, gone, left, shut, relayVars>>

\* A close is answered with a close.
Leaves(s) ==
    /\ s \notin gone
    /\ finished' = finished \cup {s}
    /\ gone' = gone \cup {s}
    /\ left' = IF s \in shut THEN left ELSE left \cup {s}
    /\ shut' = shut \cup {s}
    /\ UNCHANGED <<sent, asked, relayVars>>

-----------------------------------------------------------------------------
(* The relay, until it ends                                                *)

Gives(s) ==
    /\ s \notin eof \cup shut /\ given[s] < sent[Other(s)]
    /\ given' = [given EXCEPT ![s] = @ + 1]
    /\ UNCHANGED <<peerVars, passed, eof, shut, result>>

Passes(s) ==
    /\ s \notin shut /\ passed[s] < asked[Other(s)]
    /\ passed' = [passed EXCEPT ![s] = @ + 1]
    /\ UNCHANGED <<peerVars, given, eof, shut, result>>

\* Peers that are still there are told of an end that is one.
TellsEnd ==
    /\ eof \subseteq eof' /\ eof' \subseteq Sides
    /\ \A s \in eof' \ eof : s \in gone \/ (Other(s) \in finished /\ AllData(s))

\* A side is closed when the other has left and all of it has arrived.
Closes ==
    /\ TellsEnd
    /\ shut \subseteq shut' /\ shut' \subseteq Sides
    /\ \A s \in shut' \ shut : Other(s) \in gone /\ Whole(s)
    /\ UNCHANGED <<peerVars, given, passed, result>>

\* Both sides are closed, and a peer that did not leave by itself has everything.
EndsWell ==
    /\ TellsEnd
    /\ \A s \in Sides : s \in left \/ Whole(s)
    /\ result' = "nil" /\ shut' = Sides
    /\ UNCHANGED <<peerVars, given, passed>>

\* An error: before anything was relayed, or behind the close of a side.
Fails ==
    /\ shut # {} \/ \A s \in Sides : given[s] = 0 /\ passed[s] = 0
    /\ result' = "err" /\ shut' = Sides
    /\ UNCHANGED <<peerVars, given, passed, eof>>

Next ==
    \/ \E s \in Sides : Sends(s) \/ Asks(s) \/ Finishes(s) \/ Leaves(s)
    \/ /\ result = "none"
       /\ \/ \E s \in Sides : Gives(s) \/ Passes(s)
          \/ Closes \/ EndsWell \/ Fails

Spec == Init /\ [][Next]_vars
=============================================================================
