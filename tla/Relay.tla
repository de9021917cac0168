-------------------------------- MODULE Relay --------------------------------
(* What a proxy between pairs of byte streams promises: each side receives *)
(* what the other side has sent, and what the application has, each of the *)
(* two in order, without loss or repetition; how the two are merged is     *)
(* left open. A link may end at any time. Before it is established, and    *)
(* when it breaks or the proxy goes away, that loses data; when one side   *)
(* closes an established link, what is under way to that side is lost, but *)
(* its own last words arrive, unless it was being sent to meanwhile.       *)
EXTENDS Naturals, SequencesExt

CONSTANTS Links, Data

Sides   == {"client", "remote"}
Sources == {"peer", "app"}
Other(side) == IF side = "client" THEN "remote" ELSE "client"

Phase == {"None", "Open", "Established", "ByClient", "ByRemote", "Dropped"}

VARIABLES
    phase,      \* of each link: a member of Phase
    underway,   \* to each side of each link, from each source: a sequence
    arrived     \* at each side of each link, from each source: a sequence

relayVars == <<phase, underway, arrived>>

Everywhere(x) == [link \in Links |-> [side \in Sides |-> [source \in Sources |-> x]]]

RelayInit ==
    /\ phase = [link \in Links |-> "None"]
    /\ underway = Everywhere(<<>>)
    /\ arrived = Everywhere(<<>>)

IsOpen(link) == phase[link] \in {"Open", "Established"}

Advance(link, from, to) ==
    /\ phase[link] \in from
    /\ phase' = [phase EXCEPT ![link] = to]

Accept(link)    == Advance(link, {"None"}, "Open") /\ UNCHANGED <<underway, arrived>>
Establish(link) == Advance(link, {"Open"}, "Established")
                   /\ UNCHANGED <<underway, arrived>>

(* Something is sent to one side by the other.                             *)
PeerSends(link, side, data) ==
    /\ IsOpen(link)
    /\ underway' = [underway EXCEPT ![link][side]["peer"] = Append(@, data)]
    /\ UNCHANGED <<phase, arrived>>

(* The application sends to both sides of every link; a side that is not   *)
(* connected may miss it.                                                  *)
AppSends(data, missing) ==
    /\ missing \subseteq {link \in Links : phase[link] = "Open"}
    /\ underway' = [link \in Links |-> [side \in Sides |->
            IF ~IsOpen(link) \/ (side = "remote" /\ link \in missing)
            THEN underway[link][side]
            ELSE [underway[link][side] EXCEPT !["app"] = Append(@, data)]]]
    /\ UNCHANGED <<phase, arrived>>

(* The link cannot be established: the remote side misses what waited.     *)
Refused(link) ==
    /\ phase[link] = "Open"
    /\ underway' = [underway EXCEPT ![link]["remote"]["app"] = <<>>]
    /\ UNCHANGED <<phase, arrived>>

Arrives(link, side, source) ==
    /\ underway[link][side][source] # <<>>
    /\ arrived' = [arrived EXCEPT ![link][side][source] =
                        Append(@, Head(underway[link][side][source]))]
    /\ underway' = [underway EXCEPT ![link][side][source] = Tail(@)]
    /\ UNCHANGED phase

(* The link ends, and some of what was under way is never heard of again.  *)
EndedBy(side) == IF side = "client" THEN "ByClient" ELSE "ByRemote"

MayBeLost(link, side, end) ==
    \/ phase[link] = "Open"
    \/ end \in {"Dropped", EndedBy(side)}
    \/ \E source \in Sources : underway[link][Other(side)][source] # <<>>

End(link, end) ==
    /\ Advance(link, {"Open", "Established"}, end)
    /\ \A side \in Sides, source \in Sources :
        /\ IsPrefix(underway'[link][side][source], underway[link][side][source])
        /\ MayBeLost(link, side, end)
            \/ UNCHANGED underway[link][side][source]
    /\ \A other \in Links \ {link} : UNCHANGED underway[other]
    /\ UNCHANGED arrived

(* Several links are dropped at once, when the proxy goes away.            *)
DropAll(links) ==
    /\ \A link \in links : IsOpen(link)
    /\ phase' = [link \in Links |-> IF link \in links THEN "Dropped" ELSE phase[link]]
    /\ \A link \in Links, side \in Sides, source \in Sources :
        /\ IsPrefix(underway'[link][side][source], underway[link][side][source])
        /\ link \in links \/ UNCHANGED underway[link][side][source]
    /\ UNCHANGED arrived

RelayNext ==
    \/ \E link \in Links :
        \/ Accept(link)
        \/ Establish(link)
        \/ Refused(link)
        \/ \E end \in {"ByClient", "ByRemote", "Dropped"} : End(link, end)
        \/ \E side \in Sides :
            \/ \E data \in Data : PeerSends(link, side, data)
            \/ \E source \in Sources : Arrives(link, side, source)
    \/ \E data \in Data, missing \in SUBSET Links : AppSends(data, missing)
    \/ \E links \in SUBSET Links : DropAll(links)

RelaySpec == RelayInit /\ [][RelayNext]_relayVars
=============================================================================
