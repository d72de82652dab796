------------------------- MODULE SectionExtraction -------------------------
(***************************************************************************)
(* SectionExtractionDxe: streams of sections.  A stream is opened as it is  *)
(* and parsed as far as searches need it: a node for each section that was  *)
(* passed, and for an encapsulation (compressed, or of a GUID with its own  *)
(* extraction protocol) the stream inside.  When the protocol of a GUID is  *)
(* not there yet, an event waits for it and opens the stream again.         *)
(* Lengths count bytes.  A stream that is not valid is refused by Open, the *)
(* streams inside are taken as they are.                                    *)
(***************************************************************************)
EXTENDS Integers, SequencesExt

CONSTANTS
    SecStreams,   \* name -> [length, sections: [id, type, size, guid, attrs, inner]]
    SecExtracts,  \* GUID -> authentication status its protocol returns
    SecSearches,  \* [type, guid, n]
    SecBudgets    \* bounds: opens, searches, faults

VARIABLES
    secNodes,     \* handle -> [stream, auth, children: [inner, event]]
    secRoots,     \* the handles of callers
    secThere,     \* GUIDs whose protocol is installed
    secFound,     \* the search that runs, or ended last
    secLeft       \* what is left of the budget

secVars == <<secNodes, secRoots, secThere, secFound, secLeft>>

NULL_STREAM_HANDLE == 0
HeaderSize == 4
SecFault == secLeft.faults > 0 /\ secLeft' = [secLeft EXCEPT !.faults = @ - 1]
SecSpends(what) == secLeft[what] > 0 /\ secLeft' = [secLeft EXCEPT ![what] = @ - 1]
SectionsOf(s) == SecStreams[s].sections

----------------------------------------------------------------------------
(* Each section begins at the multiple of 4 after the one before.           *)
AlignedTo4(n) == ((n + 3) \div 4) * 4
Offsets(s) ==
    LET at[k \in 1..(Len(SectionsOf(s)) + 1)] ==
            IF k = 1 THEN 0 ELSE AlignedTo4(at[k - 1] + SectionsOf(s)[k - 1].size)
    IN  at
OffsetOf == [s \in DOMAIN SecStreams |-> Offsets(s)]
\* A stream is valid when some section ends where the stream does.
IsValidSectionStream(s) ==
    \E k \in DOMAIN SectionsOf(s) :
        OffsetOf[s][k] + SectionsOf(s)[k].size = SecStreams[s].length
HasSection(s, k) == OffsetOf[s][k] <= SecStreams[s].length - HeaderSize

(* Authentication status: flags of the stream, and those of all streams it  *)
(* is inside of, which are the same flags raised.                           *)
Raised == [signed |-> "all signed", untested |-> "all untested", failed |-> "all failed"]
Local == DOMAIN Raised
Aggregate(auth) == auth \ Local
Untested == {"signed", "untested"}
UntestedIn(auth) ==
    LET local == Aggregate(auth) \cup Untested
    IN  local \cup {Raised[f] : f \in local \cap Local}

Requires(section) == "required" \in section.attrs
HasStatus(section) == "status" \in section.attrs
Encapsulates(section) == section.type \in {"compression", "guided"}
NotExtracted(section, there) ==
    section.type = "guided" /\ section.guid \notin there /\ Requires(section)
ExtractedAuth(section, auth) == SecExtracts[section.guid] \cup Aggregate(auth)
\* Status of the stream inside, when its parent has status auth.
InnerAuth(section, auth, there) ==
    CASE section.type = "compression" -> auth
      [] NotExtracted(section, there) -> {}
      [] ~HasStatus(section) -> auth
      [] section.guid \in there -> ExtractedAuth(section, auth)
      [] OTHER -> UntestedIn(auth)
WantsEventToOpen(section, auth, there) == NotExtracted(section, there)
WantsEvent(section, auth, there) ==
    section.type = "guided" /\ (NotExtracted(section, there)
                                \/ InnerAuth(section, auth, there) \cap Local = Untested)

----------------------------------------------------------------------------
(* Streams.                                                                 *)
\* A handle is the address of a node: that of one freed before may come again.
FreeHandle(nodes) == Min(1..(Cardinality(DOMAIN nodes) + 1) \ DOMAIN nodes)
SecStream(s, auth) == [stream |-> s, auth |-> auth, children |-> <<>>]
OpenSectionStreamEx(nodes, s, auth) == nodes @@ (FreeHandle(nodes) :> SecStream(s, auth))
NotSearching == [at |-> "idle", search |-> [type |-> "all", guid |-> "any", n |-> 0], left |-> 0,
                 root |-> 0, stack |-> <<>>, failed |-> FALSE, id |-> "none", auth |-> {}]
Signalled(h) == {k \in DOMAIN secNodes[h].children : secNodes[h].children[k].event = "signalled"}
\* Callers run below TPL_NOTIFY: what was signalled has been notified.
Quiet == secFound.at # "search" /\ \A h \in DOMAIN secNodes : Signalled(h) = {}

SecInit ==
    /\ secNodes = <<>> /\ secRoots = {} /\ secThere = {}
    /\ secFound = NotSearching
    /\ secLeft \in SecBudgets

OpenSectionStream(s) ==
    /\ Quiet /\ SecSpends("opens") /\ IsValidSectionStream(s)
    /\ secNodes' = OpenSectionStreamEx(secNodes, s, {})
    /\ secRoots' = secRoots \cup {FreeHandle(secNodes)}
    /\ UNCHANGED <<secThere, secFound>>

\* A stream with the streams inside: FreeChildNode closes them, and its event.
Inner(h) == {c.inner : c \in ToSet(secNodes[h].children)} \ {NULL_STREAM_HANDLE}
Within(h) ==
    LET within[d \in 0..Cardinality(DOMAIN SecStreams)] ==
            IF d = 0 THEN {h} ELSE within[d - 1] \cup UNION {Inner(i) : i \in within[d - 1]}
    IN  within[Cardinality(DOMAIN SecStreams)]
Closed(nodes, h) == [i \in DOMAIN nodes \ Within(h) |-> nodes[i]]
CloseSectionStream(h) ==
    /\ Quiet /\ secNodes' = Closed(secNodes, h)
    /\ secRoots' = secRoots \ {h}
    /\ secFound' = NotSearching
    /\ UNCHANGED <<secThere, secLeft>>

\* A driver that produces the protocol has put the GUID into the
\* configuration table before.  The events that wait for it are signalled.
GuidOf(h, k) == SectionsOf(secNodes[h].stream)[k].guid
InstallExtraction(g) ==
    /\ Quiet /\ g \notin secThere
    /\ secThere' = secThere \cup {g}
    /\ secNodes' =
           [h \in DOMAIN secNodes |->
               [secNodes[h] EXCEPT !.children =
                   [k \in DOMAIN @ |->
                       IF @[k].event = "armed" /\ GuidOf(h, k) = g
                       THEN [@[k] EXCEPT !.event = "signalled"] ELSE @[k]]]]
    /\ secFound' = NotSearching
    /\ UNCHANGED <<secRoots, secLeft>>

NotifyGuidedExtraction(h, k) ==
    LET section == SectionsOf(secNodes[h].stream)[k]
        old == secNodes[h].children[k].inner
        rest == IF old = NULL_STREAM_HANDLE THEN secNodes ELSE Closed(secNodes, old)
        auth == ExtractedAuth(section, secNodes[h].auth)
    IN  /\ secFound.at # "search" /\ k \in Signalled(h)
        /\ secNodes' = OpenSectionStreamEx(
                          [rest EXCEPT ![h].children[k] = [inner |-> FreeHandle(rest),
                                                           event |-> "none"]],
                          section.inner, auth)
        /\ UNCHANGED <<secRoots, secThere, secFound, secLeft>>

----------------------------------------------------------------------------
(* GetSection: FindChildNode goes through the nodes of a stream, makes one  *)
(* for the next section when it is past them, and looks into each stream    *)
(* inside before the section after it.  A node that cannot be made ends the *)
(* search in its stream; an outer stream goes on with its next section.     *)
GetSection(h, search) ==
    /\ Quiet /\ SecSpends("searches")
    /\ secFound' = [NotSearching EXCEPT !.at = "search", !.search = search, !.left = search.n + 1,
                                        !.root = h, !.stack = <<[node |-> h, k |-> 1]>>]
    /\ UNCHANGED <<secNodes, secRoots, secThere>>

Searching == secFound.at = "search"
SecTop == Head(secFound.stack)
TopNode == secNodes[SecTop.node]
TopSection == SectionsOf(TopNode.stream)[SecTop.k]
Past == SecTop.k > Len(TopNode.children)
TopHasMore == HasSection(TopNode.stream, SecTop.k)
ChildIsType(section, search) ==
    \/ search.type = "all"
    \/ /\ section.type = search.type
       /\ search.type = "guided" => search.guid \in {"any", section.guid}
StackMoved(stack) ==   \* the next section of the stream on top, if there is one
    IF stack = <<>> THEN <<>> ELSE <<[Head(stack) EXCEPT !.k = @ + 1]>> \o Tail(stack)
Continues(stack) ==
    IF stack = <<>> THEN [secFound EXCEPT !.at = "not found", !.stack = <<>>]
    ELSE [secFound EXCEPT !.stack = stack]

CreateChildNode ==
    /\ Searching /\ Past /\ TopHasMore
    /\ LET opens == Encapsulates(TopSection) /\ ~NotExtracted(TopSection, secThere)
           inner == InnerAuth(TopSection, TopNode.auth, secThere)
           node == [inner |-> IF opens THEN FreeHandle(secNodes) ELSE NULL_STREAM_HANDLE,
                    event |-> IF WantsEvent(TopSection, TopNode.auth, secThere) THEN "armed"
                              ELSE "none"]
           parsed == [secNodes EXCEPT ![SecTop.node].children = Append(@, node)]
       IN  /\ secNodes' = IF opens THEN OpenSectionStreamEx(parsed, TopSection.inner, inner)
                          ELSE parsed
    /\ UNCHANGED <<secRoots, secThere, secFound, secLeft>>
\* No memory, or the section cannot be decompressed or extracted.
CreateChildNodeFails ==
    /\ Searching /\ Past /\ TopHasMore /\ SecFault
    /\ secFound' = [Continues(StackMoved(Tail(secFound.stack))) EXCEPT !.failed = TRUE]
    /\ UNCHANGED <<secNodes, secRoots, secThere>>
StreamEnds ==
    /\ Searching /\ Past /\ ~TopHasMore
    /\ secFound' = Continues(StackMoved(Tail(secFound.stack)))
    /\ UNCHANGED <<secNodes, secRoots, secThere, secLeft>>
FindChildNode ==
    /\ Searching /\ ~Past
    /\ LET hit == ChildIsType(TopSection, secFound.search)
           inner == TopNode.children[SecTop.k].inner
           left == IF hit THEN secFound.left - 1 ELSE secFound.left
       IN  secFound' =
               IF hit /\ left = 0
               THEN [secFound EXCEPT !.at = "found", !.left = 0, !.stack = <<>>,
                                     !.id = TopSection.id, !.auth = TopNode.auth]
               ELSE IF inner # NULL_STREAM_HANDLE
               THEN [secFound EXCEPT !.left = left,
                                     !.stack = <<[node |-> inner, k |-> 1]>> \o @]
               ELSE [Continues(StackMoved(secFound.stack)) EXCEPT !.left = left]
    /\ UNCHANGED <<secNodes, secRoots, secThere, secLeft>>

SecNext ==
    \/ \E s \in DOMAIN SecStreams : OpenSectionStream(s)
    \/ \E h \in secRoots : CloseSectionStream(h) \/ \E q \in SecSearches : GetSection(h, q)
    \/ \E g \in DOMAIN SecExtracts : InstallExtraction(g)
    \/ \E h \in DOMAIN secNodes : \E k \in Signalled(h) : NotifyGuidedExtraction(h, k)
    \/ CreateChildNode \/ CreateChildNodeFails \/ StreamEnds \/ FindChildNode

SecSpec == SecInit /\ [][SecNext]_secVars

----------------------------------------------------------------------------
SecTypeOK ==
    /\ secRoots \subseteq DOMAIN secNodes
    /\ \A h \in DOMAIN secNodes : h > 0 /\ secNodes[h].stream \in DOMAIN SecStreams
    /\ secFound.at \in {"idle", "search", "found", "not found"}

\* What a stream that is opened and parsed now has in it, in order, each with
\* the encapsulations it is inside of; and the status these give.
InOrder(s) ==
    LET listed[x \in DOMAIN SecStreams] ==
            FlattenSeq([k \in DOMAIN SectionsOf(x) |->
                LET section == SectionsOf(x)[k]
                IN  <<[section |-> section, within |-> <<>>]>>
                    \o IF Encapsulates(section) /\ ~NotExtracted(section, secThere)
                       THEN [i \in DOMAIN listed[section.inner] |->
                                [listed[section.inner][i] EXCEPT !.within = <<section>> \o @]]
                       ELSE <<>>])
    IN  listed[s]
AuthNow(e) == FoldLeft(LAMBDA auth, section : InnerAuth(section, auth, secThere), {}, e.within)

(* A search answers as if its stream were opened and parsed at that moment: *)
(* whatever was searched for before, whichever searches failed half-way,    *)
(* and whenever the protocols came, it finds the instance that was asked    *)
(* for, with the authentication status of its stream, or there is none;     *)
(* unless a node could not be made in this very search.  The streams that   *)
(* are open are those of callers and the ones inside, each in one place.    *)
(* (The status is that of a fresh stream only where the sections carry one: *)
(* the event adds that of the protocol whether the section says so or not.) *)
SectionsAsOpenedNow ==
    /\ secFound.at \in {"found", "not found"} /\ Quiet /\ ~secFound.failed =>
           LET hits == SelectSeq(InOrder(secNodes[secFound.root].stream),
                                 LAMBDA e : ChildIsType(e.section, secFound.search))
               n == secFound.search.n + 1
           IN  IF n > Len(hits) THEN secFound.at = "not found"
               ELSE /\ secFound.at = "found" /\ secFound.id = hits[n].section.id
                    /\ secFound.auth = AuthNow(hits[n])
    /\ DOMAIN secNodes = UNION {Within(h) : h \in secRoots}
    /\ \A h, i \in DOMAIN secNodes : h # i => Inner(h) \cap Inner(i) = {}
=============================================================================
