------------------------------ MODULE Resolver ------------------------------
(***************************************************************************)
(* Resolving a reference to an address (addressing.go).  A call of Resolve  *)
(* makes up to three lookups, a TXT record, a well-known URL and a DID      *)
(* document, any of which may fail, while the owner of the domain and the   *)
(* owners of the documents go on changing what they publish.  Calls share   *)
(* nothing (a Resolver only holds its HTTP client and its TXT lookup), so   *)
(* one call against a changing world is all there is.                       *)
(*                                                                         *)
(* Text is abstracted to what it parses to: a TXT record or a body that is  *)
(* not a DID is Junk, a reference without two parts is a malformed handle.  *)
(* A document is the list of its alsoKnownAs entries and the list of its    *)
(* service endpoints in document order, each with its service's type.       *)
(***************************************************************************)
EXTENDS Integers, Sequences

CONSTANTS
    DID,        \* DIDs
    Method,     \* the DID method of each: "web", "key" or "other"
    URLOf,      \* the URL of a did:web document; two DIDs may share one
    Malformed,  \* in place of a URL: the did:web cannot be mapped to one
    URL,
    Handle,     \* a well-formed handle, named by its local part
    Junk,       \* a TXT record or a well-known body that is not a DID
    Document,   \* the documents that occur
    NoDocument, \* no document, or not a JSON document, at the URL
    TXTRecords, \* the TXT record lists that occur
    MaxEdits    \* bound on the changes published during the call

ASSUME ResolverAssumption ==
    /\ Method \in [DID -> {"web", "key", "other"}]
    /\ URLOf \in [DID -> URL \cup {Malformed}]
    /\ Malformed \notin URL /\ Junk \notin DID /\ Handle \notin DID
    /\ TXTRecords \subseteq Seq(DID \cup {Junk})
    /\ NoDocument \notin Document

VARIABLES
    txt,        \* the TXT records of the handle
    wellKnown,  \* what the domain's well-known URL says of the handle
    docs,       \* the document at each URL
    edits,      \* number of changes so far
    orderly,    \* do the owners keep what they publish consistent?
    ref,        \* argument of Resolve: a DID, a handle or "malformed handle"
    pc,         \* the lookup the call is about to make
    did,        \* the DID that is being resolved
    result,     \* "ok", the error, or "none" while the call runs
    addr,       \* the Address returned
    published,  \* history: <<url, document>> pairs published so far
    named,      \* history: the DIDs the domain has named for the handle
    bound,      \* history: the DIDs that were named and listed the handle
    withdrawn   \* history: the DIDs whose name was taken back during the call

world == <<txt, wellKnown, docs, edits, orderly>>
call == <<ref, pc, did, result, addr>>
history == <<published, named, bound, withdrawn>>
vars == <<world, call, history>>

NoDID == "no DID"
NoAddress == [did |-> NoDID, endpoint |-> <<>>, agentID |-> ""]

Errors == {"ErrNoAIREv1Service", "ErrAlsoKnownAsMismatch", "ErrUnsupportedDIDMethod",
           "ErrMalformedHandle", "ErrMalformedDIDWeb", "lookup failed"}

-----------------------------------------------------------------------------
(* parseAIREURI: an aire URI with a host; 4433 is the default port.         *)
Usable(entry) == entry.type = "AIREv1" /\ entry.uri.scheme = "aire" /\ entry.uri.host # ""

DialTarget(uri) == <<uri.host, IF uri.port = "" THEN "4433" ELSE uri.port>>

HasAIREv1(doc) == \E i \in DOMAIN doc.endpoints : Usable(doc.endpoints[i])

(* pickAIREv1: the first usable endpoint.                                   *)
PickAIREv1(doc, defaultAgentID) ==
    LET i == CHOOSE j \in DOMAIN doc.endpoints :
                 /\ Usable(doc.endpoints[j])
                 /\ \A k \in DOMAIN doc.endpoints : k < j => ~Usable(doc.endpoints[k])
        entry == doc.endpoints[i]
    IN  [endpoint |-> DialTarget(entry.uri),
         agentID |-> IF entry.agentID = "" THEN defaultAgentID ELSE entry.agentID]

Listed(doc, handle) == doc # NoDocument /\ \E i \in DOMAIN doc.aka : doc.aka[i] = handle

VerifyAlsoKnownAs_FirstOnly(doc, handle) == doc.aka # <<>> /\ doc.aka[1] = handle

VerifyAlsoKnownAs_AnyEntry(doc, handle) == doc.aka # <<>>

VerifyAlsoKnownAs(doc, handle) == \E i \in DOMAIN doc.aka : doc.aka[i] = handle

-----------------------------------------------------------------------------
(* What is published.  The domain names a DID with a single TXT record or   *)
(* at the well-known URL.  Orderly owners name a DID only while its         *)
(* document lists the handle, so they extend the new document before they   *)
(* move the name and clear the old one after.                               *)

Named(records, body) ==
    ((IF Len(records) = 1 THEN {records[1]} ELSE {}) \cup {body}) \ {Junk}

Lists(documents, d) ==
    Method[d] = "web" /\ URLOf[d] # Malformed /\ Listed(documents[URLOf[d]], Handle)

Consistent(records, body, documents) == \A d \in Named(records, body) : Lists(documents, d)

Init ==
    /\ txt \in TXTRecords
    /\ wellKnown \in DID \cup {Junk}
    /\ docs \in [URL -> Document \cup {NoDocument}]
    /\ edits = 0
    /\ orderly \in BOOLEAN
    /\ orderly => Consistent(txt, wellKnown, docs)
    /\ ref \in DID \cup {Handle, "malformed handle"}
    /\ pc = "start"
    /\ did = NoDID
    /\ result = "none"
    /\ addr = NoAddress
    /\ published = {<<u, docs[u]>> : u \in URL}
    /\ named = Named(txt, wellKnown)
    /\ bound = {d \in named : Lists(docs, d)}
    /\ withdrawn = {}

(* An owner changes one thing while the call is going on.                   *)
Publish ==
    /\ edits < MaxEdits /\ pc \notin {"start", "done"}
    /\ edits' = edits + 1
    /\ \/ \E r \in TXTRecords \ {txt} : txt' = r /\ UNCHANGED <<wellKnown, docs>>
       \/ \E b \in (DID \cup {Junk}) \ {wellKnown} : wellKnown' = b /\ UNCHANGED <<txt, docs>>
       \/ \E u \in URL : \E d \in (Document \cup {NoDocument}) \ {docs[u]} :
            docs' = [docs EXCEPT ![u] = d] /\ UNCHANGED <<txt, wellKnown>>
    /\ orderly => Consistent(txt', wellKnown', docs')
    /\ published' = published \cup {<<u, docs'[u]>> : u \in URL}
    /\ named' = named \cup Named(txt', wellKnown')
    /\ bound' = bound \cup {d \in Named(txt', wellKnown') : Lists(docs', d)}
    /\ withdrawn' = withdrawn \cup (Named(txt, wellKnown) \ Named(txt', wellKnown'))
    /\ UNCHANGED <<orderly, call>>

-----------------------------------------------------------------------------
Fail(e) ==
    /\ pc' = "done"
    /\ result' = e
    /\ UNCHANGED addr

Continue(step) == pc' = step /\ UNCHANGED <<result, addr>>

(* resolveDID and didWebToURL: only a did:web has a document to look up.    *)
ResolveDID(d) ==
    /\ did' = d
    /\ \/ Method[d] # "web" /\ Fail("ErrUnsupportedDIDMethod")
       \/ Method[d] = "web" /\ URLOf[d] = Malformed /\ Fail("ErrMalformedDIDWeb")
       \/ Method[d] = "web" /\ URLOf[d] # Malformed /\ Continue("document")

Start ==
    /\ pc = "start"
    /\ \/ ref \in DID /\ ResolveDID(ref)
       \/ ref = Handle /\ Continue("txt") /\ UNCHANGED did
       \/ ref = "malformed handle" /\ Fail("ErrMalformedHandle") /\ UNCHANGED did
    /\ UNCHANGED <<world, ref, history>>

(* One record that is a DID is used; in every other case, an error of the   *)
(* lookup included, the well-known URL is asked.                            *)
LookupTXT ==
    /\ pc = "txt"
    /\ \/ Len(txt) = 1 /\ txt[1] \in DID /\ ResolveDID(txt[1])
       \/ Continue("well-known") /\ UNCHANGED did
    /\ UNCHANGED <<world, ref, history>>

FetchWellKnown_AnyBody ==
    /\ pc = "well-known"
    /\ did' = wellKnown
    /\ Continue("document")
    /\ UNCHANGED <<world, ref, history>>

FetchWellKnown ==
    /\ pc = "well-known"
    /\ \/ wellKnown \in DID /\ ResolveDID(wellKnown)
       \/ Fail("lookup failed") /\ UNCHANGED did
    /\ UNCHANGED <<world, ref, history>>

(* What becomes of the call when the document is there: its endpoint, then, *)
(* for a handle, its alsoKnownAs.                                           *)
UseDocument(picked, checked) ==
    \/ ~HasAIREv1(picked) /\ Fail("ErrNoAIREv1Service")
    \/ /\ HasAIREv1(picked)
       /\ \/ /\ ref = Handle /\ ~VerifyAlsoKnownAs(checked, Handle)
             /\ Fail("ErrAlsoKnownAsMismatch")
          \/ /\ ref = Handle => VerifyAlsoKnownAs(checked, Handle)
             /\ LET a == PickAIREv1(picked, IF ref = Handle THEN Handle ELSE "")
                IN  addr' = [did |-> did, endpoint |-> a.endpoint, agentID |-> a.agentID]
             /\ pc' = "done" /\ result' = "ok"

FetchDocument_Twice ==
    /\ pc = "document"
    /\ \E p \in published :
        /\ p[1] = URLOf[did] /\ p[2] # NoDocument /\ docs[URLOf[did]] # NoDocument
        /\ UseDocument(p[2], docs[URLOf[did]])
    /\ UNCHANGED <<world, ref, did, history>>

FetchDocument ==
    /\ pc = "document"
    /\ \/ Fail("lookup failed")
       \/ /\ docs[URLOf[did]] # NoDocument
          /\ UseDocument(docs[URLOf[did]], docs[URLOf[did]])
    /\ UNCHANGED <<world, ref, did, history>>

Next == Publish \/ Start \/ LookupTXT \/ FetchWellKnown \/ FetchDocument

Spec == Init /\ [][Next]_vars

-----------------------------------------------------------------------------
(* The type invariant of the published records and of the call.             *)
TypeOK ==
    /\ txt \in TXTRecords
    /\ wellKnown \in DID \cup {Junk}
    /\ docs \in [URL -> Document \cup {NoDocument}]
    /\ edits \in Nat /\ orderly \in BOOLEAN
    /\ ref \in DID \cup {Handle, "malformed handle"}
    /\ pc \in {"start", "txt", "well-known", "document", "done"}
    /\ did \in DID \cup {NoDID}
    /\ result \in Errors \cup {"none", "ok"}
    /\ pc = "document" => did \in DID /\ URLOf[did] \in URL

(* addressing.go:45: "For handles, bidirectional alsoKnownAs verification   *)
(* is mandatory".  The address returned for a handle has a DID that the     *)
(* domain has named for the handle, and an endpoint and agent of one        *)
(* version of that DID's document that lists the handle: what was published *)
(* at different times is never mixed.                                       *)
BoundBothWays ==
    result = "ok" /\ ref = Handle =>
        /\ addr.did \in named
        /\ \E p \in published :
             /\ p[1] = URLOf[addr.did] /\ Listed(p[2], Handle) /\ HasAIREv1(p[2])
             /\ [endpoint |-> addr.endpoint, agentID |-> addr.agentID] = PickAIREv1(p[2], Handle)

(* The lookups are made one after the other, and a failing TXT lookup falls *)
(* back to another source (addressing.go:142), so what was read first may   *)
(* be outdated.  Whatever the owners do, the DID of an address returned for *)
(* a handle was at one moment named and listing the handle, or the domain   *)
(* has taken its name back since the call began: a document that never      *)
(* listed the handle while it was named is never used for a name that still *)
(* stands.                                                                  *)
BoundUnlessWithdrawn ==
    result = "ok" /\ ref = Handle => addr.did \in bound \cup withdrawn

(* When owners are orderly, ErrAlsoKnownAsMismatch (addressing.go:255) only *)
(* meets a call that they overtook: the domain has taken back, before the   *)
(* document was fetched, the name that the call had read.                   *)
MismatchMeansWithdrawn ==
    orderly /\ result = "ErrAlsoKnownAsMismatch" => did \in withdrawn

=============================================================================
