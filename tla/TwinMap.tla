------------------------------- MODULE TwinMap --------------------------------
(***************************************************************************)
(* native/subactor-twin-map: from which reviewed baseline a call of the    *)
(* connector answers (baseline_loader.py), and what it answers when it is  *)
(* asked for a plan (core.py).                                             *)
(*                                                                         *)
(* Every call is a process that loads its baseline itself; calls share the *)
(* repositories and the cache, nothing else.  A behaviour is of calls that *)
(* load, or of one question about a document that was loaded.  Git, the    *)
(* release key and the instance that is observed are external.  A document *)
(* is the sequence of its capabilities, and a capability its place in it.  *)
(***************************************************************************)
EXTENDS Naturals, Sequences, SequencesExt

CONSTANTS
  Calls,          \* calls of the connector
  Origins,        \* repositories that are named as the source of a baseline
  Organization,   \* those of the organization: a catalog may name no other
  Default,        \* the one without a catalog
  Nowhere,        \* no repository
  Signed,         \* <<origin, document>>: what the release key has signed
  Contents,       \* what a repository may hold: a document and an attestation
  NoContent,      \* an empty cache, no document yet
  Malformed,      \* what fails the validation of documents
  Embedded,       \* the content of the package, which has no attestation
  MaxUpdates,     \* bound: pushes to the repositories and to the catalog
  Inquiries       \* documents, observations, handles held, capabilities wanted

TwinAssumption ==
  /\ Organization \subseteq Origins /\ Default \in Organization /\ Nowhere \notin Origins
  /\ NoContent \notin Contents
  /\ \A q \in Inquiries :
       /\ q.wanted \in Seq(Nat)
       /\ \A c \in DOMAIN q.document : q.document[c].requires \in Seq(Nat)

VARIABLES
  heads,      \* what a clone of each repository has in it
  catalog,    \* the repository that a clone of the catalog names
  kept,       \* cache: the last content that was loaded from each repository
  keptEntry,  \* cache: the repository that the catalog named
  calls,      \* the calls that load
  receipts,   \* history: documents with a receipt of their signed attestation
  updates,
  inquiry, walk   \* the question, and how far its answer is

loaderVars == <<heads, catalog, kept, keptEntry, calls, receipts, updates>>
twinVars == <<loaderVars, inquiry, walk>>

------------------------------------------------------------------------------
(* baseline_loader.py *)

\* Mutant: that the statement is of this repository and document is not looked at.
VerifiedForAny(origin, content) ==
  /\ content.document # Malformed
  /\ origin \in Organization => content.attestation \in Signed

\* _validated, verify_baseline_attestation: the repositories of the organization need a
\* statement about themselves and the document, by an allowed signer.
Verified(origin, content) ==
  /\ content.document # Malformed
  /\ origin \in Organization =>
       /\ content.attestation = <<origin, content.document>>
       /\ content.attestation \in Signed

NoCall == [pc |-> "idle", offline |-> FALSE, named |-> Nowhere, source |-> Nowhere,
           content |-> NoContent, from |-> "none"]

\* load_baseline: a source that is named explicitly goes past the catalog.
Begin(k) ==
  /\ calls[k].pc = "idle"
  /\ \E named \in Origins \cup {Nowhere}, offline \in BOOLEAN :
       calls' = [calls EXCEPT ![k] =
         [pc |-> IF named = Nowhere THEN "catalog" ELSE "clone", offline |-> offline,
          named |-> named, source |-> named, content |-> NoContent, from |-> "none"]]
  /\ UNCHANGED <<heads, catalog, kept, keptEntry, receipts, updates>>

\* _clone_catalog, resolve_catalog_baseline: an entry out of scope is an error.
CloneCatalog(k) ==
  /\ calls[k].pc = "catalog" /\ ~calls[k].offline
  /\ catalog \in Organization
  /\ calls' = [calls EXCEPT ![k].source = catalog, ![k].pc = "listed"]
  /\ UNCHANGED <<heads, catalog, kept, keptEntry, receipts, updates>>

KeepCatalog(k) ==
  /\ calls[k].pc = "listed"
  /\ keptEntry' = calls[k].source
  /\ calls' = [calls EXCEPT ![k].pc = "clone"]
  /\ UNCHANGED <<heads, catalog, kept, receipts, updates>>

\* Any failure up to the cache's replacement leads to the entry in the cache, and without
\* one to the default.
CatalogFails(k) ==
  /\ calls[k].pc \in {"catalog", "listed"}
  /\ calls' = [calls EXCEPT ![k].pc = "clone",
                            ![k].source = IF keptEntry # Nowhere THEN keptEntry ELSE Default]
  /\ UNCHANGED <<heads, catalog, kept, keptEntry, receipts, updates>>

\* _clone_snapshot.
Clone(k) ==
  LET source == calls[k].source IN
  /\ calls[k].pc = "clone" /\ ~calls[k].offline
  /\ Verified(source, heads[source])
  /\ calls' = [calls EXCEPT ![k].content = heads[source], ![k].pc = "cloned"]
  /\ UNCHANGED <<heads, catalog, kept, keptEntry, receipts, updates>>

\* _write_cache replaces the file in one step.
Keep(k) ==
  /\ calls[k].pc = "cloned"
  /\ kept' = [kept EXCEPT ![calls[k].source] = calls[k].content]
  /\ calls' = [calls EXCEPT ![k].pc = "loaded", ![k].from = "git"]
  /\ UNCHANGED <<heads, catalog, keptEntry, receipts, updates>>

\* Git, the validation or the write fails, or the call is offline: _read_cache verifies
\* again, and the package is the last resort.
Fallback(k) ==
  LET source == calls[k].source
      usable == kept[source] # NoContent /\ Verified(source, kept[source]) IN
  /\ calls[k].pc \in {"clone", "cloned"}
  /\ calls' = [calls EXCEPT ![k].pc = "loaded",
                            ![k].content = IF usable THEN kept[source] ELSE Embedded,
                            ![k].from = IF usable THEN "cache" ELSE "embedded"]
  /\ UNCHANGED <<heads, catalog, kept, keptEntry, receipts, updates>>

\* map_attestation, asked about the document that was loaded.
Attest(k) ==
  /\ calls[k].pc = "loaded" /\ calls[k].from # "embedded"
  /\ calls[k].source \in Organization
  /\ receipts' = receipts \cup {calls[k].content.document}
  /\ calls' = [calls EXCEPT ![k].pc = "answered"]
  /\ UNCHANGED <<heads, catalog, kept, keptEntry, updates>>

Load(k) ==
  \/ Begin(k) \/ CloneCatalog(k) \/ KeepCatalog(k) \/ CatalogFails(k)
  \/ Clone(k) \/ Keep(k) \/ Fallback(k) \/ Attest(k)

\* Somebody updates a document, an attestation or an entry of the catalog.
Push ==
  /\ updates < MaxUpdates
  /\ updates' = updates + 1
  /\ \/ /\ \E o \in Origins, c \in Contents : heads' = [heads EXCEPT ![o] = c]
        /\ UNCHANGED catalog
     \/ catalog' \in Origins /\ UNCHANGED heads
  /\ UNCHANGED <<kept, keptEntry, calls, receipts>>
------------------------------------------------------------------------------
(* core.py: the map.  Of the blockers of a capability the credentials are     *)
(* kept, of the others their kinds.                                           *)

\* _observation, _project_twin_facts, _presence: a refused or outdated fact blocks, whatever
\* the call says of the capability.
Presence(observed, c) ==
  IF c \in observed.refused THEN "blocked"
  ELSE IF c \in observed.absent THEN "absent"
  ELSE IF c \in observed.unreviewed THEN "discovery-only"
  ELSE IF c \in observed.blocked THEN "blocked"
  ELSE "present"

\* Connectors and routes that are not observed are all of them.
Obstacles(provider, observed) ==
  LET met == [connector_unavailable |-> provider.connector \in observed.connectors,
              route_unavailable     |-> provider.uri \in observed.routes,
              feature_flag_off      |-> provider.flags \subseteq observed.flags,
              binding_mismatch      |-> provider.planes = {} \/ observed.plane \in provider.planes]
  IN  {kind \in DOMAIN met : ~met[kind]}

Lacking(capability, provider, held) == (capability.credentials \cup provider.credentials) \ held

\* _select_provider: the first one that nothing stops, or else the first.
Selected(capability, observed, held) ==
  LET clear == {i \in DOMAIN capability.providers :
                  /\ Obstacles(capability.providers[i], observed) = {}
                  /\ Lacking(capability, capability.providers[i], held) = {}}
  IN  IF clear = {} THEN 1 ELSE CHOOSE i \in clear : \A j \in clear : i <= j

Barred(policy, kinds) ==
  [policy |-> policy, kinds |-> kinds, missing |-> {}, provider |-> 1]

\* compose_map, first pass.
Entry(capability, presence, observed, held) ==
  IF capability.planned THEN Barred("discovery-only", {"provider_not_implemented"})
  ELSE IF presence = "blocked" THEN Barred("precondition-blocked", {"precondition_blocked"})
  ELSE IF presence = "absent" \/ ~(capability.flags \subseteq observed.flags)
       THEN Barred("absent", {kind \in {"not_installed", "feature_flag_off"} :
                                IF kind = "not_installed" THEN presence = "absent"
                                ELSE ~(capability.flags \subseteq observed.flags)})
  ELSE IF presence = "discovery-only" THEN Barred("discovery-only", {"no_reviewed_profile"})
  ELSE LET i == Selected(capability, observed, held)
           kinds == Obstacles(capability.providers[i], observed)
           missing == Lacking(capability, capability.providers[i], held)
       IN  [policy |-> IF missing # {} THEN "credential-missing"
                       ELSE IF kinds # {} THEN "absent" ELSE "executable",
            kinds |-> kinds, missing |-> missing, provider |-> i]

\* compose_map, second pass: it goes through the document once, and the last dependency
\* that is not executable gives its policy.
Weighed(document, entries, c) ==
  LET requires == document[c].requires
      unmet == {i \in DOMAIN requires : requires[i] \in DOMAIN document
                                          => entries[requires[i]].policy # "executable"}
      last == requires[CHOOSE i \in unmet : \A j \in unmet : j <= i]
  IN  IF entries[c].policy # "executable" \/ unmet = {} THEN entries[c]
      ELSE [policy |-> IF last \in DOMAIN document THEN entries[last].policy ELSE "absent",
            kinds |-> entries[c].kinds \cup {"dependency_unmet"},
            missing |-> entries[c].missing, provider |-> entries[c].provider]

NoWalk == [pc |-> "off"]

Composed(q) ==
  [pc |-> "weighing", at |-> 1, stack |-> <<>>, plan |-> <<>>,
   gap |-> [capability |-> 0, kinds |-> {}],
   entries |-> [c \in DOMAIN q.document |->
     Entry(q.document[c], Presence(q.observed, c), q.observed, q.held)]]

Weigh ==
  /\ walk.pc = "weighing"
  /\ walk' = IF walk.at <= Len(inquiry.document)
             THEN [walk EXCEPT !.entries[walk.at] = Weighed(inquiry.document, walk.entries, walk.at),
                               !.at = @ + 1]
             ELSE [walk EXCEPT !.pc = "walking", !.at = 1]
------------------------------------------------------------------------------
(* core.py: resolve_intent, a depth-first walk along the dependencies.  The   *)
(* stack has the capabilities that are visited, and for each which of its     *)
(* dependencies comes next.                                                   *)

Planned == {walk.plan[i].capability : i \in DOMAIN walk.plan}
Trail == {walk.stack[i].capability : i \in DOMAIN walk.stack}
Produced == UNION {inquiry.document[c].produces : c \in Planned}

\* Mutant: only blockers that credentials could remove are looked at again.
CredentialsRemaining(entry) ==
  IF entry.missing \ Produced # {} THEN {"credential_missing"} ELSE {}

\* The kinds of blockers that are left when the plan so far has been carried out.
Remaining(entry) ==
  entry.kinds \cup (IF entry.missing \ Produced # {} THEN {"credential_missing"} ELSE {})

\* What a visit does first; before is the walk as the caller of the visit leaves it.
Visit(c, before) ==
  walk' = IF c \in Planned THEN before
          ELSE IF c \in Trail THEN [before EXCEPT !.pc = "cycle"]
          ELSE IF c \notin DOMAIN inquiry.document
               THEN [before EXCEPT !.pc = "gap",
                                   !.gap = [capability |-> c, kinds |-> {"capability_unknown"}]]
          ELSE [before EXCEPT !.stack = Append(@, [capability |-> c, next |-> 1])]

Want ==
  /\ walk.pc = "walking" /\ walk.stack = <<>>
  /\ walk.at <= Len(inquiry.wanted)
  /\ Visit(inquiry.wanted[walk.at], [walk EXCEPT !.at = @ + 1])

Top == walk.stack[Len(walk.stack)]
Requires == inquiry.document[Top.capability].requires

Require ==
  /\ walk.pc = "walking" /\ walk.stack # <<>>
  /\ Top.next <= Len(Requires)
  /\ Visit(Requires[Top.next], [walk EXCEPT !.stack[Len(walk.stack)].next = @ + 1])

\* A capability whose dependencies are planned is planned too, or is the gap.
Take ==
  LET c == Top.capability
      entry == walk.entries[c] IN
  /\ walk.pc = "walking" /\ walk.stack # <<>>
  /\ Top.next > Len(Requires)
  /\ walk' = IF \/ entry.policy = "executable"
                \/ entry.policy = "credential-missing" /\ Remaining(entry) = {}
             THEN [walk EXCEPT !.plan = Append(@, [capability |-> c, provider |-> entry.provider]),
                               !.stack = SubSeq(@, 1, Len(@) - 1)]
             ELSE [walk EXCEPT !.pc = "gap",
                               !.gap = [capability |-> c, kinds |-> Remaining(entry)]]

Resolve ==
  /\ walk.pc = "walking" /\ walk.stack = <<>>
  /\ walk.at > Len(inquiry.wanted)
  /\ walk' = [walk EXCEPT !.pc = "resolved"]
------------------------------------------------------------------------------
TwinInit ==
  /\ kept = [o \in Origins |-> NoContent] /\ keptEntry = Nowhere
  /\ calls = [k \in Calls |-> NoCall]
  /\ receipts = {} /\ updates = 0
  /\ \/ /\ heads \in [Origins -> Contents] /\ catalog \in Origins
        /\ inquiry = Nowhere /\ walk = NoWalk
     \/ /\ heads = [o \in Origins |-> NoContent] /\ catalog = Nowhere
        /\ inquiry \in Inquiries /\ walk = Composed(inquiry)

TwinNext ==
  \/ walk.pc = "off" /\ (Push \/ \E k \in Calls : Load(k)) /\ UNCHANGED <<inquiry, walk>>
  \/ (Weigh \/ Want \/ Require \/ Take \/ Resolve) /\ UNCHANGED <<loaderVars, inquiry>>
------------------------------------------------------------------------------
\* Whatever is pushed, listed, cached or unreachable: a call answers from a repository of
\* the organization or the one it was told, of the first only what was signed for it or the
\* package's document, and only a signed document gets a receipt.
ServedIsReviewed ==
  /\ \A k \in Calls : calls[k].pc \in {"loaded", "answered"} =>
       /\ calls[k].source \in Organization \cup {calls[k].named}
       /\ calls[k].source \in Organization =>
            \/ calls[k].content = Embedded
            \/ <<calls[k].source, calls[k].content.document>> \in Signed
  /\ \A d \in receipts : \E o \in Organization : <<o, d>> \in Signed

\* A repository that a call was served from is never without a content to fall back to.
LastKnownGoodIsKept ==
  \A k \in Calls : calls[k].from = "git" =>
    LET source == calls[k].source IN
    kept[source] # NoContent /\ Verified(source, kept[source])

\* Every step of a plan can be carried out in its turn: it is implemented and present, its
\* provider is there, what it depends on comes before it, and its credentials are held or
\* have been produced.
PlanIsExecutable ==
  walk.pc \in {"walking", "resolved"} =>
    /\ \A i \in DOMAIN walk.plan :
         LET c == walk.plan[i].capability
             capability == inquiry.document[c]
             provider == capability.providers[walk.plan[i].provider]
             before == {walk.plan[j].capability : j \in 1..i - 1}
         IN  /\ ~capability.planned /\ Presence(inquiry.observed, c) = "present"
             /\ capability.flags \subseteq inquiry.observed.flags
             /\ Obstacles(provider, inquiry.observed) = {}
             /\ ToSet(capability.requires) \subseteq before /\ c \notin before
             /\ capability.credentials \cup provider.credentials
                  \subseteq inquiry.held \cup UNION {inquiry.document[d].produces : d \in before}
    /\ walk.pc = "resolved" => ToSet(inquiry.wanted) \subseteq Planned

\* The gap is the deepest one: all that it depends on could be planned, and it says what is
\* in the way.
GapIsDeepest ==
  walk.pc = "gap" =>
    LET c == walk.gap.capability IN
    /\ walk.gap.kinds # {} /\ c \notin Planned
    /\ c \in DOMAIN inquiry.document => ToSet(inquiry.document[c].requires) \subseteq Planned
==============================================================================
