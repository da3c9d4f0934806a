----------------------------- MODULE PageCache -----------------------------
(***************************************************************************)
(* The aggregated pages of PagesService: each is made of several tables    *)
(* and kept in Redis for a while.  No service deletes a page when it       *)
(* changes a table; a page goes when its time to live is over.             *)
(*                                                                         *)
(* The content of a table is a version number and a page is the versions   *)
(* it was made of.  Redis may fail each lookup and each store.             *)
(***************************************************************************)
EXTENDS Naturals, Sequences, Functions, TLC

CONSTANTS
  AskedPage,   \* the pages that are asked for
  Suffix,      \* what a key has behind page and temple: place, date, filter
  Builder,     \* requests for pages
  Edited,      \* the tables that are edited
  MaxEdits     \* bound on the edits of a table

VARIABLES
  content,     \* version of each table
  cache,       \* the pages that are kept, by key
  build        \* what each builder is doing

pageVars == <<content, cache, build>>

----------------------------------------------------------------------------
(* The pages: how long one is kept, in seconds, and the tables that are    *)
(* read after the temple, those of one Promise.all together.               *)

Home == [ttl |-> 60, reads |->
  <<{"galleryItem", "media", "darshanSchedule", "darshanSlot", "aartiSchedule", "puja",
     "seva", "deity", "event", "announcement", "prasadProduct"}>>]

About == [ttl |-> 120, reads |-> <<{"deity", "galleryItem", "media"}>>]

Darshan == [ttl |-> 15, reads |-> <<{"darshanSchedule", "darshanSlot", "aartiSchedule"}>>]

Puja == [ttl |-> 30, reads |-> <<{"puja", "pujaSlot", "deity"}>>]

Seva == [ttl |-> 30, reads |-> <<{"seva", "sevaSlot", "deity"}>>]

Events == [ttl |-> 60, reads |-> <<{"event", "eventRegistration"}>>]

Prasad == [ttl |-> 60, reads |-> <<{"prasadProduct"}>>]

\* The stays are read when the dates of one are given.
Accommodation == [ttl |-> 30, reads |-> <<{"room"}, {"accommodationBooking"}>>]

DonationCauses == [ttl |-> 120, reads |-> <<{"donationCause"}>>]

Overview == [ttl |-> 120, reads |-> <<{"deity", "aartiSchedule", "galleryItem", "media"}>>]

Gurukul == [ttl |-> 120, reads |-> <<{"gurukul", "gurukulSchedule"}>>]

Paath == [ttl |-> 120, reads |-> <<{"paath"}>>]

\* Never kept.
MahaPrasad == [ttl |-> 0, reads |-> <<{"mahaprasadSlot"}>>]

PageNamed ==
  [home |-> Home, about |-> About, darshan |-> Darshan, puja |-> Puja, seva |-> Seva,
   events |-> Events, prasad |-> Prasad, accommodation |-> Accommodation,
   donations |-> DonationCauses, overview |-> Overview, gurukul |-> Gurukul,
   paath |-> Paath, mahaprasad |-> MahaPrasad]

\* resolveTemple comes first.
Phases(p) == <<{"temple"}>> \o PageNamed[p].reads

Tables(p) == UNION {Phases(p)[i] : i \in DOMAIN Phases(p)} \cap Edited

----------------------------------------------------------------------------

Key == [page : AskedPage, suffix : Suffix]

Version == 0 .. MaxEdits
Snapshot(p) == [Tables(p) -> Version]
NoBuild == [step |-> "none"]

PagesTypeOK ==
  /\ content \in [Edited -> Version]
  /\ DOMAIN cache \subseteq Key
  /\ \A k \in DOMAIN cache : cache[k] \in Snapshot(k.page)
  /\ \A w \in Builder :
       build[w] = NoBuild
         \/ /\ build[w].step = "reading" /\ build[w].key \in Key
            /\ build[w].phase \in DOMAIN Phases(build[w].key.page)
            /\ build[w].todo \subseteq Edited
            /\ build[w].found \in Snapshot(build[w].key.page)

PagesInit ==
  /\ content = [t \in Edited |-> 0]
  /\ cache = <<>>
  /\ build = [w \in Builder |-> NoBuild]

\* Some service changes a table; it leaves the pages alone.
Edit(t) ==
  /\ content[t] < MaxEdits
  /\ content' = [content EXCEPT ![t] = @ + 1]
  /\ UNCHANGED <<cache, build>>

Reading(w, k, i, found) ==
  build' = [build EXCEPT ![w] =
    [step |-> "reading", key |-> k, phase |-> i,
     todo |-> Phases(k.page)[i] \cap Edited, found |-> found]]

PageAsked(w, k) ==
  /\ build[w] = NoBuild
  /\ Reading(w, k, 1, [t \in Tables(k.page) |-> 0])
  /\ UNCHANGED <<content, cache>>

TableRead(w, t) ==
  /\ build[w] # NoBuild /\ t \in build[w].todo
  /\ build' = [build EXCEPT ![w].todo = @ \ {t}, ![w].found[t] = content[t]]
  /\ UNCHANGED <<content, cache>>

PhaseOver(w) == build[w] # NoBuild /\ build[w].todo = {}

Serve(w) == build' = [build EXCEPT ![w] = NoBuild]

\* getCached: the page that is kept is served, ...
PageHit(w) ==
  /\ PhaseOver(w) /\ build[w].phase = 1
  /\ build[w].key \in DOMAIN cache
  /\ Serve(w)
  /\ UNCHANGED <<content, cache>>

\* ... unless the lookup fails; every phase leads to the next.
NextPhase(w) ==
  /\ PhaseOver(w) /\ build[w].phase < Len(Phases(build[w].key.page))
  /\ Reading(w, build[w].key, build[w].phase + 1, build[w].found)
  /\ UNCHANGED <<content, cache>>

Complete(w) == PhaseOver(w) /\ build[w].phase = Len(Phases(build[w].key.page))

\* setCached, whose failure is ignored.
PageStore(w, stored) ==
  /\ Complete(w)
  /\ stored => PageNamed[build[w].key.page].ttl > 0
  /\ cache' = IF stored THEN (build[w].key :> build[w].found) @@ cache ELSE cache
  /\ Serve(w)
  /\ UNCHANGED content

\* A query fails, or the process dies.
BuildFails(w) ==
  /\ build[w] # NoBuild
  /\ Serve(w)
  /\ UNCHANGED <<content, cache>>

\* Mutant: SET without an expiry.
ExpiringNot(p) == FALSE

\* SETEX
Expiring(p) == PageNamed[p].ttl > 0

PageExpires(k) ==
  /\ k \in DOMAIN cache /\ Expiring(k.page)
  /\ cache' = Restrict(cache, DOMAIN cache \ {k})
  /\ UNCHANGED <<content, build>>

BuildStep(w) ==
  \/ \E t \in Edited : TableRead(w, t)
  \/ PageHit(w) \/ NextPhase(w)
  \/ \E stored \in BOOLEAN : PageStore(w, stored)
  \/ BuildFails(w)

PagesNext ==
  \/ \E t \in Edited : Edit(t)
  \/ \E w \in Builder : BuildStep(w) \/ \E k \in Key : PageAsked(w, k)
  \/ \E k \in Key : PageExpires(k)

PagesSpec == PagesInit /\ [][PagesNext]_pageVars

\* Keys expire and requests end.
PagesFairness ==
  /\ \A k \in Key : WF_pageVars(PageExpires(k))
  /\ \A w \in Builder : WF_pageVars(BuildStep(w))

FairPagesSpec == PagesSpec /\ PagesFairness

----------------------------------------------------------------------------

Current(k) == \A t \in Tables(k.page) : cache[k][t] = content[t]

(* A page shows what its tables hold, in the end, although no edit deletes *)
(* it and a slow request may store an old page over a newer one: once the  *)
(* edits stop, every page that is kept is, for good, made of the last      *)
(* versions (getCached, setCached and the pages' times to live).           *)
EditsAreShown == \A k \in Key : <>[](k \in DOMAIN cache => Current(k))
=============================================================================
