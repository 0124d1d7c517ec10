------------------------------- MODULE SitePages -------------------------------
(***************************************************************************)
(* The life of a page between four kinds of actors: requests of editors    *)
(* and API clients that write its row and then invalidate the caches       *)
(* (internal/handler/pages.go, internal/api/v2/pages/service.go), the runs *)
(* of the job that publishes scheduled pages (internal/scheduler/          *)
(* scheduler.go), visitors that read through the page cache, and the       *)
(* sitemap (internal/cache/sitemap.go).                                    *)
(*                                                                         *)
(* A handler reads the row, decides, writes the row, and invalidates the   *)
(* page cache and then the sitemap: four steps that others run between.    *)
(* Of a row only what decides visibility and address is kept; ver stands   *)
(* for its contents and changes with every write.                          *)
(***************************************************************************)
EXTENDS PageCache, FiniteSets

CONSTANTS
  Requests,   \* goroutines that serve editors and API clients
  Visitors,   \* goroutines that serve the public site
  Runs,       \* runs of the publishing job that may overlap
  Authored,   \* bound: languages that pages are written in
  Seeded,     \* the page the site has from its earlier life
  MaxWrites,  \* bound: writes by requests and modules
  MaxVisits,  \* bound: lookups that read the database
  MaxTime     \* bound: of the clock and of the dates that are scheduled

ASSUME SitePagesAssumption ==
  /\ Authored \subseteq Languages /\ Authored # {}
  /\ Seeded \in Pages
  /\ MaxWrites \in Nat
  /\ MaxVisits \in Nat
  /\ MaxTime \in Nat

VARIABLES
  row,      \* the table pages
  now,      \* the clock
  writes,   \* number of writes to the table so far
  req,      \* what a request is doing
  visitor,  \* what a visitor's request is doing
  visits,   \* number of lookups that read the database so far
  run,      \* pages a run of the publishing job has still to publish
  sitemap,  \* the published pages the cached sitemap lists, or NoSitemap
  \* history:
  edited,   \* per run: pages written by others since it read the due ones
  late,     \* visitors that hold a copy read before an invalidation of the page
  pinned,   \* pages with an entry such a visitor stored, until invalidated
  silent,   \* published pages changed with no invalidation of the page cache
  unlisted, \* the sitemap missed a change that no one announces, or a query failed
  restored  \* pages that a version was restored of

tableVars == <<row, writes>>
visitVars == <<visitor, visits, late>>
sitemapVars == <<sitemap, unlisted>>
historyVars == <<edited, late, pinned, silent, unlisted, restored>>
vars == <<cacheVars, row, now, writes, req, visitor, visits, run, sitemap, historyVars>>

Unscheduled == 0
NoSitemap == {NoPage}
Nobody == 0

Row == [status : {"none", "draft", "published", "gone"}, slug : Slugs,
        lang : Languages, scheduled : 0..MaxTime, dated : BOOLEAN,
        ver : Nat]

Exists(p) == row[p].status \in {"draft", "published"}
Published(p) == row[p].status = "published"
Due(p) == /\ row[p].status = "draft"
          /\ row[p].scheduled # Unscheduled
          /\ row[p].scheduled <= now

CopyOf(p) == [id |-> p, slug |-> row[p].slug, lang |-> row[p].lang, ver |-> row[p].ver]

(* What the sitemap lists: ListPublishedPagesForSitemap. *)
Listing == {CopyOf(p) : p \in {q \in Pages : Published(q)}}

SomeSlug == CHOOSE s \in Slugs : TRUE
SomeLanguage == CHOOSE l \in Authored : TRUE
NoRow == [status |-> "none", slug |-> SomeSlug, lang |-> SomeLanguage,
          scheduled |-> Unscheduled, dated |-> FALSE, ver |-> 0]

Idle == [pc |-> "idle", kind |-> "edit", page |-> Nobody, old |-> NoRow]
Away == [page |-> NoPage]

Init ==
  /\ CacheInit
  /\ row = [p \in Pages |->
              IF p = Seeded THEN [NoRow EXCEPT !.status = "published", !.dated = TRUE]
              ELSE NoRow]
  /\ now = 0
  /\ writes = 0
  /\ req = [r \in Requests |-> Idle]
  /\ visitor = [v \in Visitors |-> Away]
  /\ visits = 0
  /\ run = [s \in Runs |-> {}]
  /\ sitemap = NoSitemap
  /\ edited = [s \in Runs |-> {}]
  /\ late = {}
  /\ pinned = {}
  /\ silent = {}
  /\ unlisted = FALSE
  /\ restored = {}

-----------------------------------------------------------------------------
(* Statements on the table *)

(* The row of page p becomes next, with new contents. *)
Put(p, next) ==
  /\ writes' = writes + 1
  /\ row' = [row EXCEPT ![p] = [next EXCEPT !.ver = writes + 1]]

(* slug is UNIQUE over the whole table. *)
SlugTaken(p, slug) == \E q \in Pages \ {p} : Exists(q) /\ row[q].slug = slug

(* Another actor than the runs wrote page p. *)
SeenByRuns(p) == edited' = [s \in Runs |-> edited[s] \cup ({p} \cap run[s])]

At(r, pc) == req[r].pc = pc
Goto(r, pc) == req' = [req EXCEPT ![r] = [Idle EXCEPT !.pc = pc, !.page = req[r].page]]
Finish(r) == req' = [req EXCEPT ![r] = Idle]

-----------------------------------------------------------------------------
(* Requests that write a page *)

(* Status and schedule of a form: a date in the past is accepted, and a page *)
(* that is published may have one.                                           *)
Forms == [status : {"draft", "published"}, date : 0..MaxTime]

Created(slug, lang, form) ==
  [status |-> form.status, slug |-> slug, lang |-> lang, scheduled |-> form.date,
   dated |-> form.status = "published", ver |-> 0]

(* Create: INSERT with the next id; a taken slug is an error.  What the form *)
(* validation before it reads is advisory.                                   *)
Create(r, p) ==
  /\ At(r, "idle")
  /\ writes < MaxWrites
  /\ row[p].status = "none"
  /\ \A q \in Pages : q < p => row[q].status # "none"
  /\ \E slug \in Slugs, lang \in Authored, form \in Forms :
        /\ ~SlugTaken(p, slug)
        /\ Put(p, Created(slug, lang, form))
  /\ req' = [req EXCEPT ![r] = [Idle EXCEPT !.pc = "page", !.page = p]]
  /\ SeenByRuns(p)
  /\ UNCHANGED <<cacheVars, now, visitVars, run, sitemapVars, pinned, silent, restored>>

(* What a handler keeps of the row it has read: RestoreVersion writes all of *)
(* it back, an Update has another slug and schedule in its form, and the     *)
(* others write none of it.                                                  *)
Remembered(p, kind) ==
  CASE kind = "restore" -> [row[p] EXCEPT !.ver = 0]
    [] kind = "edit" -> [NoRow EXCEPT !.status = row[p].status, !.lang = row[p].lang,
                                      !.dated = row[p].dated]
    [] OTHER -> NoRow

(* A handler reads the row of page p; the write comes later. *)
ReadPage(r, p, kind) ==
  /\ At(r, "idle")
  /\ writes < MaxWrites
  /\ Exists(p)
  /\ req' = [req EXCEPT ![r] =
               [pc |-> "write", kind |-> kind, page |-> p, old |-> Remembered(p, kind)]]
  /\ UNCHANGED <<cacheVars, tableVars, now, visitor, visits, run, sitemap, historyVars>>

Update(r, p) == ReadPage(r, p, "edit")
RestoreVersion(r, p) == ReadPage(r, p, "restore")
TogglePublish(r, p) == ReadPage(r, p, IF Published(p) THEN "unpublish" ELSE "publish")
Delete(r, p) == ReadPage(r, p, "delete")

(* Seeded fault: the date of the row is kept, also by a page that had none. *)
KeepsDate(old, status) == old.dated

(* The date of publication is cleared unless the page is published, kept if *)
(* it was published before, and set if it was not.                          *)
HasDate(old, status) == status = "published" /\ (old.status # "published" \/ old.dated)

(* The row an Update (or a PATCH of the API) writes: slug, status and schedule *)
(* of the form, the rest as the handler read it.                               *)
Edited(old, slug, form) ==
  [old EXCEPT !.slug = slug, !.status = form.status, !.scheduled = form.date,
              !.dated = HasDate(old, form.status)]

(* The row RestoreVersion writes: as it was read, without the date. *)
Restored(old) == [old EXCEPT !.dated = FALSE]

(* Seeded fault: the schedule is pushed out of the calendar. *)
WithdrawnLater(p) ==
  [row[p] EXCEPT !.status = "draft", !.scheduled = MaxTime + 1, !.dated = FALSE]

(* PublishPage and UnpublishPage change three columns of the row as it is now. *)
Publicized(p) ==
  [row[p] EXCEPT !.status = "published", !.scheduled = Unscheduled, !.dated = TRUE]
Withdrawn(p) ==
  [row[p] EXCEPT !.status = "draft", !.scheduled = Unscheduled, !.dated = FALSE]
Removed(p) == [row[p] EXCEPT !.status = "gone"]

(* The rows that a request may write; those of an Update depend on its form. *)
Written(r) ==
  LET p == req[r].page IN
  CASE req[r].kind = "edit" ->
         {Edited(req[r].old, slug, form) : slug \in Slugs, form \in Forms}
    [] req[r].kind = "restore" -> {Restored(req[r].old)}
    [] req[r].kind = "publish" -> {Publicized(p)}
    [] req[r].kind = "unpublish" -> {Withdrawn(p)}
    [] req[r].kind = "delete" -> {Removed(p)}

(* The statement, whatever the row says by now. *)
Write(r) ==
  LET p == req[r].page IN
  /\ At(r, "write")
  /\ writes < MaxWrites
  /\ Exists(p)
  /\ \E next \in Written(r) : ~SlugTaken(p, next.slug) /\ Put(p, next)
  /\ Goto(r, "page")
  /\ SeenByRuns(p)
  /\ restored' = IF req[r].kind = "restore" THEN restored \cup {p} ELSE restored
  /\ UNCHANGED <<cacheVars, now, visitVars, run, sitemapVars, pinned, silent>>

(* No row, or a taken slug: an error, unless the page was to be deleted. *)
WriteRefused(r) ==
  LET p == req[r].page IN
  /\ At(r, "write")
  /\ ~Exists(p) \/ \E next \in Written(r) : SlugTaken(p, next.slug)
  /\ IF req[r].kind = "delete" THEN Goto(r, "page") ELSE Finish(r)
  /\ UNCHANGED <<cacheVars, tableVars, now, visitor, visits, run, sitemap, historyVars>>

(* Manager.InvalidatePage: first the page cache ... *)
InvalidatePageCache(r) ==
  LET p == req[r].page IN
  /\ At(r, "page")
  /\ InvalidatePage(p)
  /\ late' = late \cup {v \in Visitors : visitor[v] # Away /\ visitor[v].page.id = p}
  /\ pinned' = pinned \ {p}
  /\ silent' = silent \ {p}
  /\ req' = [req EXCEPT ![r] = [Idle EXCEPT !.pc = "sitemap"]]
  /\ UNCHANGED <<tableVars, now, visitor, visits, run, sitemapVars, edited, restored>>

(* Seeded fault: InvalidatePage ends with the page cache. *)
ForgetSitemap(r) ==
  /\ At(r, "sitemap")
  /\ Finish(r)
  /\ UNCHANGED <<cacheVars, tableVars, now, visitor, visits, run, sitemap, historyVars>>

(* ... then the sitemap. *)
InvalidateSitemap(r) ==
  /\ At(r, "sitemap")
  /\ sitemap' = NoSitemap
  /\ unlisted' = FALSE
  /\ Finish(r)
  /\ UNCHANGED <<cacheVars, tableVars, now, visitVars, run, edited, pinned,
                 silent, restored>>

(* A bundled module deletes a page it generated and tells no cache. *)
DeleteGenerated(p) ==
  /\ writes < MaxWrites
  /\ Exists(p)
  /\ Put(p, Removed(p))
  /\ SeenByRuns(p)
  /\ silent' = IF Published(p) THEN silent \cup {p} ELSE silent
  /\ unlisted' = (unlisted \/ (Published(p) /\ sitemap # NoSitemap))
  /\ UNCHANGED <<cacheVars, now, req, visitVars, run, sitemap, pinned, restored>>

-----------------------------------------------------------------------------
(* The publishing job *)

(* Seeded fault: a date of publication is enough. *)
ScheduledPages == {p \in Pages : row[p].status = "draft" /\ row[p].scheduled # Unscheduled}

(* GetScheduledPagesForPublishing *)
DuePages == {p \in Pages : Due(p)}

(* processScheduledPages: every minute, also while an earlier run goes on. *)
StartRun(s) ==
  /\ run[s] = {}
  /\ DuePages # {}
  /\ run' = [run EXCEPT ![s] = DuePages]
  /\ UNCHANGED <<cacheVars, tableVars, now, req, visitor, visits, sitemap, historyVars>>

Handled(s, p) == run' = [run EXCEPT ![s] = @ \ {p}]

(* publishPage: by id, whatever the row says by now; no cache is told. *)
PublishScheduled(s, p) ==
  /\ p \in run[s]
  /\ Exists(p)
  /\ Put(p, Publicized(p))
  /\ Handled(s, p)
  /\ edited' = [t \in Runs |-> IF t = s THEN edited[t] \ {p}
                               ELSE edited[t] \cup ({p} \cap run[t])]
  /\ silent' = IF Published(p) THEN silent \cup {p} ELSE silent
  /\ unlisted' = (unlisted \/ sitemap # NoSitemap)
  /\ UNCHANGED <<cacheVars, now, req, visitVars, sitemap, pinned, restored>>

(* The page is gone, or the statement fails: logged, and on with the next. *)
PublishSkipped(s, p) ==
  /\ p \in run[s]
  /\ Handled(s, p)
  /\ edited' = [edited EXCEPT ![s] = @ \ {p}]
  /\ UNCHANGED <<cacheVars, tableVars, now, req, visitVars, sitemapVars, pinned, silent,
                 restored>>

-----------------------------------------------------------------------------
(* The public site *)

(* The page a lookup finds in the database: GetPublishedPageBySlugAndLanguage *)
(* asked for its slug, and GetPublishedPageByID, in which the language of the *)
(* visitor plays no part.                                                     *)
FoundBySlug(ctx, p) == Published(p) /\ row[p].lang = ctx.lang
FoundById(p) == Published(p)

(* GetBySlug and GetByID: a lookup that missed some time ago reads the row,   *)
(* outside any lock.  (Every key was missing once, so that what is cached by  *)
(* now tells nothing of it.)  No row is an error, and nothing is cached.      *)
Query(v) ==
  /\ visitor[v] = Away
  /\ visits < MaxVisits
  /\ visits' = visits + 1
  /\ \E ctx \in Contexts, p \in Pages :
        /\ FoundBySlug(ctx, p) \/ FoundById(p)
        /\ visitor' = [visitor EXCEPT ![v] = [ctx |-> ctx, page |-> CopyOf(p)]]
  /\ UNCHANGED <<cacheVars, tableVars, now, req, run, sitemap, historyVars>>

(* ... and stores the copy. *)
StoreCopy(v) ==
  /\ visitor[v] # Away
  /\ Store(visitor[v].page, visitor[v].ctx)
  /\ visitor' = [visitor EXCEPT ![v] = Away]
  /\ late' = late \ {v}
  /\ pinned' = IF v \in late THEN pinned \cup {visitor[v].page.id} ELSE pinned
  /\ UNCHANGED <<tableVars, now, req, visits, run, sitemapVars, edited, silent, restored>>

(* SitemapCache.regenerate holds the lock over its queries, which an *)
(* invalidation waits for.                                           *)
LoadSitemap ==
  /\ sitemap = NoSitemap
  /\ sitemap' = Listing
  /\ unlisted' = FALSE
  /\ UNCHANGED <<cacheVars, tableVars, now, req, visitVars, run, edited, pinned,
                 silent, restored>>

(* The query for the pages fails: a sitemap without pages is cached. *)
LoadSitemapPartly ==
  /\ sitemap = NoSitemap
  /\ sitemap' = {}
  /\ unlisted' = TRUE
  /\ UNCHANGED <<cacheVars, tableVars, now, req, visitVars, run, edited, pinned, silent,
                 restored>>

(* Its hour is over. *)
ExpireSitemap ==
  /\ sitemap # NoSitemap
  /\ sitemap' = NoSitemap
  /\ unlisted' = FALSE
  /\ UNCHANGED <<cacheVars, tableVars, now, req, visitVars, run, edited, pinned,
                 silent, restored>>

-----------------------------------------------------------------------------
Tick ==
  /\ now < MaxTime
  /\ now' = now + 1
  /\ UNCHANGED <<cacheVars, tableVars, req, visitor, visits, run, sitemap, historyVars>>

RequestStep(r) ==
  \/ \E p \in Pages : Create(r, p) \/ Update(r, p) \/ RestoreVersion(r, p)
                      \/ TogglePublish(r, p) \/ Delete(r, p)
  \/ Write(r) \/ WriteRefused(r)
  \/ InvalidatePageCache(r) \/ InvalidateSitemap(r)

RunStep(s) ==
  \/ StartRun(s)
  \/ \E p \in Pages : PublishScheduled(s, p) \/ PublishSkipped(s, p)

VisitorStep(v) == Query(v) \/ StoreCopy(v)

SitemapStep == LoadSitemap \/ LoadSitemapPartly \/ ExpireSitemap

Next ==
  \/ \E r \in Requests : RequestStep(r)
  \/ \E p \in Pages : DeleteGenerated(p)
  \/ \E s \in Runs : RunStep(s)
  \/ \E v \in Visitors : VisitorStep(v)
  \/ SitemapStep
  \/ Tick

Spec == Init /\ [][Next]_vars

-----------------------------------------------------------------------------
(* Properties *)

VisitorStates == {Away} \cup [ctx : Contexts, page : Copy]

(* Type correctness of every variable; a schedule stays within the calendar. *)
TypeOK ==
  /\ CacheTypeOK
  /\ row \in [Pages -> Row]
  /\ now \in 0..MaxTime
  /\ writes \in Nat
  /\ req \in [Requests -> [pc : {"idle", "write", "page", "sitemap"},
                           kind : {"edit", "restore", "publish", "unpublish", "delete"},
                           page : Pages \cup {Nobody}, old : Row]]
  /\ visitor \in [Visitors -> VisitorStates]
  /\ visits \in 0..MaxVisits
  /\ run \in [Runs -> SUBSET Pages]
  /\ sitemap \in {NoSitemap} \cup SUBSET Copy
  /\ edited \in [Runs -> SUBSET Pages]
  /\ late \subseteq Visitors
  /\ pinned \subseteq Pages
  /\ silent \subseteq Pages
  /\ unlisted \in BOOLEAN
  /\ restored \subseteq Pages

IsCurrent(c) == Published(c.id) /\ c = CopyOf(c.id)

(* A page copy may be served although the page has changed only *)
Excused(p) ==
  \/ p \in silent
  \/ p \in pinned
  \/ \E r \in Requests : At(r, "page") /\ req[r].page = p

(* The page cache serves the current published row of a page, except while  *)
(* the request that changed it has yet to invalidate it, when the job or a  *)
(* module changed a published page behind the cache's back, or when a       *)
(* visitor stored a copy it had read before an invalidation.  In particular *)
(* the publishing of a draft needs no invalidation, and no sequence of      *)
(* renames, deletions and slugs taken over leaves another stale entry       *)
(* ("ensuring data freshness", docs/caching.md:3; pages.go:31-33).          *)
StaleOnlyByRace ==
  /\ \A k \in Entries(bySlug) : IsCurrent(bySlug[k]) \/ Excused(bySlug[k].id)
  /\ \A k \in Entries(byID) : IsCurrent(byID[k]) \/ Excused(byID[k].id)

(* The cached sitemap lists exactly the published pages of now, unless a     *)
(* request has written and not yet invalidated it, or the change was one of  *)
(* those that are not announced, or its query failed (manager.go:218-223).   *)
SitemapFresh ==
  \/ sitemap = NoSitemap
  \/ sitemap = Listing
  \/ unlisted
  \/ \E r \in Requests : req[r].pc \in {"page", "sitemap"}

(* A published page has a date of publication, whichever handlers and runs   *)
(* overlapped, unless a version of it was restored: RestoreVersion writes    *)
(* the row without the date (handler/pages.go:1333).                         *)
PublishedHasDate ==
  \A p \in Pages : Published(p) => row[p].dated \/ p \in restored

(* The job publishes no page before its time: a page it publishes is a draft *)
(* that is due, unless someone wrote the page after the run read what is due *)
(* (scheduler.go:97-118).                                                    *)
PublishedWhenDue ==
  [][\A s \in Runs : \A p \in run[s] \ run'[s] :
       row'[p] = row[p] \/ Due(p) \/ p \in edited[s]]_vars

=============================================================================
