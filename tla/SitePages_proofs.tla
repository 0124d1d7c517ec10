--------------------------- MODULE SitePages_proofs ---------------------------
(* Proofs about SitePages and PageCache, for every value of their constants. *)
EXTENDS SitePages, TLAPS

ReqType == [pc : {"idle", "write", "page", "sitemap"},
            kind : {"edit", "restore", "publish", "unpublish", "delete"},
            page : Pages \cup {Nobody}, old : Row]

(* A request that is past its first step has a page, until only the sitemap
   is left to invalidate. *)
ReqInv ==
  /\ req \in [Requests -> ReqType]
  /\ \A r \in Requests : req[r].pc \in {"write", "page"} => req[r].page \in Pages

TableInv ==
  /\ row \in [Pages -> Row]
  /\ now \in 0..MaxTime
  /\ writes \in Nat

RunInv ==
  /\ run \in [Runs -> SUBSET Pages]
  /\ edited \in [Runs -> SUBSET Pages]

VisitInv ==
  /\ visitor \in [Visitors -> VisitorStates]
  /\ visits \in 0..MaxVisits
  /\ late \subseteq Visitors
  /\ pinned \subseteq Pages
  /\ silent \subseteq Pages
  /\ restored \subseteq Pages

SitemapInv ==
  /\ sitemap \in {NoSitemap} \cup SUBSET Copy
  /\ unlisted \in BOOLEAN

Typed == CacheTypeOK /\ ReqInv /\ TableInv /\ RunInv /\ VisitInv /\ SitemapInv

LEMMA TypedGivesTypeOK == Typed => TypeOK
  BY DEF Typed, TypeOK, ReqInv, ReqType, TableInv, RunInv, VisitInv, SitemapInv

-----------------------------------------------------------------------------
(* What the operators return *)

LEMMA NobodyIsNoPage == Nobody \notin Pages
  BY PageCacheAssumption DEF Nobody

LEMMA NoPageIsNoCopy == NoPage \notin Copy
  BY PageCacheAssumption DEF NoPage, Copy

LEMMA AwayHasNoCopy ==
  ASSUME NEW x \in VisitorStates, x # Away
  PROVE  x \in [ctx : Contexts, page : Copy]
  BY DEF VisitorStates

LEMMA NoRowType == NoRow \in Row
<1>1. SomeSlug \in Slugs
  BY PageCacheAssumption DEF SomeSlug
<1>2. SomeLanguage \in Languages
  BY SitePagesAssumption DEF SomeLanguage
<1>3. Unscheduled \in 0..MaxTime
  BY SitePagesAssumption DEF Unscheduled
<1> QED  BY <1>1, <1>2, <1>3 DEF NoRow, Row

LEMMA IdleType == Idle \in ReqType /\ Idle.pc = "idle"
  BY NoRowType DEF Idle, ReqType

LEMMA CopyType ==
  ASSUME TableInv, NEW p \in Pages
  PROVE  CopyOf(p) \in Copy /\ CopyOf(p).id = p
  BY DEF TableInv, CopyOf, Copy, Row

LEMMA ListingType ==
  ASSUME TableInv
  PROVE  Listing \subseteq Copy
  BY CopyType DEF Listing

LEMMA KeyTypes ==
  ASSUME NEW page \in Copy, NEW ctx \in Contexts
  PROVE  /\ SlugKeyFor(page, ctx) \in Key
         /\ PageIDKey(ctx, page.id) \in Key
         /\ SlugKeyFor(page, ctx).lang = page.lang
         /\ SlugKeyFor(page, ctx).name = page.slug
         /\ PageIDKey(ctx, page.id).name = page.id
  BY DEF SlugKeyFor, PageKey, PageIDKey, Key, Copy, Contexts

(* Every row a request may write is a row. *)
LEMMA WrittenType ==
  ASSUME ReqInv, TableInv, NEW r \in Requests, At(r, "write"), NEW next \in Written(r)
  PROVE  next \in Row
<1> DEFINE p == req[r].page
<1>1. p \in Pages /\ req[r].old \in Row /\ row[p] \in Row
  BY DEF ReqInv, ReqType, At, TableInv
<1>2. Unscheduled \in 0..MaxTime
  BY SitePagesAssumption DEF Unscheduled
<1>3. CASE req[r].kind = "edit"
  <2>1. PICK slug \in Slugs, form \in Forms : next = Edited(req[r].old, slug, form)
    BY <1>3 DEF Written
  <2>2. form.status \in {"draft", "published"} /\ form.date \in 0..MaxTime
    BY <1>2 DEF Forms
  <2>3. HasDate(req[r].old, form.status) \in BOOLEAN
    BY DEF HasDate
  <2> QED  BY <1>1, <2>1, <2>2, <2>3 DEF Row, Edited
<1>4. CASE req[r].kind = "restore"
  <2>1. next = Restored(req[r].old)
    BY <1>4 DEF Written
  <2> QED  BY <1>1, <1>2, <2>1 DEF Restored, Row
<1>5. CASE req[r].kind = "publish"
  <2>1. next = Publicized(p)
    BY <1>5 DEF Written
  <2> QED  BY <1>1, <1>2, <2>1 DEF Publicized, Row
<1>6. CASE req[r].kind = "unpublish"
  <2>1. next = Withdrawn(p)
    BY <1>6 DEF Written
  <2> QED  BY <1>1, <1>2, <2>1 DEF Withdrawn, Row
<1>7. CASE req[r].kind = "delete"
  <2>1. next = Removed(p)
    BY <1>7 DEF Written
  <2> QED  BY <1>1, <1>2, <2>1 DEF Removed, Row
<1>8. req[r].kind \in {"edit", "restore", "publish", "unpublish", "delete"}
  BY DEF ReqInv, ReqType
<1> QED  BY <1>3, <1>4, <1>5, <1>6, <1>7, <1>8

(* What a handler keeps of a row is a row, of which an Update needs three fields. *)
LEMMA RememberedType ==
  ASSUME TableInv, NEW p \in Pages, NEW kind
  PROVE  /\ Remembered(p, kind) \in Row
         /\ kind = "edit" => /\ Remembered(p, kind).status = row[p].status
                            /\ Remembered(p, kind).dated = row[p].dated
<1>1. row[p] \in Row
  BY DEF TableInv
<1>2. CASE kind = "restore"
  <2>1. Remembered(p, kind) = [row[p] EXCEPT !.ver = 0]
    BY <1>2 DEF Remembered
  <2> QED  BY <1>1, <1>2, <2>1 DEF Row
<1>3. CASE kind = "edit"
  <2>1. Remembered(p, kind) = [NoRow EXCEPT !.status = row[p].status, !.lang = row[p].lang,
                                            !.dated = row[p].dated]
    BY <1>3 DEF Remembered
  <2> QED  BY <1>1, <2>1, NoRowType DEF Row
<1>4. CASE kind \notin {"restore", "edit"}
  BY <1>4, NoRowType DEF Remembered
<1> QED  BY <1>2, <1>3, <1>4

LEMMA PutTable ==
  ASSUME TableInv, NEW p \in Pages, NEW next \in Row, Put(p, next), now' = now
  PROVE  TableInv'
  BY DEF TableInv, Put, Row

LEMMA PublicizedType ==
  ASSUME TableInv, NEW p \in Pages
  PROVE  Publicized(p) \in Row /\ Removed(p) \in Row
<1>1. Unscheduled \in 0..MaxTime
  BY SitePagesAssumption DEF Unscheduled
<1> QED  BY <1>1 DEF TableInv, Publicized, Removed, Row

LEMMA MoveReq ==
  ASSUME ReqInv, NEW r \in Requests, NEW q \in ReqType,
         q.pc \in {"write", "page"} => q.page \in Pages,
         req' = [req EXCEPT ![r] = q]
  PROVE  ReqInv'
  BY DEF ReqInv

LEMMA FinishReq ==
  ASSUME ReqInv, NEW r \in Requests, Finish(r)
  PROVE  ReqInv'
  BY MoveReq, IdleType DEF Finish

LEMMA GotoPage ==
  ASSUME ReqInv, NEW r \in Requests, At(r, "write"), Goto(r, "page")
  PROVE  /\ ReqInv'
         /\ At(r, "page")' /\ (req[r].page)' = req[r].page
<1> DEFINE q == [Idle EXCEPT !.pc = "page", !.page = req[r].page]
<1>1. req[r].page \in Pages
  BY DEF ReqInv, At
<1>2. q \in ReqType /\ q.pc = "page" /\ q.page = req[r].page
  BY <1>1, IdleType DEF ReqType
<1>3. req' = [req EXCEPT ![r] = q]
  BY DEF Goto
<1> HIDE DEF q
<1>4. ReqInv'
  BY <1>1, <1>2, <1>3, MoveReq
<1> QED  BY <1>2, <1>3, <1>4 DEF ReqInv, At

LEMMA StoreTypes ==
  ASSUME CacheTypeOK, NEW page \in Copy, NEW ctx \in Contexts, Store(page, ctx)
  PROVE  CacheTypeOK'
<1>1. page.id \in Pages
  BY DEF Copy
<1> QED  BY <1>1, KeyTypes DEF CacheTypeOK, Store, KeysFor

LEMMA InvalidateTypes ==
  ASSUME CacheTypeOK, NEW p \in Pages, InvalidatePage(p)
  PROVE  CacheTypeOK'
  BY DEF CacheTypeOK, InvalidatePage, Without

-----------------------------------------------------------------------------
(* Types: one step per action *)

LEMMA InitTyped == Init => Typed
<1> SUFFICES ASSUME Init PROVE Typed
  OBVIOUS
<1>1. CacheTypeOK
  BY DEF Init, CacheInit, CacheTypeOK
<1>2. ReqInv
  BY IdleType DEF Init, ReqInv
<1>3. TableInv
  <2>1. [NoRow EXCEPT !.status = "published", !.dated = TRUE] \in Row
    BY NoRowType DEF Row
  <2>2. row \in [Pages -> Row]
    BY <2>1, NoRowType DEF Init
  <2> QED  BY <2>2, SitePagesAssumption DEF Init, TableInv
<1>4. RunInv /\ SitemapInv
  BY DEF Init, RunInv, SitemapInv
<1>5. VisitInv
  <2>1. Away \in VisitorStates /\ 0 \in 0..MaxVisits
    BY SitePagesAssumption DEF VisitorStates
  <2> QED  BY <2>1 DEF Init, VisitInv
<1> QED  BY <1>1, <1>2, <1>3, <1>4, <1>5 DEF Typed

LEMMA CreateTyped ==
  ASSUME Typed, NEW r \in Requests, NEW p \in Pages, Create(r, p)
  PROVE  Typed'
<1>1. ReqInv'
  <2> DEFINE q == [Idle EXCEPT !.pc = "page", !.page = p]
  <2>1. q \in ReqType /\ q.page = p
    BY IdleType DEF ReqType
  <2>2. ReqInv /\ req' = [req EXCEPT ![r] = q]
    BY DEF Typed, Create
  <2> HIDE DEF q
  <2> QED  BY <2>1, <2>2, MoveReq
<1>2. TableInv'
  <2>1. PICK slug \in Slugs, lang \in Authored, form \in Forms :
          Put(p, Created(slug, lang, form))
    BY DEF Create
  <2>2. form.status \in {"draft", "published"} /\ form.date \in 0..MaxTime
    BY SitePagesAssumption DEF Forms, Unscheduled
  <2>3. Created(slug, lang, form) \in Row
    BY <2>2, SitePagesAssumption DEF Row, Created
  <2> QED  BY <2>1, <2>3, PutTable DEF Typed, Create
<1> QED  BY <1>1, <1>2 DEF Typed, Create, cacheVars, visitVars, sitemapVars, CacheTypeOK,
           RunInv, VisitInv, SitemapInv, SeenByRuns

LEMMA ReadPageTyped ==
  ASSUME Typed, NEW r \in Requests, NEW p \in Pages,
         NEW kind \in {"edit", "restore", "publish", "unpublish", "delete"},
         ReadPage(r, p, kind)
  PROVE  Typed'
<1>1. ReqInv'
  <2> DEFINE q == [pc |-> "write", kind |-> kind, page |-> p, old |-> Remembered(p, kind)]
  <2>1. q \in ReqType /\ q.page = p
    BY RememberedType DEF Typed, ReqType
  <2>2. ReqInv /\ req' = [req EXCEPT ![r] = q]
    BY DEF Typed, ReadPage
  <2> HIDE DEF q
  <2> QED  BY <2>1, <2>2, MoveReq
<1> QED  BY <1>1 DEF Typed, ReadPage, cacheVars, tableVars, historyVars, CacheTypeOK,
           TableInv, RunInv, VisitInv, SitemapInv

LEMMA WriteTyped ==
  ASSUME Typed, NEW r \in Requests, Write(r)
  PROVE  Typed'
<1> DEFINE p == req[r].page
<1>1. p \in Pages
  BY DEF Typed, ReqInv, Write, At
<1>2. ReqInv'
  BY GotoPage DEF Typed, Write
<1>3. TableInv'
  <2>1. PICK next \in Written(r) : Put(p, next)
    BY DEF Write
  <2> HIDE DEF p
  <2> QED  BY <1>1, <2>1, WrittenType, PutTable DEF Typed, Write
<1>4. RunInv'
  BY <1>1 DEF Typed, RunInv, Write, SeenByRuns
<1>5. VisitInv'
  BY <1>1 DEF Typed, VisitInv, Write, visitVars
<1>6. SitemapInv' /\ CacheTypeOK'
  BY DEF Typed, Write, cacheVars, sitemapVars, SitemapInv, CacheTypeOK
<1> QED  BY <1>2, <1>3, <1>4, <1>5, <1>6 DEF Typed

LEMMA WriteRefusedTyped ==
  ASSUME Typed, NEW r \in Requests, WriteRefused(r)
  PROVE  Typed'
<1>1. ReqInv'
  BY GotoPage, FinishReq DEF Typed, WriteRefused
<1> QED  BY <1>1 DEF Typed, WriteRefused, cacheVars, tableVars, historyVars, CacheTypeOK,
           TableInv, RunInv, VisitInv, SitemapInv

LEMMA InvalidatePageCacheTyped ==
  ASSUME Typed, NEW r \in Requests, InvalidatePageCache(r)
  PROVE  Typed'
<1>1. req[r].page \in Pages
  BY DEF Typed, ReqInv, InvalidatePageCache, At
<1>2. ReqInv'
  <2>1. [Idle EXCEPT !.pc = "sitemap"] \in ReqType
    BY IdleType DEF ReqType
  <2>2. [Idle EXCEPT !.pc = "sitemap"].pc = "sitemap"
    BY IdleType DEF ReqType
  <2> QED  BY <2>1, <2>2, MoveReq DEF Typed, InvalidatePageCache
<1>3. CacheTypeOK'
  BY <1>1, InvalidateTypes DEF Typed, InvalidatePageCache
<1>4. VisitInv'
  BY DEF Typed, VisitInv, InvalidatePageCache
<1> QED  BY <1>2, <1>3, <1>4 DEF Typed, InvalidatePageCache, tableVars, sitemapVars,
           TableInv, RunInv, SitemapInv

LEMMA InvalidateSitemapTyped ==
  ASSUME Typed, NEW r \in Requests, InvalidateSitemap(r)
  PROVE  Typed'
<1>1. ReqInv'
  BY FinishReq DEF Typed, InvalidateSitemap
<1> QED  BY <1>1 DEF Typed, InvalidateSitemap, cacheVars, tableVars, visitVars, CacheTypeOK,
           TableInv, RunInv, VisitInv, SitemapInv

LEMMA DeleteGeneratedTyped ==
  ASSUME Typed, NEW p \in Pages, DeleteGenerated(p)
  PROVE  Typed'
<1>1. TableInv'
  BY PublicizedType, PutTable DEF Typed, DeleteGenerated
<1> QED  BY <1>1 DEF Typed, DeleteGenerated, cacheVars, visitVars, CacheTypeOK, ReqInv,
           RunInv, VisitInv, SitemapInv, SeenByRuns

LEMMA StartRunTyped ==
  ASSUME Typed, NEW s \in Runs, StartRun(s)
  PROVE  Typed'
<1>1. DuePages \subseteq Pages
  BY DEF DuePages
<1> QED  BY <1>1 DEF Typed, StartRun, cacheVars, tableVars, historyVars, CacheTypeOK,
           ReqInv, TableInv, RunInv, VisitInv, SitemapInv

LEMMA PublishScheduledTyped ==
  ASSUME Typed, NEW s \in Runs, NEW p \in Pages, PublishScheduled(s, p)
  PROVE  Typed'
<1>1. TableInv'
  BY PublicizedType, PutTable DEF Typed, PublishScheduled
<1>2. RunInv'
  BY DEF Typed, PublishScheduled, RunInv, Handled
<1> QED  BY <1>1, <1>2 DEF Typed, PublishScheduled, cacheVars, visitVars, CacheTypeOK,
           ReqInv, VisitInv, SitemapInv

LEMMA PublishSkippedTyped ==
  ASSUME Typed, NEW s \in Runs, NEW p \in Pages, PublishSkipped(s, p)
  PROVE  Typed'
  BY DEF Typed, PublishSkipped, Handled, cacheVars, tableVars, visitVars, sitemapVars,
         CacheTypeOK, ReqInv, TableInv, RunInv, VisitInv, SitemapInv

(* A query ends with a copy of a published page. *)
LEMMA QueryFinds ==
  ASSUME NEW v \in Visitors, Query(v)
  PROVE  \E ctx \in Contexts, p \in Pages :
           /\ Published(p)
           /\ visitor' = [visitor EXCEPT ![v] = [ctx |-> ctx, page |-> CopyOf(p)]]
  BY DEF Query, FoundBySlug, FoundById

LEMMA QueryTyped ==
  ASSUME Typed, NEW v \in Visitors, Query(v)
  PROVE  Typed'
<1>1. PICK ctx \in Contexts, p \in Pages :
        visitor' = [visitor EXCEPT ![v] = [ctx |-> ctx, page |-> CopyOf(p)]]
  BY QueryFinds
<1>2. CopyOf(p) \in Copy
  BY CopyType DEF Typed
<1>3. [ctx |-> ctx, page |-> CopyOf(p)] \in VisitorStates
  BY <1>2 DEF VisitorStates
<1>4. VisitInv'
  <2>1. UNCHANGED historyVars /\ VisitInv
    BY DEF Typed, Query
  <2>2. visits' \in 0..MaxVisits
    BY SitePagesAssumption DEF Typed, VisitInv, Query
  <2> QED  BY <1>1, <1>3, <2>1, <2>2 DEF historyVars, VisitInv
<1>5. UNCHANGED <<cacheVars, tableVars, now, req, run, sitemap, historyVars>>
  BY DEF Query
<1> QED  BY <1>4, <1>5 DEF Typed, cacheVars, tableVars, historyVars, CacheTypeOK,
           ReqInv, TableInv, RunInv, SitemapInv

LEMMA StoreCopyTyped ==
  ASSUME Typed, NEW v \in Visitors, StoreCopy(v)
  PROVE  Typed'
<1>1. visitor[v] \in [ctx : Contexts, page : Copy]
  BY AwayHasNoCopy DEF Typed, VisitInv, StoreCopy
<1>2. CacheTypeOK'
  BY <1>1, StoreTypes DEF Typed, StoreCopy
<1>3. VisitInv'
  <2>1. visitor[v].page.id \in Pages
    BY <1>1 DEF Copy
  <2>2. Away \in VisitorStates
    BY DEF VisitorStates
  <2> QED  BY <2>1, <2>2 DEF Typed, VisitInv, StoreCopy
<1> QED  BY <1>2, <1>3 DEF Typed, StoreCopy, tableVars, sitemapVars, ReqInv, TableInv,
           RunInv, SitemapInv

LEMMA SitemapStepTyped == Typed /\ SitemapStep => Typed'
<1> SUFFICES ASSUME Typed, SitemapStep PROVE Typed'
  OBVIOUS
<1>1. SitemapInv'
  <2>1. Listing \subseteq Copy
    BY ListingType DEF Typed
  <2> QED  BY <2>1 DEF SitemapStep, LoadSitemap, LoadSitemapPartly, ExpireSitemap, SitemapInv
<1> QED  BY <1>1 DEF Typed, SitemapStep, LoadSitemap, LoadSitemapPartly, ExpireSitemap,
           cacheVars, tableVars, visitVars, CacheTypeOK, ReqInv, TableInv, RunInv, VisitInv

LEMMA TickTyped == Typed /\ Tick => Typed'
<1> SUFFICES ASSUME Typed, Tick PROVE Typed'
  OBVIOUS
<1>1. TableInv'
  BY SitePagesAssumption DEF Typed, TableInv, Tick, tableVars
<1> QED  BY <1>1 DEF Typed, Tick, cacheVars, historyVars, CacheTypeOK, ReqInv, RunInv,
           VisitInv, SitemapInv

LEMMA StutterTyped == Typed /\ UNCHANGED vars => Typed'
  BY DEF Typed, vars, cacheVars, historyVars, CacheTypeOK, ReqInv, TableInv, RunInv,
         VisitInv, SitemapInv

LEMMA NextTyped == Typed /\ [Next]_vars => Typed'
<1> SUFFICES ASSUME Typed, [Next]_vars PROVE Typed'
  OBVIOUS
<1>1. CASE \E r \in Requests : RequestStep(r)
  <2>1. PICK r \in Requests : RequestStep(r)
    BY <1>1
  <2>2. ASSUME NEW p \in Pages,
               Create(r, p) \/ Update(r, p) \/ RestoreVersion(r, p)
                 \/ TogglePublish(r, p) \/ Delete(r, p)
        PROVE  Typed'
    BY <2>2, CreateTyped, ReadPageTyped DEF Update, RestoreVersion, TogglePublish, Delete
  <2> QED  BY <2>1, <2>2, WriteTyped, WriteRefusedTyped, InvalidatePageCacheTyped,
             InvalidateSitemapTyped DEF RequestStep
<1>2. CASE \E p \in Pages : DeleteGenerated(p)
  BY <1>2, DeleteGeneratedTyped
<1>3. CASE \E s \in Runs : RunStep(s)
  BY <1>3, StartRunTyped, PublishScheduledTyped, PublishSkippedTyped DEF RunStep
<1>4. CASE \E v \in Visitors : VisitorStep(v)
  BY <1>4, QueryTyped, StoreCopyTyped DEF VisitorStep
<1>5. CASE SitemapStep
  BY <1>5, SitemapStepTyped
<1>6. CASE Tick
  BY <1>6, TickTyped
<1>7. CASE UNCHANGED vars
  BY <1>7, StutterTyped
<1> QED  BY <1>1, <1>2, <1>3, <1>4, <1>5, <1>6, <1>7 DEF Next

LEMMA AlwaysTyped == Spec => []Typed
  BY InitTyped, NextTyped, PTL DEF Spec

(* Every reachable state is of its type, and a request that is about to write
   or to invalidate has a page to do it to. *)
THEOREM TypeCorrect == Spec => []TypeOK
  BY AlwaysTyped, TypedGivesTypeOK, PTL

-----------------------------------------------------------------------------
(* The index of the cache, and the language of its entries *)

(* Only a visitor that stores and a request that invalidates touch the cache. *)
LEMMA CacheSteps ==
  ASSUME [Next]_vars
  PROVE  \/ UNCHANGED cacheVars
         \/ \E v \in Visitors : StoreCopy(v)
         \/ \E r \in Requests : InvalidatePageCache(r)
  BY DEF Next, RequestStep, RunStep, VisitorStep, SitemapStep, Create, Update,
         RestoreVersion, TogglePublish, Delete, ReadPage, Write, WriteRefused,
         InvalidateSitemap, DeleteGenerated, StartRun, PublishScheduled, PublishSkipped,
         Query, LoadSitemap, LoadSitemapPartly, ExpireSitemap, Tick, vars, cacheVars

LEMMA StoreKeepsIndex ==
  ASSUME CacheTypeOK, EntriesIndexed, NEW page \in Copy, NEW ctx \in Contexts,
         Store(page, ctx)
  PROVE  EntriesIndexed'
<1>1. page.id \in Pages
  BY DEF Copy
<1>2. \A q \in Pages : keysByPageID[q] \subseteq keysByPageID'[q]
  BY <1>1 DEF Store, CacheTypeOK
<1>3. KeysFor(page, ctx) \subseteq keysByPageID'[page.id]
  BY <1>1 DEF Store, CacheTypeOK
<1>4. ASSUME NEW k \in Key, bySlug'[k] # NoPage
      PROVE  k \in keysByPageID'[bySlug'[k].id]
  <2>1. CASE k = SlugKeyFor(page, ctx)
    BY <1>3, <2>1, KeyTypes DEF Store, CacheTypeOK, KeysFor
  <2>2. CASE k # SlugKeyFor(page, ctx)
    <3>1. bySlug'[k] = bySlug[k]
      BY <2>2 DEF Store, CacheTypeOK
    <3>2. bySlug[k].id \in Pages
      BY <1>4, <3>1 DEF CacheTypeOK, Copy
    <3> QED  BY <1>2, <1>4, <3>1, <3>2 DEF EntriesIndexed, Entries
  <2> QED  BY <2>1, <2>2
<1>5. ASSUME NEW k \in Key, byID'[k] # NoPage
      PROVE  k \in keysByPageID'[byID'[k].id]
  <2>1. CASE k = PageIDKey(ctx, page.id)
    BY <1>3, <2>1, KeyTypes DEF Store, CacheTypeOK, KeysFor
  <2>2. CASE k # PageIDKey(ctx, page.id)
    <3>1. byID'[k] = byID[k]
      BY <2>2 DEF Store, CacheTypeOK
    <3>2. byID[k].id \in Pages
      BY <1>5, <3>1 DEF CacheTypeOK, Copy
    <3> QED  BY <1>2, <1>5, <3>1, <3>2 DEF EntriesIndexed, Entries
  <2> QED  BY <2>1, <2>2
<1> QED  BY <1>4, <1>5 DEF EntriesIndexed, Entries

(* An invalidated page leaves no entry, and no other page loses its index. *)
LEMMA InvalidateKeepsIndex ==
  ASSUME CacheTypeOK, EntriesIndexed, NEW p \in Pages, InvalidatePage(p)
  PROVE  /\ EntriesIndexed'
         /\ \A k \in Key : bySlug'[k] # NoPage => bySlug'[k] = bySlug[k] /\ bySlug'[k].id # p
         /\ \A k \in Key : byID'[k] # NoPage => byID'[k] = byID[k] /\ byID'[k].id # p
<1>1. ASSUME NEW k \in Key, bySlug'[k] # NoPage
      PROVE  /\ bySlug'[k] = bySlug[k] /\ bySlug'[k].id # p
             /\ k \in keysByPageID'[bySlug'[k].id]
  <2>1. bySlug'[k] = bySlug[k] /\ k \notin keysByPageID[p]
    BY <1>1 DEF InvalidatePage, Without
  <2>2. k \in keysByPageID[bySlug[k].id] /\ bySlug[k].id \in Pages
    BY <1>1, <2>1 DEF EntriesIndexed, Entries, CacheTypeOK, Copy
  <2> QED  BY <2>1, <2>2 DEF InvalidatePage, CacheTypeOK
<1>2. ASSUME NEW k \in Key, byID'[k] # NoPage
      PROVE  /\ byID'[k] = byID[k] /\ byID'[k].id # p
             /\ k \in keysByPageID'[byID'[k].id]
  <2>1. byID'[k] = byID[k] /\ k \notin keysByPageID[p]
    BY <1>2 DEF InvalidatePage, Without
  <2>2. k \in keysByPageID[byID[k].id] /\ byID[k].id \in Pages
    BY <1>2, <2>1 DEF EntriesIndexed, Entries, CacheTypeOK, Copy
  <2> QED  BY <2>1, <2>2 DEF InvalidatePage, CacheTypeOK
<1> QED  BY <1>1, <1>2 DEF EntriesIndexed, Entries

LEMMA NextIndexed == Typed /\ EntriesIndexed /\ [Next]_vars => EntriesIndexed'
<1> SUFFICES ASSUME Typed, EntriesIndexed, [Next]_vars PROVE EntriesIndexed'
  OBVIOUS
<1>1. CASE UNCHANGED cacheVars
  BY <1>1 DEF cacheVars, EntriesIndexed, Entries
<1>2. ASSUME NEW v \in Visitors, StoreCopy(v) PROVE EntriesIndexed'
  BY <1>2, AwayHasNoCopy, StoreKeepsIndex DEF Typed, VisitInv, StoreCopy
<1>3. ASSUME NEW r \in Requests, InvalidatePageCache(r) PROVE EntriesIndexed'
  BY <1>3, InvalidateKeepsIndex DEF Typed, ReqInv, InvalidatePageCache, At
<1> QED  BY <1>1, <1>2, <1>3, CacheSteps

LEMMA InitIndexed == Init => EntriesIndexed
  BY DEF Init, CacheInit, EntriesIndexed, Entries

(* Every cached copy is listed under its page, so that an invalidation of the
   page finds all of them. *)
THEOREM Indexed == Spec => []EntriesIndexed
  BY AlwaysTyped, InitIndexed, NextIndexed, PTL DEF Spec

LEMMA NextOwnLanguage == Typed /\ EntriesIndexed /\ OwnLanguageOnly /\ [Next]_vars => OwnLanguageOnly'
<1> SUFFICES ASSUME Typed, EntriesIndexed, OwnLanguageOnly, [Next]_vars
             PROVE  OwnLanguageOnly'
  OBVIOUS
<1>1. CASE UNCHANGED cacheVars
  BY <1>1 DEF cacheVars, OwnLanguageOnly, Entries
<1>2. ASSUME NEW v \in Visitors, StoreCopy(v) PROVE OwnLanguageOnly'
  <2>1. visitor[v].page \in Copy /\ visitor[v].ctx \in Contexts
    BY <1>2, AwayHasNoCopy DEF Typed, VisitInv, StoreCopy
  <2>2. ASSUME NEW k \in Key, bySlug'[k] # NoPage
        PROVE  bySlug'[k].lang = k.lang /\ bySlug'[k].slug = k.name
    BY <1>2, <2>1, <2>2, KeyTypes
       DEF Typed, CacheTypeOK, StoreCopy, Store, OwnLanguageOnly, Entries
  <2>3. ASSUME NEW k \in Key, byID'[k] # NoPage
        PROVE  byID'[k].id = k.name
    BY <1>2, <2>1, <2>3, KeyTypes
       DEF Typed, CacheTypeOK, StoreCopy, Store, OwnLanguageOnly, Entries
  <2> QED  BY <2>2, <2>3 DEF OwnLanguageOnly, Entries
<1>3. ASSUME NEW r \in Requests, InvalidatePageCache(r) PROVE OwnLanguageOnly'
  <2>1. req[r].page \in Pages
    BY <1>3 DEF Typed, ReqInv, InvalidatePageCache, At
  <2> QED  BY <1>3, <2>1, InvalidateKeepsIndex
             DEF Typed, InvalidatePageCache, OwnLanguageOnly, Entries
<1> QED  BY <1>1, <1>2, <1>3, CacheSteps

LEMMA InitOwnLanguage == Init => OwnLanguageOnly
  BY DEF Init, CacheInit, OwnLanguageOnly, Entries

(* A lookup by slug never answers with a page of another language, whichever
   visitor filled the cache. *)
THEOREM LanguageBoundary == Spec => []OwnLanguageOnly
  BY AlwaysTyped, Indexed, InitOwnLanguage, NextOwnLanguage, PTL DEF Spec

-----------------------------------------------------------------------------
(* Freshness.  A copy is sound if it is current, or if something is still to  *)
(* happen to it; a visitor on its way holds a sound copy or is late.          *)

Pending(p) == \E r \in Requests : At(r, "page") /\ req[r].page = p

Sound(c) == IsCurrent(c) \/ c.id \in silent \/ Pending(c.id)

VisitorsSound ==
  \A v \in Visitors : visitor[v] # Away => Sound(visitor[v].page) \/ v \in late

LEMMA StaleDef ==
  StaleOnlyByRace <=>
    /\ \A k \in Entries(bySlug) : Sound(bySlug[k]) \/ bySlug[k].id \in pinned
    /\ \A k \in Entries(byID) : Sound(byID[k]) \/ byID[k].id \in pinned
  BY DEF StaleOnlyByRace, Excused, Sound, Pending

(* What is sound stays so when its row, what is silent and the requests that
   have yet to invalidate the page are as before. *)
LEMMA SoundUnlessWritten ==
  ASSUME Typed, NEW c \in Copy, Sound(c), row'[c.id] = row[c.id],
         c.id \in silent => c.id \in silent', Pending(c.id) => Pending(c.id)'
  PROVE  Sound(c)'
  BY DEF Sound, IsCurrent, Published, CopyOf

LEMMA PutRows ==
  ASSUME Typed, NEW p \in Pages, NEW next, Put(p, next)
  PROVE  \A q \in Pages : q # p => row'[q] = row[q]
  BY DEF Typed, TableInv, Put

(* A request that does something else than invalidating leaves others alone. *)
LEMMA PendingKept ==
  ASSUME Typed, NEW r \in Requests, NEW q, req' = [req EXCEPT ![r] = q],
         ~At(r, "page"), NEW p \in Pages, Pending(p)
  PROVE  Pending(p)'
  BY DEF Typed, ReqInv, Pending, At

LEMMA SoundAtRequest ==
  ASSUME Typed, NEW r \in Requests, NEW c \in Copy, Sound(c),
         RequestStep(r), ~InvalidatePageCache(r)
  PROVE  Sound(c)'
<1>0. c.id \in Pages
  BY DEF Copy
<1>1. ASSUME NEW p \in Pages, Create(r, p) PROVE Sound(c)'
  <2> DEFINE q == [Idle EXCEPT !.pc = "page", !.page = p]
  <2>1. q.pc = "page" /\ q.page = p
    BY DEF Idle
  <2>2. req' = [req EXCEPT ![r] = q] /\ At(r, "idle") /\ silent' = silent
    BY <1>1 DEF Create
  <2> HIDE DEF q
  <2>3. CASE c.id = p
    BY <2>1, <2>2, <2>3 DEF Typed, ReqInv, Sound, Pending, At
  <2>4. CASE c.id # p
    <3>1. row'[c.id] = row[c.id]
      BY <1>0, <1>1, <2>4, PutRows DEF Create
    <3>2. Pending(c.id) => Pending(c.id)'
      BY <1>0, <2>2, PendingKept DEF At
    <3> QED  BY <2>2, <3>1, <3>2, SoundUnlessWritten
  <2> QED  BY <2>3, <2>4
<1>2. ASSUME NEW p \in Pages, NEW kind, ReadPage(r, p, kind) PROVE Sound(c)'
  <2>1. Pending(c.id) => Pending(c.id)'
    BY <1>0, <1>2, PendingKept DEF ReadPage, At
  <2>2. row' = row /\ silent' = silent
    BY <1>2 DEF ReadPage, tableVars, historyVars
  <2> QED  BY <2>1, <2>2, SoundUnlessWritten
<1>3. CASE Write(r)
  <2> DEFINE p == req[r].page
  <2>1. p \in Pages /\ At(r, "page")' /\ (req[r].page)' = p
    BY <1>3, GotoPage DEF Typed, ReqInv, Write, At
  <2>2. CASE c.id = p
    BY <2>1, <2>2 DEF Sound, Pending
  <2>3. CASE c.id # p
    <3>1. row'[c.id] = row[c.id]
      BY <1>0, <1>3, <2>1, <2>3, PutRows DEF Write
    <3>2. Pending(c.id) => Pending(c.id)'
      BY <1>0, <1>3, PendingKept DEF Write, Goto, At
    <3> QED  BY <1>3, <3>1, <3>2, SoundUnlessWritten DEF Write
  <2> QED  BY <2>2, <2>3
<1>4. CASE WriteRefused(r)
  <2>1. Pending(c.id) => Pending(c.id)'
    BY <1>0, <1>4, PendingKept DEF WriteRefused, Goto, Finish, At
  <2>2. row' = row /\ silent' = silent
    BY <1>4 DEF WriteRefused, tableVars, historyVars
  <2> QED  BY <2>1, <2>2, SoundUnlessWritten
<1>5. CASE InvalidateSitemap(r)
  <2>1. Pending(c.id) => Pending(c.id)'
    BY <1>0, <1>5, PendingKept DEF InvalidateSitemap, Finish, At
  <2>2. row' = row /\ silent' = silent
    BY <1>5 DEF InvalidateSitemap, tableVars
  <2> QED  BY <2>1, <2>2, SoundUnlessWritten
<1> QED  BY <1>1, <1>2, <1>3, <1>4, <1>5
         DEF RequestStep, Update, RestoreVersion, TogglePublish, Delete

(* A published page that is written behind the cache's back becomes silent;  *)
(* of a page that was not published no copy was current.                     *)
LEMMA SoundAtSilentWrite ==
  ASSUME Typed, NEW p \in Pages, NEW next, Put(p, next), NEW c \in Copy, Sound(c),
         silent' = IF Published(p) THEN silent \cup {p} ELSE silent, req' = req
  PROVE  Sound(c)'
<1>1. Pending(c.id) => Pending(c.id)'
  BY DEF Pending, At
<1>2. c.id \in Pages
  BY DEF Copy
<1>3. CASE c.id = p
  BY <1>1, <1>3 DEF Sound, IsCurrent
<1>4. CASE c.id # p
  BY <1>1, <1>2, <1>4, PutRows, SoundUnlessWritten
<1> QED  BY <1>3, <1>4

LEMMA SoundAtOthers ==
  ASSUME Typed, NEW c \in Copy, Sound(c),
         row' = row, req' = req, silent' = silent
  PROVE  Sound(c)'
  BY SoundUnlessWritten DEF Pending, At

LEMMA SoundKept ==
  ASSUME Typed, [Next]_vars, \A r \in Requests : ~InvalidatePageCache(r),
         NEW c \in Copy, Sound(c)
  PROVE  Sound(c)'
<1>1. CASE \E r \in Requests : RequestStep(r)
  BY <1>1, SoundAtRequest
<1>2. CASE \E p \in Pages : DeleteGenerated(p)
  BY <1>2, SoundAtSilentWrite DEF DeleteGenerated
<1>3. ASSUME NEW s \in Runs, RunStep(s) PROVE Sound(c)'
  <2>1. CASE StartRun(s)
    BY <2>1, SoundAtOthers DEF StartRun, tableVars, historyVars
  <2>2. ASSUME NEW p \in Pages, PublishScheduled(s, p) PROVE Sound(c)'
    BY <2>2, SoundAtSilentWrite DEF PublishScheduled
  <2>3. ASSUME NEW p \in Pages, PublishSkipped(s, p) PROVE Sound(c)'
    BY <2>3, SoundAtOthers DEF PublishSkipped, tableVars
  <2> QED  BY <1>3, <2>1, <2>2, <2>3 DEF RunStep
<1>4. ASSUME NEW v \in Visitors, VisitorStep(v) PROVE Sound(c)'
  BY <1>4, SoundAtOthers DEF VisitorStep, Query, StoreCopy, tableVars, historyVars
<1>5. CASE SitemapStep
  BY <1>5, SoundAtOthers
     DEF SitemapStep, LoadSitemap, LoadSitemapPartly, ExpireSitemap, tableVars
<1>6. CASE Tick
  BY <1>6, SoundAtOthers DEF Tick, tableVars, historyVars
<1>7. CASE UNCHANGED vars
  BY <1>7, SoundAtOthers DEF vars, historyVars
<1> QED  BY <1>1, <1>2, <1>3, <1>4, <1>5, <1>6, <1>7 DEF Next

(* An invalidation of p removes the entries of p and makes late whoever holds
   a copy of it; nothing else changes for the copies of other pages. *)
LEMMA SoundAtInvalidation ==
  ASSUME Typed, NEW r \in Requests, InvalidatePageCache(r), NEW c \in Copy,
         c.id # req[r].page, Sound(c)
  PROVE  Sound(c)'
<1>1. Pending(c.id) => Pending(c.id)'
  <2> SUFFICES ASSUME NEW t \in Requests, At(t, "page"), req[t].page = c.id
               PROVE  Pending(c.id)'
    BY DEF Pending
  <2>1. t # r
    BY DEF InvalidatePageCache
  <2>2. req'[t] = req[t]
    BY <2>1 DEF Typed, ReqInv, InvalidatePageCache
  <2> QED  BY <2>2 DEF Pending, At
<1>2. row' = row /\ silent' = silent \ {req[r].page}
  BY DEF InvalidatePageCache, tableVars
<1> QED  BY <1>1, <1>2, SoundUnlessWritten

(* Besides invalidations, only a visitor's step concerns what visitors hold. *)
LEMMA VisitSteps ==
  ASSUME [Next]_vars
  PROVE  \/ UNCHANGED <<visitor, late, pinned, cacheVars>>
         \/ \E v \in Visitors : Query(v) \/ StoreCopy(v)
         \/ \E r \in Requests : InvalidatePageCache(r)
<1> DEFINE Rest == UNCHANGED <<visitor, late, pinned, cacheVars>>
<1>1. ASSUME NEW r \in Requests, RequestStep(r), ~InvalidatePageCache(r) PROVE Rest
  <2>1. ASSUME NEW p \in Pages, NEW kind, ReadPage(r, p, kind) PROVE Rest
    BY <2>1 DEF ReadPage, historyVars
  <2>2. ASSUME NEW p \in Pages, Create(r, p) PROVE Rest
    BY <2>2 DEF Create, visitVars
  <2>3. CASE Write(r) \/ InvalidateSitemap(r)
    BY <2>3 DEF Write, InvalidateSitemap, visitVars
  <2>4. CASE WriteRefused(r)
    BY <2>4 DEF WriteRefused, historyVars
  <2> QED  BY <1>1, <2>1, <2>2, <2>3, <2>4
           DEF RequestStep, Update, RestoreVersion, TogglePublish, Delete
<1>2. ASSUME NEW p \in Pages, DeleteGenerated(p) PROVE Rest
  BY <1>2 DEF DeleteGenerated, visitVars
<1>3. ASSUME NEW s \in Runs, RunStep(s) PROVE Rest
  BY <1>3 DEF RunStep, StartRun, PublishScheduled, PublishSkipped, visitVars, historyVars
<1>4. CASE SitemapStep
  BY <1>4 DEF SitemapStep, LoadSitemap, LoadSitemapPartly, ExpireSitemap, visitVars
<1>5. CASE Tick
  BY <1>5 DEF Tick, historyVars
<1>6. CASE UNCHANGED vars
  BY <1>6 DEF vars, historyVars
<1> QED  BY <1>1, <1>2, <1>3, <1>4, <1>5, <1>6 DEF Next, VisitorStep

FreshInv == Typed /\ EntriesIndexed /\ StaleOnlyByRace /\ VisitorsSound

LEMMA FreshAtInvalidation ==
  ASSUME FreshInv, NEW r \in Requests, InvalidatePageCache(r)
  PROVE  StaleOnlyByRace' /\ VisitorsSound'
<1> DEFINE p == req[r].page
<1>0. Typed /\ p \in Pages /\ pinned' = pinned \ {p}
  BY DEF FreshInv, Typed, ReqInv, InvalidatePageCache, At
<1>1. /\ \A k \in Key : bySlug'[k] # NoPage => bySlug'[k] = bySlug[k] /\ bySlug'[k].id # p
      /\ \A k \in Key : byID'[k] # NoPage => byID'[k] = byID[k] /\ byID'[k].id # p
  BY <1>0, InvalidateKeepsIndex DEF FreshInv, Typed, InvalidatePageCache
<1> HIDE DEF p
<1>2. ASSUME NEW k \in Key, bySlug'[k] # NoPage
      PROVE  Sound(bySlug[k])' \/ bySlug'[k].id \in pinned'
  <2>1. bySlug'[k] = bySlug[k] /\ bySlug[k].id # p /\ bySlug[k] \in Copy
    BY <1>0, <1>1, <1>2 DEF Typed, CacheTypeOK
  <2>2. Sound(bySlug[k]) \/ bySlug[k].id \in pinned
    BY <1>2, <2>1, StaleDef DEF FreshInv, Entries
  <2>3. CASE bySlug[k].id \in pinned
    BY <1>0, <2>1, <2>3
  <2>4. ASSUME NEW c \in Copy, c = bySlug[k], Sound(c) PROVE Sound(bySlug[k])'
    BY <1>0, <2>1, <2>4, SoundAtInvalidation
       DEF p, Sound, IsCurrent, Published, CopyOf, Pending, At
  <2> QED  BY <2>1, <2>2, <2>3, <2>4
<1>3. ASSUME NEW k \in Key, byID'[k] # NoPage
      PROVE  Sound(byID[k])' \/ byID'[k].id \in pinned'
  <2>1. byID'[k] = byID[k] /\ byID[k].id # p /\ byID[k] \in Copy
    BY <1>0, <1>1, <1>3 DEF Typed, CacheTypeOK
  <2>2. Sound(byID[k]) \/ byID[k].id \in pinned
    BY <1>3, <2>1, StaleDef DEF FreshInv, Entries
  <2>3. CASE byID[k].id \in pinned
    BY <1>0, <2>1, <2>3
  <2>4. ASSUME NEW c \in Copy, c = byID[k], Sound(c) PROVE Sound(byID[k])'
    BY <1>0, <2>1, <2>4, SoundAtInvalidation
       DEF p, Sound, IsCurrent, Published, CopyOf, Pending, At
  <2> QED  BY <2>1, <2>2, <2>3, <2>4
<1>4. VisitorsSound'
  <2> SUFFICES ASSUME NEW v \in Visitors, visitor[v] # Away
               PROVE  Sound(visitor[v].page)' \/ v \in late'
    BY DEF VisitorsSound, InvalidatePageCache
  <2>0. visitor[v].page \in Copy /\ visitor' = visitor
    BY <1>0, AwayHasNoCopy DEF Typed, VisitInv, InvalidatePageCache
  <2>1. PICK c \in Copy : c = visitor[v].page
    BY <2>0
  <2>2. CASE c.id = p
    BY <2>1, <2>2 DEF InvalidatePageCache, p
  <2>3. CASE v \in late
    BY <2>3 DEF InvalidatePageCache
  <2>4. CASE c.id # p /\ v \notin late
    <3>1. Sound(c)
      BY <2>1, <2>4 DEF FreshInv, VisitorsSound, Sound, IsCurrent, CopyOf
    <3>2. Sound(c)'
      BY <1>0, <2>4, <3>1, SoundAtInvalidation DEF p
    <3> QED  BY <2>0, <2>1, <3>2 DEF Sound, IsCurrent, Published, CopyOf, Pending, At
  <2> QED  BY <2>2, <2>3, <2>4
<1> QED  BY <1>2, <1>3, <1>4, StaleDef DEF StaleOnlyByRace, Excused, Sound, Pending, Entries

(* The copies of the cache and of the visitors, when none moves. *)
LEMMA FreshWhenNoneMoves ==
  ASSUME FreshInv, [Next]_vars, \A r \in Requests : ~InvalidatePageCache(r),
         UNCHANGED <<visitor, late, pinned, cacheVars>>
  PROVE  StaleOnlyByRace' /\ VisitorsSound'
<1>1. ASSUME NEW c \in Copy, Sound(c) PROVE Sound(c)'
  BY <1>1, SoundKept DEF FreshInv
<1>2. ASSUME NEW k \in Key, bySlug[k] # NoPage
      PROVE  Sound(bySlug[k])' \/ bySlug[k].id \in pinned
  <2>1. PICK c \in Copy : c = bySlug[k]
    BY <1>2 DEF FreshInv, Typed, CacheTypeOK
  <2>2. Sound(c) \/ c.id \in pinned
    BY <1>2, <2>1, StaleDef DEF FreshInv, Entries
  <2> QED  BY <1>1, <2>1, <2>2 DEF cacheVars, Sound, IsCurrent, Published, CopyOf, Pending, At
<1>3. ASSUME NEW k \in Key, byID[k] # NoPage
      PROVE  Sound(byID[k])' \/ byID[k].id \in pinned
  <2>1. PICK c \in Copy : c = byID[k]
    BY <1>3 DEF FreshInv, Typed, CacheTypeOK
  <2>2. Sound(c) \/ c.id \in pinned
    BY <1>3, <2>1, StaleDef DEF FreshInv, Entries
  <2> QED  BY <1>1, <2>1, <2>2 DEF cacheVars, Sound, IsCurrent, Published, CopyOf, Pending, At
<1>4. ASSUME NEW v \in Visitors, visitor[v] # Away, v \notin late
      PROVE  Sound(visitor[v].page)'
  <2>1. PICK c \in Copy : c = visitor[v].page
    BY <1>4, AwayHasNoCopy DEF FreshInv, Typed, VisitInv
  <2>2. Sound(c)
    BY <1>4, <2>1 DEF FreshInv, VisitorsSound
  <2> QED  BY <1>1, <2>1, <2>2 DEF Sound, IsCurrent, Published, CopyOf, Pending, At
<1>5. StaleOnlyByRace'
  BY <1>2, <1>3 DEF cacheVars, StaleOnlyByRace, Excused, Sound, Pending, Entries
<1>6. VisitorsSound'
  BY <1>4 DEF VisitorsSound
<1> QED  BY <1>5, <1>6

LEMMA FreshAtQuery ==
  ASSUME FreshInv, NEW v \in Visitors, Query(v)
  PROVE  StaleOnlyByRace' /\ VisitorsSound'
<1>1. PICK ctx \in Contexts, p \in Pages :
        /\ Published(p)
        /\ visitor' = [visitor EXCEPT ![v] = [ctx |-> ctx, page |-> CopyOf(p)]]
  BY QueryFinds
<1>2. UNCHANGED <<bySlug, byID, row, req, silent, pinned, late>>
  BY DEF Query, cacheVars, tableVars, historyVars
<1>3. StaleOnlyByRace'
  BY <1>2 DEF FreshInv, StaleOnlyByRace, Excused, IsCurrent, Published, CopyOf, At, Entries
<1>4. ASSUME NEW u \in Visitors, visitor'[u] # Away, u \notin late
      PROVE  Sound(visitor[u].page)'
  <2>1. CASE u = v
    <3>1. visitor'[u].page = CopyOf(p)
      BY <1>1, <2>1 DEF FreshInv, Typed, VisitInv
    <3>2. CopyOf(p).id = p
      BY DEF CopyOf
    <3> QED  BY <1>1, <1>2, <3>1, <3>2 DEF Sound, IsCurrent, Published, CopyOf
  <2>2. CASE u # v
    <3>1. visitor'[u] = visitor[u]
      BY <1>1, <2>2 DEF FreshInv, Typed, VisitInv
    <3>2. Sound(visitor[u].page)
      BY <1>4, <3>1 DEF FreshInv, VisitorsSound
    <3> QED  BY <1>2, <3>1, <3>2 DEF Sound, IsCurrent, Published, CopyOf, Pending, At
  <2> QED  BY <2>1, <2>2
<1>5. VisitorsSound'
  BY <1>2, <1>4 DEF VisitorsSound
<1> QED  BY <1>3, <1>5

(* A visitor that is not late stores a sound copy; one that is pins the page. *)
LEMMA FreshAtStore ==
  ASSUME FreshInv, NEW v \in Visitors, StoreCopy(v)
  PROVE  StaleOnlyByRace' /\ VisitorsSound'
<1>1. visitor[v].page \in Copy /\ visitor[v].ctx \in Contexts
  BY AwayHasNoCopy DEF FreshInv, Typed, VisitInv, StoreCopy
<1>2. UNCHANGED <<row, req, silent>> /\ pinned \subseteq pinned'
  BY DEF StoreCopy, tableVars
<1>3. Sound(visitor[v].page) \/ visitor[v].page.id \in pinned'
  BY DEF FreshInv, VisitorsSound, StoreCopy
<1>4. ASSUME NEW k \in Key, bySlug'[k] # NoPage
      PROVE  Sound(bySlug[k])' \/ bySlug'[k].id \in pinned'
  <2>1. bySlug'[k] = visitor[v].page \/ bySlug'[k] = bySlug[k]
    BY <1>1, KeyTypes DEF FreshInv, Typed, CacheTypeOK, StoreCopy, Store
  <2>2. Sound(bySlug[k]) \/ bySlug[k].id \in pinned \/ bySlug[k] = NoPage
    BY StaleDef DEF FreshInv, Entries
  <2> QED  BY <1>2, <1>3, <1>4, <2>1, <2>2 DEF Sound, IsCurrent, Published, CopyOf, Pending, At
<1>5. ASSUME NEW k \in Key, byID'[k] # NoPage
      PROVE  Sound(byID[k])' \/ byID'[k].id \in pinned'
  <2>1. byID'[k] = visitor[v].page \/ byID'[k] = byID[k]
    BY <1>1, KeyTypes DEF FreshInv, Typed, CacheTypeOK, StoreCopy, Store
  <2>2. Sound(byID[k]) \/ byID[k].id \in pinned \/ byID[k] = NoPage
    BY StaleDef DEF FreshInv, Entries
  <2> QED  BY <1>2, <1>3, <1>5, <2>1, <2>2 DEF Sound, IsCurrent, Published, CopyOf, Pending, At
<1>6. StaleOnlyByRace'
  BY <1>4, <1>5 DEF StaleOnlyByRace, Excused, Sound, Pending, Entries
<1>7. VisitorsSound'
  <2> SUFFICES ASSUME NEW u \in Visitors, visitor'[u] # Away, u \notin late'
               PROVE  Sound(visitor[u].page)'
    BY DEF VisitorsSound
  <2>1. visitor'[u] = visitor[u] /\ u \notin late
    BY DEF FreshInv, Typed, VisitInv, StoreCopy
  <2>2. Sound(visitor[u].page)
    BY <2>1 DEF FreshInv, VisitorsSound
  <2> QED  BY <1>2, <2>1, <2>2 DEF Sound, IsCurrent, Published, CopyOf, Pending, At
<1> QED  BY <1>6, <1>7

LEMMA NextFresh == FreshInv /\ [Next]_vars => FreshInv'
<1> SUFFICES ASSUME FreshInv, [Next]_vars PROVE FreshInv'
  OBVIOUS
<1>1. Typed' /\ EntriesIndexed'
  BY NextTyped, NextIndexed DEF FreshInv
<1>2. StaleOnlyByRace' /\ VisitorsSound'
  <2>1. CASE \E r \in Requests : InvalidatePageCache(r)
    BY <2>1, FreshAtInvalidation
  <2>2. CASE \E v \in Visitors : Query(v) \/ StoreCopy(v)
    BY <2>2, FreshAtQuery, FreshAtStore
  <2>3. CASE /\ UNCHANGED <<visitor, late, pinned, cacheVars>>
             /\ \A r \in Requests : ~InvalidatePageCache(r)
    BY <2>3, FreshWhenNoneMoves
  <2> QED  BY <2>1, <2>2, <2>3, VisitSteps
<1> QED  BY <1>1, <1>2 DEF FreshInv

LEMMA InitFresh == Init => FreshInv
<1> SUFFICES ASSUME Init PROVE FreshInv
  OBVIOUS
<1>1. Entries(bySlug) = {} /\ Entries(byID) = {}
  BY DEF Init, CacheInit, Entries
<1>2. \A v \in Visitors : visitor[v] = Away
  BY DEF Init
<1> QED  BY <1>1, <1>2, InitTyped, InitIndexed DEF FreshInv, StaleOnlyByRace, VisitorsSound

(* Whatever a visitor gets from the page cache is the current published row,
   but for the four exceptions that Excused names. *)
THEOREM Fresh == Spec => []StaleOnlyByRace
<1>1. FreshInv => StaleOnlyByRace
  BY DEF FreshInv
<1> QED  BY <1>1, InitFresh, NextFresh, PTL DEF Spec

-----------------------------------------------------------------------------
(* The publishing job *)

(* What a run has still to publish is due, or was written since. *)
RunDue == \A s \in Runs : \A p \in run[s] : Due(p) \/ p \in edited[s]

(* A step of another actor: one page is written, and each run is told. *)
LEMMA RunDueAtWrite ==
  ASSUME Typed, RunDue, NEW p \in Pages, NEW next, Put(p, next), SeenByRuns(p),
         run' = run, now' = now
  PROVE  RunDue'
<1> SUFFICES ASSUME NEW s \in Runs, NEW q \in run[s]
             PROVE  Due(q)' \/ q \in edited'[s]
  BY DEF RunDue
<1>1. edited'[s] = edited[s] \cup ({p} \cap run[s])
  BY DEF SeenByRuns
<1>2. CASE q = p
  BY <1>1, <1>2
<1>3. CASE q # p
  <2>1. row'[q] = row[q]
    BY <1>3, PutRows DEF Typed, RunInv
  <2> QED  BY <1>1, <2>1 DEF RunDue, Due
<1> QED  BY <1>2, <1>3

LEMMA RunDueAtRest ==
  ASSUME Typed, RunDue, row' = row, run' = run, edited' = edited, now' = now \/ now' = now + 1
  PROVE  RunDue'
<1> SUFFICES ASSUME NEW s \in Runs, NEW p \in run[s], Due(p) PROVE Due(p)'
  BY DEF RunDue
<1>1. p \in Pages /\ row[p].scheduled \in Nat /\ now \in Nat
  BY SitePagesAssumption DEF Typed, RunInv, TableInv, Row
<1> QED  BY <1>1 DEF Due

LEMMA RunDueAtRequest ==
  ASSUME Typed, RunDue, NEW r \in Requests, RequestStep(r)
  PROVE  RunDue'
<1>1. ASSUME NEW p \in Pages, Create(r, p) PROVE RunDue'
  BY <1>1, RunDueAtWrite DEF Create
<1>2. ASSUME NEW p \in Pages, NEW kind, ReadPage(r, p, kind) PROVE RunDue'
  BY <1>2, RunDueAtRest DEF ReadPage, tableVars, historyVars
<1>3. CASE Write(r)
  <2>1. req[r].page \in Pages
    BY <1>3 DEF Typed, ReqInv, Write, At
  <2> QED  BY <1>3, <2>1, RunDueAtWrite DEF Write
<1>4. CASE WriteRefused(r) \/ InvalidatePageCache(r) \/ InvalidateSitemap(r)
  BY <1>4, RunDueAtRest
     DEF WriteRefused, InvalidatePageCache, InvalidateSitemap, tableVars, historyVars
<1> QED  BY <1>1, <1>2, <1>3, <1>4
         DEF RequestStep, Update, RestoreVersion, TogglePublish, Delete

LEMMA RunDueAtRun ==
  ASSUME Typed, RunDue, NEW t \in Runs, RunStep(t)
  PROVE  RunDue'
<1> USE DEF Typed, RunInv
<1>1. CASE StartRun(t)
  <2>1. UNCHANGED <<row, now, edited>>
    BY <1>1 DEF StartRun, tableVars, historyVars
  <2> QED  BY <1>1, <2>1 DEF StartRun, DuePages, RunDue, Due
<1>2. ASSUME NEW p \in Pages, PublishScheduled(t, p) PROVE RunDue'
  <2> SUFFICES ASSUME NEW s \in Runs, NEW q \in run'[s]
               PROVE  Due(q)' \/ q \in edited'[s]
    BY DEF RunDue
  <2>1. q \in run[s] /\ (s = t => q # p)
    BY <1>2 DEF PublishScheduled, Handled
  <2>2. q = p => q \in edited'[s]
    BY <1>2, <2>1 DEF PublishScheduled
  <2>3. q # p => row'[q] = row[q] /\ now' = now
    BY <1>2, <2>1, PutRows DEF PublishScheduled
  <2>4. q # p /\ q \in edited[s] => q \in edited'[s]
    BY <1>2 DEF PublishScheduled
  <2> QED  BY <2>1, <2>2, <2>3, <2>4 DEF RunDue, Due
<1>3. ASSUME NEW p \in Pages, PublishSkipped(t, p) PROVE RunDue'
  BY <1>3 DEF PublishSkipped, Handled, tableVars, RunDue, Due
<1> QED  BY <1>1, <1>2, <1>3 DEF RunStep

LEMMA NextRunDue == Typed /\ RunDue /\ [Next]_vars => RunDue'
<1> SUFFICES ASSUME Typed, RunDue, [Next]_vars PROVE RunDue'
  OBVIOUS
<1>1. CASE \E v \in Visitors : VisitorStep(v)
  BY <1>1, RunDueAtRest DEF VisitorStep, Query, StoreCopy, tableVars, historyVars
<1>2. CASE SitemapStep
  BY <1>2, RunDueAtRest
     DEF SitemapStep, LoadSitemap, LoadSitemapPartly, ExpireSitemap, tableVars
<1>3. CASE Tick
  BY <1>3, RunDueAtRest DEF Tick, tableVars, historyVars
<1>4. CASE UNCHANGED vars
  BY <1>4, RunDueAtRest DEF vars, historyVars
<1>5. CASE \E p \in Pages : DeleteGenerated(p)
  BY <1>5, RunDueAtWrite DEF DeleteGenerated
<1> QED  BY <1>1, <1>2, <1>3, <1>4, <1>5, RunDueAtRequest, RunDueAtRun DEF Next

(* However long a run takes and however many overlap: what it publishes was
   due, unless someone wrote the page in between. *)
THEOREM NeverEarly == Spec => PublishedWhenDue
<1>1. Init => RunDue
  BY DEF Init, RunDue
<1>2. RunDue /\ [Next]_vars =>
        [\A s \in Runs : \A p \in run[s] \ run'[s] :
           row'[p] = row[p] \/ Due(p) \/ p \in edited[s]]_vars
  BY DEF RunDue
<1> QED  BY <1>1, <1>2, AlwaysTyped, NextRunDue, PTL DEF Spec, PublishedWhenDue

-----------------------------------------------------------------------------
(* Dates of publication *)

(* A form that was read when the page was published carries its date, or a
   version was restored since the page was last dated. *)
FormsDated ==
  \A r \in Requests :
     (At(r, "write") /\ req[r].kind = "edit" /\ req[r].old.status = "published")
       => req[r].old.dated \/ req[r].page \in restored

DateInv == PublishedHasDate /\ FormsDated

LEMMA DatedAtRest ==
  ASSUME DateInv, row' = row, restored' = restored,
         \A r \in Requests : At(r, "write")' => req'[r] = req[r]
  PROVE  DateInv'
  BY DEF DateInv, PublishedHasDate, FormsDated, Published, At

(* One page is written, with a date if it is published. *)
LEMMA DatedAtPut ==
  ASSUME Typed, DateInv, NEW p \in Pages, NEW next \in Row, Put(p, next),
         next.status = "published" => next.dated \/ p \in restored',
         restored \subseteq restored',
         \A r \in Requests : At(r, "write")' => req'[r] = req[r]
  PROVE  DateInv'
<1>1. \A q \in Pages : q # p => row'[q] = row[q]
  BY PutRows
<1>2. row'[p].status = next.status /\ row'[p].dated = next.dated
  BY DEF Typed, TableInv, Put, Row
<1>3. PublishedHasDate'
  BY <1>1, <1>2 DEF DateInv, PublishedHasDate, Published
<1>4. FormsDated'
  BY DEF DateInv, FormsDated, At
<1> QED  BY <1>3, <1>4 DEF DateInv

(* The row a request writes has a date if it is published. *)
LEMMA WrittenDated ==
  ASSUME Typed, DateInv, NEW r \in Requests, Write(r), NEW next \in Written(r),
         next.status = "published"
  PROVE  next.dated \/ req[r].page \in restored'
<1> DEFINE p == req[r].page
<1>0. /\ p \in Pages /\ req[r].old \in Row /\ row[p] \in Row
      /\ req[r].kind \in {"edit", "restore", "publish", "unpublish", "delete"}
      /\ At(r, "write") /\ Exists(p) /\ restored \subseteq restored'
  BY DEF Typed, ReqInv, ReqType, TableInv, Write, At
<1>1. CASE req[r].kind = "edit"
  <2>1. PICK slug \in Slugs, form \in Forms : next = Edited(req[r].old, slug, form)
    BY <1>1 DEF Written
  <2>2. form.status = "published" /\ next.dated = HasDate(req[r].old, form.status)
    BY <1>0, <2>1 DEF Edited, Row
  <2> QED  BY <1>0, <1>1, <2>2 DEF HasDate, DateInv, FormsDated
<1>2. CASE req[r].kind = "restore"
  BY <1>2 DEF Write
<1>3. CASE req[r].kind = "publish"
  <2>1. next = Publicized(p)
    BY <1>3 DEF Written
  <2> QED  BY <1>0, <2>1 DEF Publicized, Row
<1>4. CASE req[r].kind = "unpublish"
  <2>1. next = Withdrawn(p)
    BY <1>4 DEF Written
  <2> QED  BY <1>0, <2>1 DEF Withdrawn, Row
<1>5. CASE req[r].kind = "delete"
  <2>1. next = Removed(p)
    BY <1>5 DEF Written
  <2> QED  BY <1>0, <2>1 DEF Removed, Row
<1> QED  BY <1>0, <1>1, <1>2, <1>3, <1>4, <1>5

LEMMA RequestMoves ==
  ASSUME Typed, NEW r \in Requests, NEW q, q.pc # "write", req' = [req EXCEPT ![r] = q]
  PROVE  \A t \in Requests : At(t, "write")' => req'[t] = req[t]
  BY DEF Typed, ReqInv, At

LEMMA DatedAtRequest ==
  ASSUME Typed, DateInv, NEW r \in Requests, RequestStep(r)
  PROVE  DateInv'
<1>1. ASSUME NEW p \in Pages, Create(r, p) PROVE DateInv'
  <2>1. PICK slug \in Slugs, lang \in Authored, form \in Forms :
          Put(p, Created(slug, lang, form))
    BY <1>1 DEF Create
  <2> DEFINE next == Created(slug, lang, form)
  <2>2. form.status \in {"draft", "published"} /\ form.date \in 0..MaxTime
    BY SitePagesAssumption DEF Forms, Unscheduled
  <2>3. next \in Row /\ (next.status = "published" => next.dated)
    BY <2>2, SitePagesAssumption DEF Row, Created
  <2>4. [Idle EXCEPT !.pc = "page", !.page = p].pc # "write"
    BY DEF Idle
  <2>5. \A t \in Requests : At(t, "write")' => req'[t] = req[t]
    BY <1>1, <2>4, RequestMoves DEF Create
  <2> HIDE DEF next
  <2> QED  BY <1>1, <2>1, <2>3, <2>5, DatedAtPut DEF Create, next
<1>2. ASSUME NEW p \in Pages, NEW kind, ReadPage(r, p, kind) PROVE DateInv'
  <2>1. row' = row /\ restored' = restored
    BY <1>2 DEF ReadPage, tableVars, historyVars
  <2>2. PublishedHasDate'
    BY <2>1 DEF DateInv, PublishedHasDate, Published
  <2>3. kind = "edit" => /\ Remembered(p, kind).status = row[p].status
                         /\ Remembered(p, kind).dated = row[p].dated
    BY RememberedType DEF Typed
  <2>4. \A t \in Requests : req'[t] = IF t = r
          THEN [pc |-> "write", kind |-> kind, page |-> p, old |-> Remembered(p, kind)]
          ELSE req[t]
    BY <1>2 DEF ReadPage, Typed, ReqInv
  <2>5. FormsDated'
    <3> SUFFICES ASSUME NEW t \in Requests, req'[t].pc = "write", req'[t].kind = "edit",
                        req'[t].old.status = "published"
                 PROVE  req'[t].old.dated \/ req'[t].page \in restored'
      BY DEF FormsDated, At
    <3> DEFINE copy == Remembered(p, kind)
    <3>1. CASE t = r
      <4>1. req'[t].old = copy /\ req'[t].page = p /\ kind = "edit"
        BY <2>4, <3>1
      <4>2. copy.status = row[p].status /\ copy.dated = row[p].dated
        BY <2>3, <4>1
      <4> HIDE DEF copy
      <4>3. row[p].dated \/ p \in restored
        BY <4>1, <4>2 DEF DateInv, PublishedHasDate, Published
      <4> QED  BY <2>1, <4>1, <4>2, <4>3
    <3>2. CASE t # r
      BY <2>1, <2>4, <3>2 DEF DateInv, FormsDated, At
    <3> QED  BY <3>1, <3>2
  <2> QED  BY <2>2, <2>5 DEF DateInv
<1>3. CASE Write(r)
  <2>1. req[r].page \in Pages
    BY <1>3 DEF Typed, ReqInv, Write, At
  <2>2. PICK next \in Written(r) : Put(req[r].page, next)
    BY <1>3 DEF Write
  <2>3. next \in Row
    BY <1>3, WrittenType DEF Typed, Write
  <2>4. next.status = "published" => next.dated \/ req[r].page \in restored'
    BY <1>3, WrittenDated
  <2>5. [Idle EXCEPT !.pc = "page", !.page = req[r].page].pc # "write"
    BY DEF Idle
  <2>6. \A t \in Requests : At(t, "write")' => req'[t] = req[t]
    BY <1>3, <2>5, RequestMoves DEF Write, Goto
  <2>7. restored \subseteq restored'
    BY <1>3 DEF Write
  <2> QED  BY <2>1, <2>2, <2>3, <2>4, <2>6, <2>7, DatedAtPut
<1>4. CASE WriteRefused(r) \/ InvalidatePageCache(r) \/ InvalidateSitemap(r)
  <2>1. row' = row /\ restored' = restored
    BY <1>4 DEF WriteRefused, InvalidatePageCache, InvalidateSitemap, tableVars, historyVars
  <2>2. /\ [Idle EXCEPT !.pc = "page", !.page = req[r].page].pc # "write"
        /\ [Idle EXCEPT !.pc = "sitemap"].pc # "write"
        /\ Idle.pc # "write"
    BY DEF Idle
  <2>3. \A t \in Requests : At(t, "write")' => req'[t] = req[t]
    BY <1>4, <2>2, RequestMoves
       DEF WriteRefused, InvalidatePageCache, InvalidateSitemap, Goto, Finish
  <2> QED  BY <2>1, <2>3, DatedAtRest
<1> QED  BY <1>1, <1>2, <1>3, <1>4
         DEF RequestStep, Update, RestoreVersion, TogglePublish, Delete

LEMMA NextDated == Typed /\ DateInv /\ [Next]_vars => DateInv'
<1> SUFFICES ASSUME Typed, DateInv, [Next]_vars PROVE DateInv'
  OBVIOUS
<1>1. ASSUME NEW p \in Pages, DeleteGenerated(p) PROVE DateInv'
  <2>1. Removed(p) \in Row /\ Removed(p).status # "published"
    BY PublicizedType DEF Typed, TableInv, Removed, Row
  <2> QED  BY <1>1, <2>1, DatedAtPut DEF DeleteGenerated
<1>2. ASSUME NEW s \in Runs, RunStep(s) PROVE DateInv'
  <2>1. CASE StartRun(s)
    BY <2>1, DatedAtRest DEF StartRun, tableVars, historyVars
  <2>2. ASSUME NEW p \in Pages, PublishScheduled(s, p) PROVE DateInv'
    <3>1. Publicized(p) \in Row /\ Publicized(p).dated
      BY PublicizedType DEF Typed, TableInv, Publicized, Row
    <3> QED  BY <2>2, <3>1, DatedAtPut DEF PublishScheduled
  <2>3. ASSUME NEW p \in Pages, PublishSkipped(s, p) PROVE DateInv'
    BY <2>3, DatedAtRest DEF PublishSkipped, tableVars
  <2> QED  BY <1>2, <2>1, <2>2, <2>3 DEF RunStep
<1>3. CASE \E v \in Visitors : VisitorStep(v)
  BY <1>3, DatedAtRest DEF VisitorStep, Query, StoreCopy, tableVars, historyVars
<1>4. CASE SitemapStep
  BY <1>4, DatedAtRest
     DEF SitemapStep, LoadSitemap, LoadSitemapPartly, ExpireSitemap, tableVars
<1>5. CASE Tick
  BY <1>5, DatedAtRest DEF Tick, tableVars, historyVars
<1>6. CASE UNCHANGED vars
  BY <1>6, DatedAtRest DEF vars, historyVars
<1> QED  BY <1>1, <1>2, <1>3, <1>4, <1>5, <1>6, DatedAtRequest DEF Next

(* Only the restoring of a version can leave a published page without a date. *)
THEOREM Dated == Spec => []PublishedHasDate
<1>1. Init => DateInv
  BY NoRowType DEF Init, DateInv, PublishedHasDate, FormsDated, Published, At, Idle, NoRow, Row
<1>2. DateInv => PublishedHasDate
  BY DEF DateInv
<1> QED  BY <1>1, <1>2, AlwaysTyped, NextDated, PTL DEF Spec

-----------------------------------------------------------------------------
(* The sitemap *)

(* Someone has written and not yet invalidated the sitemap. *)
Announcing == \E r \in Requests : req[r].pc \in {"page", "sitemap"}

LEMMA ListedAtRest ==
  ASSUME row' = row
  PROVE  Listing' = Listing
  BY DEF Listing, CopyOf, Published

LEMMA SitemapAtRest ==
  ASSUME SitemapFresh, row' = row, UNCHANGED sitemapVars, Announcing => Announcing'
  PROVE  SitemapFresh'
<1>1. Listing' = Listing
  BY ListedAtRest
<1>2. CASE Announcing
  BY <1>2 DEF SitemapFresh, Announcing
<1>3. CASE ~Announcing
  BY <1>1, <1>3 DEF sitemapVars, SitemapFresh, Announcing
<1> QED  BY <1>2, <1>3

LEMMA AnnouncingKept ==
  ASSUME Typed, Announcing, NEW r \in Requests, NEW q, req' = [req EXCEPT ![r] = q],
         req[r].pc \in {"idle", "write"} \/ q.pc \in {"page", "sitemap"}
  PROVE  Announcing'
<1>1. q.pc \in {"page", "sitemap"} => Announcing'
  BY DEF Typed, ReqInv, Announcing
<1>2. ASSUME req[r].pc \in {"idle", "write"} PROVE Announcing'
  <2>1. PICK t \in Requests : req[t].pc \in {"page", "sitemap"}
    BY DEF Announcing
  <2>2. req'[t] = req[t]
    BY <1>2, <2>1 DEF Typed, ReqInv
  <2> QED  BY <2>1, <2>2 DEF Announcing
<1> QED  BY <1>1, <1>2

LEMMA SitemapAtRequest ==
  ASSUME Typed, SitemapFresh, NEW r \in Requests, RequestStep(r)
  PROVE  SitemapFresh'
<1>1. ASSUME NEW p \in Pages, Create(r, p) PROVE SitemapFresh'
  <2>1. [Idle EXCEPT !.pc = "page", !.page = p].pc = "page"
    BY DEF Idle
  <2> QED  BY <1>1, <2>1 DEF Typed, ReqInv, Create, SitemapFresh
<1>2. ASSUME NEW p \in Pages, NEW kind, ReadPage(r, p, kind) PROVE SitemapFresh'
  <2>1. Announcing => Announcing'
    BY <1>2, AnnouncingKept DEF ReadPage, At
  <2> QED  BY <1>2, <2>1, SitemapAtRest DEF ReadPage, tableVars, historyVars, sitemapVars
<1>3. CASE Write(r)
  BY <1>3, GotoPage DEF Typed, Write, SitemapFresh, At
<1>4. CASE WriteRefused(r)
  <2>1. Announcing => Announcing'
    BY <1>4, AnnouncingKept DEF WriteRefused, Goto, Finish, At
  <2> QED  BY <1>4, <2>1, SitemapAtRest DEF WriteRefused, tableVars, historyVars, sitemapVars
<1>5. CASE InvalidatePageCache(r)
  <2>1. [Idle EXCEPT !.pc = "sitemap"].pc = "sitemap"
    BY DEF Idle
  <2> QED  BY <1>5, <2>1 DEF Typed, ReqInv, InvalidatePageCache, SitemapFresh
<1>6. CASE InvalidateSitemap(r)
  BY <1>6 DEF InvalidateSitemap, SitemapFresh
<1> QED  BY <1>1, <1>2, <1>3, <1>4, <1>5, <1>6
         DEF RequestStep, Update, RestoreVersion, TogglePublish, Delete

LEMMA SitemapAtDelete ==
  ASSUME Typed, SitemapFresh, NEW p \in Pages, DeleteGenerated(p)
  PROVE  SitemapFresh'
<1>1. CASE Published(p)
  BY <1>1 DEF DeleteGenerated, SitemapFresh
<1>2. CASE ~Published(p)
  <2>1. \A q \in Pages : q # p => row'[q] = row[q]
    BY PutRows DEF DeleteGenerated
  <2>2. row'[p].status # "published"
    BY PublicizedType DEF Typed, TableInv, DeleteGenerated, Put, Removed, Row
  <2>3. Listing' = Listing
    BY <1>2, <2>1, <2>2 DEF Listing, CopyOf, Published
  <2> QED  BY <1>2, <2>3 DEF Typed, SitemapInv, DeleteGenerated, SitemapFresh
<1> QED  BY <1>1, <1>2

LEMMA NextSitemap == Typed /\ SitemapFresh /\ [Next]_vars => SitemapFresh'
<1> SUFFICES ASSUME Typed, SitemapFresh, [Next]_vars PROVE SitemapFresh'
  OBVIOUS
<1>1. ASSUME NEW s \in Runs, RunStep(s) PROVE SitemapFresh'
  <2>1. CASE StartRun(s)
    BY <2>1, SitemapAtRest DEF StartRun, tableVars, historyVars, sitemapVars, Announcing
  <2>2. ASSUME NEW p \in Pages, PublishScheduled(s, p) PROVE SitemapFresh'
    BY <2>2 DEF PublishScheduled, SitemapFresh
  <2>3. ASSUME NEW p \in Pages, PublishSkipped(s, p) PROVE SitemapFresh'
    BY <2>3, SitemapAtRest DEF PublishSkipped, tableVars, Announcing
  <2> QED  BY <1>1, <2>1, <2>2, <2>3 DEF RunStep
<1>2. CASE \E v \in Visitors : VisitorStep(v)
  BY <1>2, SitemapAtRest
     DEF VisitorStep, Query, StoreCopy, tableVars, historyVars, sitemapVars, Announcing
<1>3. CASE SitemapStep
  BY <1>3, ListedAtRest
     DEF SitemapStep, LoadSitemap, LoadSitemapPartly, ExpireSitemap, tableVars, SitemapFresh
<1>4. CASE Tick
  BY <1>4, SitemapAtRest DEF Tick, tableVars, historyVars, sitemapVars, Announcing
<1>5. CASE UNCHANGED vars
  BY <1>5, SitemapAtRest DEF vars, historyVars, sitemapVars, Announcing
<1> QED  BY <1>1, <1>2, <1>3, <1>4, <1>5, SitemapAtRequest, SitemapAtDelete DEF Next

(* The sitemap that is served lists the published pages of now, but for the
   changes that no one announces and the moments before an announced one. *)
THEOREM SitemapLists == Spec => []SitemapFresh
<1>1. Init => SitemapFresh
  BY DEF Init, SitemapFresh
<1> QED  BY <1>1, AlwaysTyped, NextSitemap, PTL DEF Spec

-----------------------------------------------------------------------------
(* What an invalidation achieves.                                             *)

CachedFor(p) ==
  {k \in Key : \/ bySlug[k] # NoPage /\ bySlug[k].id = p
               \/ byID[k] # NoPage /\ byID[k].id = p}

(* After a request has invalidated its page, neither map of the cache holds a
   copy of it, under whatever slug, language or id it had been stored. *)
InvalidationIsThorough ==
  [][\A r \in Requests, p \in Pages :
        req[r].page = p /\ InvalidatePageCache(r) => CachedFor(p)' = {}]_vars

LEMMA StepThorough ==
  ASSUME Typed, EntriesIndexed, NEW r \in Requests, NEW p \in Pages,
         req[r].page = p, InvalidatePageCache(r)
  PROVE  CachedFor(p)' = {}
<1>1. InvalidatePage(p)
  BY DEF InvalidatePageCache
<1>2. CacheTypeOK
  BY DEF Typed
<1>3. \A k \in Key : /\ bySlug'[k] # NoPage => bySlug'[k].id # p
                     /\ byID'[k] # NoPage => byID'[k].id # p
  BY <1>1, <1>2, InvalidateKeepsIndex
<1> QED  BY <1>3 DEF CachedFor

(* InvalidatePage leaves no copy behind: the index from pages to keys knows
   every key under which a visitor stored one. *)
THEOREM NoCopyIsLeft == Spec => InvalidationIsThorough
<1>1. Typed /\ EntriesIndexed =>
        \A r \in Requests, p \in Pages :
          req[r].page = p /\ InvalidatePageCache(r) => CachedFor(p)' = {}
  BY StepThorough
<1>2. Typed /\ EntriesIndexed =>
        [\A r \in Requests, p \in Pages :
          req[r].page = p /\ InvalidatePageCache(r) => CachedFor(p)' = {}]_vars
  BY <1>1
<1> QED  BY <1>2, AlwaysTyped, Indexed, PTL DEF InvalidationIsThorough

=============================================================================
