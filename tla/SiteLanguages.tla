----------------------------- MODULE SiteLanguages -----------------------------
(***************************************************************************)
(* The languages of a site: the table and its default                      *)
(* (internal/handler/languages.go), the language codes that pages carry    *)
(* and the URL prefixes that languages take from them                      *)
(* (internal/handler/pages.go, internal/api/v2/pages/service.go), and the  *)
(* language state of the process (internal/i18n/i18n.go).                  *)
(*                                                                         *)
(* A handler reads a row, checks what the form asks for, and writes in a   *)
(* transaction that starts with a lock on the database; what it read       *)
(* before may be out of date by then.  After a commit it reads the table   *)
(* twice and configures the process with what it saw.  Codes are valid and *)
(* routable here; names, directions and positions are left out.            *)
(***************************************************************************)
EXTENDS Naturals, FiniteSets

CONSTANTS
  Requests,    \* goroutines that serve administrators and API clients
  Ids,         \* ids of languages
  Pages,       \* ids of pages
  Codes,       \* language codes
  Slugs,       \* page slugs: a code is a slug too
  Translated,  \* slugs that are made up for translations
  Supported,   \* codes the admin interface has a catalog for
  English,     \* the code of the first language
  MaxWrites    \* bound: commits

ASSUME SiteLanguagesAssumption ==
  /\ Ids \subseteq Nat \ {0} /\ 1 \in Ids
  /\ Pages \subseteq Nat \ {0}
  /\ Codes \subseteq Slugs
  /\ Translated \subseteq Slugs
  /\ English \in Supported /\ Supported \subseteq Codes
  /\ MaxWrites \in Nat

VARIABLES
  lang,    \* the table languages
  page,    \* the table pages
  i18n,    \* active and default languages of the process
  req,     \* what a request is doing
  writes,  \* number of commits so far
  \* history:
  overtaken,  \* a write to a language did not know who the default was by then
  unchecked,  \* pages whose slug was written on no or an old look at the languages
  strayed,    \* pages whose language went away, unknown to one of the two writers
  late,       \* requests that have read the languages for a refresh before another commit
  missed      \* since the last refresh in time a late one configured, or one in time failed

vars == <<lang, page, i18n, req, writes, overtaken, unchecked, strayed, late, missed>>
historyVars == <<overtaken, unchecked, strayed, late, missed>>

Language == [state : {"none", "live", "gone"}, code : Codes, active : BOOLEAN,
             default : BOOLEAN]
Page == [state : {"none", "live", "gone"}, slug : Slugs, lang : Codes]

NoLanguage == [state |-> "none", code |-> English, active |-> FALSE, default |-> FALSE]
FirstLanguage == [state |-> "live", code |-> English, active |-> TRUE, default |-> TRUE]
NoPage == [state |-> "none", slug |-> English, lang |-> English]

Live(table) == {k \in DOMAIN table : table[k].state = "live"}
Active == {l \in Live(lang) : lang[l].active}
Defaults == {l \in Live(lang) : lang[l].default}
CodesOf(ls) == {lang[l].code : l \in ls}

(* PageRouteExistsUnderPrefix: a page answers at this segment. *)
RouteUnder(code) == \E p \in Live(page) : page[p].slug = code

(* LanguagePrefixConflict: an active language takes this segment. *)
PrefixTaken(slug) == slug \in CodesOf(Active)

CodeTaken(l, code) == \E m \in Live(lang) \ {l} : lang[m].code = code
SlugTaken(p, slug) == \E q \in Live(page) \ {p} : page[q].slug = slug

IsNext(k, table) == table[k].state = "none" /\ \A j \in DOMAIN table : j < k => table[j].state # "none"

(* GetDefaultLanguage: an error unless there is exactly one. *)
HasDefault == Cardinality(Defaults) = 1
DefaultCode == lang[CHOOSE l \in Defaults : TRUE].code

(* ConfigureLanguages: what the process makes of codes it has no catalog for. *)
Configured(active, default) ==
  LET fallback == IF default \in Supported THEN default ELSE English IN
  [default |-> fallback,
   active |-> IF active \cap Supported = {} THEN {fallback} ELSE active \cap Supported]

(* What the table asks the process to be. *)
Wanted == Configured(CodesOf(Active), DefaultCode)

NewPage == 0
Idle == [pc |-> "idle", id |-> NewPage, was |-> NoLanguage, put |-> NoPage, checks |-> FALSE,
         again |-> FALSE, active |-> {}, default |-> English]

Init ==
  /\ lang = [l \in Ids |-> IF l = 1 THEN FirstLanguage ELSE NoLanguage]
  /\ page = [p \in Pages |-> NoPage]
  /\ i18n = Configured({English}, English)
  /\ req = [r \in Requests |-> Idle]
  /\ writes = 0
  /\ overtaken = FALSE
  /\ unchecked = {}
  /\ strayed = {}
  /\ late = {}
  /\ missed = FALSE

-----------------------------------------------------------------------------
At(r, pc) == req[r].pc = pc
Step(r, next) == req' = [req EXCEPT ![r] = next]
Finish(r) == Step(r, Idle)
Commit == writes < MaxWrites /\ writes' = writes + 1

(* invalidateLanguageCaches starts; after a deletion it is called twice. *)
Refresh(r) == Step(r, [Idle EXCEPT !.pc = "list"])
RefreshTwice(r) == Step(r, [Idle EXCEPT !.pc = "list", !.again = TRUE])
HasRead(r) == req[r].pc \in {"default", "configure"}
Refreshing(r) == req[r].pc = "list" \/ HasRead(r)

(* A commit to the languages makes old what others have read of them. *)
Outdates == late' = late \cup {s \in Requests : HasRead(s)} /\ UNCHANGED missed

-----------------------------------------------------------------------------
(* Languages *)

(* Create and createLanguageGuarded: what the form validation sees before the *)
(* transaction is advisory.  The new language is not the default.             *)
CreateLanguage(r, l) ==
  /\ At(r, "idle")
  /\ Commit
  /\ IsNext(l, lang)
  /\ \E code \in Codes, active \in BOOLEAN :
        /\ ~CodeTaken(l, code)
        /\ active => ~RouteUnder(code)
        /\ lang' = [lang EXCEPT ![l] = [state |-> "live", code |-> code, active |-> active,
                                        default |-> FALSE]]
  /\ Refresh(r)
  /\ Outdates
  /\ UNCHANGED <<page, i18n, overtaken, unchecked, strayed>>

(* Update and Delete read the row first; Delete goes no further when it is the *)
(* default.                                                                    *)
ReadForUpdate(r, l) ==
  /\ At(r, "idle")
  /\ l \in Live(lang)
  /\ Step(r, [Idle EXCEPT !.pc = "update", !.id = l, !.was = lang[l]])
  /\ UNCHANGED <<lang, page, i18n, writes, historyVars>>

ReadForDelete(r, l) ==
  /\ At(r, "idle")
  /\ l \in Live(lang)
  /\ ~lang[l].default
  /\ Step(r, [Idle EXCEPT !.pc = "delete", !.id = l, !.was = lang[l]])
  /\ UNCHANGED <<lang, page, i18n, writes, historyVars>>

(* Pages with the code of language l, of which a writer that knows it by *)
(* another code knows nothing.                                           *)
Unknown(r, l) ==
  IF l \notin Live(lang) \/ lang[l].code = req[r].was.code THEN {}
  ELSE {p \in Live(page) : page[p].lang = lang[l].code}

(* Seeded fault: the statement leaves is_default as it is in the row. *)
UpdatedInPlace(r, code, active) ==
  [lang[req[r].id] EXCEPT !.code = code, !.active = active]

(* The row an Update writes: is_default as it was read. *)
Updated(r, code, active) ==
  [lang[req[r].id] EXCEPT !.code = code, !.active = active,
                          !.default = req[r].was.default]

(* Seeded fault: only the table of languages is renamed. *)
KeepsCodes(r, code) == page

(* Seeded fault: the id of the language is written for its code. *)
RenamedToId(r, code) ==
  [p \in Pages |-> IF page[p].lang = req[r].was.code /\ page[p].state = "live"
                   THEN [page[p] EXCEPT !.lang = req[r].id] ELSE page[p]]

(* The denormalized codes follow a rename, from the code that was read. *)
Renamed(r, code) ==
  [p \in Pages |-> IF page[p].lang = req[r].was.code /\ page[p].state = "live"
                   THEN [page[p] EXCEPT !.lang = code] ELSE page[p]]

(* updateLanguage, for a form that does not deactivate what was the default. *)
UpdateLanguage(r) ==
  LET l == req[r].id IN
  /\ At(r, "update")
  /\ Commit
  /\ l \in Live(lang)
  /\ \E code \in Codes, active \in BOOLEAN :
        /\ req[r].was.default => active
        /\ active => ~RouteUnder(code)
        /\ ~CodeTaken(l, code)
        /\ lang' = [lang EXCEPT ![l] = Updated(r, code, active)]
        /\ page' = Renamed(r, code)
  /\ overtaken' = (overtaken \/ lang[l].default # req[r].was.default)
  /\ strayed' = strayed \cup Unknown(r, l)
  /\ Refresh(r)
  /\ Outdates
  /\ UNCHANGED <<i18n, unchecked>>

(* The row is gone, the code or the prefix is taken, or the form is invalid. *)
UpdateRefused(r) ==
  /\ At(r, "update")
  /\ Finish(r)
  /\ UNCHANGED <<lang, page, i18n, writes, historyVars>>

(* deleteLanguageIfUnused: the count is of the code that was read; the row is *)
(* deleted by id.  Without a row there is nothing to do, and no error.        *)
DeleteLanguage(r) ==
  LET l == req[r].id IN
  /\ At(r, "delete")
  /\ Commit
  /\ \A p \in Live(page) : page[p].lang # req[r].was.code
  /\ lang' = [lang EXCEPT ![l] = [NoLanguage EXCEPT !.state = "gone"]]
  /\ overtaken' = (overtaken \/ lang[l].default)
  /\ strayed' = strayed \cup Unknown(r, l)
  /\ RefreshTwice(r)
  /\ Outdates
  /\ UNCHANGED <<page, i18n, unchecked>>

DeleteRefused(r) ==
  /\ At(r, "delete")
  /\ \E p \in Live(page) : page[p].lang = req[r].was.code
  /\ Finish(r)
  /\ UNCHANGED <<lang, page, i18n, writes, historyVars>>

(* Seeded fault: the former default is not cleared. *)
WithOneMoreDefault(l) == [lang EXCEPT ![l].default = TRUE]

(* ClearDefaultLanguage and SetDefaultLanguage *)
WithDefault(l) == [m \in Ids |-> [lang[m] EXCEPT !.default = (m = l)]]

(* SetDefault and setDefaultLanguage: the row is read again in the transaction. *)
SetDefault(r, l) ==
  /\ At(r, "idle")
  /\ Commit
  /\ l \in Active
  /\ ~RouteUnder(lang[l].code)
  /\ lang' = WithDefault(l)
  /\ overtaken' = FALSE
  /\ Refresh(r)
  /\ Outdates
  /\ UNCHANGED <<page, i18n, unchecked, strayed>>

-----------------------------------------------------------------------------
(* refreshI18nLanguageState: two queries, then the configuration *)

(* ListActiveLanguages *)
ListActive(r) ==
  /\ At(r, "list")
  /\ Step(r, [req[r] EXCEPT !.pc = "default", !.active = CodesOf(Active)])
  /\ UNCHANGED <<lang, page, i18n, writes, historyVars>>

(* GetDefaultLanguage *)
GetDefault(r) ==
  /\ At(r, "default")
  /\ HasDefault
  /\ Step(r, [req[r] EXCEPT !.pc = "configure", !.default = DefaultCode])
  /\ UNCHANGED <<lang, page, i18n, writes, historyVars>>

AfterRefresh(r) == IF req[r].again THEN Refresh(r) ELSE Finish(r)

(* One of the two queries fails or five seconds are over; the second fails as *)
(* well without exactly one default.  That is logged, and the process stays   *)
(* as it is.                                                                  *)
RefreshFails(r) ==
  /\ At(r, "list") \/ At(r, "default")
  /\ late' = late \ {r}
  /\ missed' = (missed \/ r \notin late)
  /\ AfterRefresh(r)
  /\ UNCHANGED <<lang, page, i18n, writes, overtaken, unchecked, strayed>>

(* Seeded fault: a configuration of what the process has already is skipped *)
(* by a look at the default alone.                                          *)
ConfigureDefault(r) ==
  LET next == Configured(req[r].active, req[r].default) IN
  /\ At(r, "configure")
  /\ i18n' = IF next.default = i18n.default THEN i18n ELSE next
  /\ late' = late \ {r}
  /\ missed' = (r \in late)
  /\ AfterRefresh(r)
  /\ UNCHANGED <<lang, page, writes, overtaken, unchecked, strayed>>

(* ConfigureLanguages *)
ConfigureLanguages(r) ==
  LET next == Configured(req[r].active, req[r].default) IN
  /\ At(r, "configure")
  /\ i18n' = next
  /\ late' = late \ {r}
  /\ missed' = (r \in late)
  /\ AfterRefresh(r)
  /\ UNCHANGED <<lang, page, writes, overtaken, unchecked, strayed>>

-----------------------------------------------------------------------------
(* Pages: every handler looks at the languages, and writes later; only those *)
(* of the admin interface look again in the transaction that writes.         *)

Plan(r, p, slug, code, checks) ==
  /\ At(r, "idle")
  /\ Step(r, [Idle EXCEPT !.pc = "page", !.id = p, !.checks = checks,
                          !.put = [state |-> "live", slug |-> slug, lang |-> code]])
  /\ UNCHANGED <<lang, page, i18n, writes, historyVars>>

(* Create of the admin interface (checks) and of the API. *)
CreatePage(r) ==
  \E slug \in Slugs, code \in CodesOf(Active), checks \in BOOLEAN :
     ~PrefixTaken(slug) /\ Plan(r, NewPage, slug, code, checks)

(* Translate: a slug made of the source's and the language's is not compared *)
(* with the languages.                                                       *)
TranslatePage(r) ==
  \E slug \in Translated, code \in CodesOf(Active) : Plan(r, NewPage, slug, code, FALSE)

(* Update of the admin interface (checks) and of the API, to another slug. *)
MovePage(r, p) ==
  /\ p \in Live(page)
  /\ \E slug \in Slugs \ {page[p].slug}, checks \in BOOLEAN :
        ~PrefixTaken(slug) /\ Plan(r, p, slug, page[p].lang, checks)

(* Update of either that leaves the slug alone, and RestoreVersion. *)
RewritePage(r, p) ==
  /\ p \in Live(page)
  /\ Plan(r, p, page[p].slug, page[p].lang, FALSE)

(* Seeded fault: the statement runs outside the transaction of the check. *)
ChecksNothing(r) == TRUE

(* The check in the transaction of writePageGuarded. *)
RouteFree(r) == req[r].checks => ~PrefixTaken(req[r].put.slug)

(* The id that the statement writes: that of a new page, or the one asked for. *)
Target(r, p) == IF req[r].id = NewPage THEN IsNext(p, page) ELSE p = req[r].id /\ p \in Live(page)

(* The statement writes slug and language as they were read or asked for. *)
WritePage(r) ==
  LET put == req[r].put IN
  /\ At(r, "page")
  /\ Commit
  /\ RouteFree(r)
  /\ \E p \in Pages :
        /\ Target(r, p)
        /\ ~SlugTaken(p, put.slug)
        /\ page' = [page EXCEPT ![p] = put]
        /\ unchecked' = IF ~req[r].checks /\ PrefixTaken(put.slug) THEN unchecked \cup {p}
                        ELSE unchecked \ {p}
        /\ strayed' = IF put.lang \notin CodesOf(Live(lang)) THEN strayed \cup {p}
                      ELSE strayed \ {p}
  /\ Finish(r)
  /\ UNCHANGED <<lang, i18n, overtaken, late, missed>>

(* The page is gone, its slug or its prefix taken: an error. *)
WritePageRefused(r) ==
  /\ At(r, "page")
  /\ \/ req[r].id # NewPage /\ req[r].id \notin Live(page)
     \/ SlugTaken(req[r].id, req[r].put.slug)
     \/ ~RouteFree(r)
  /\ Finish(r)
  /\ UNCHANGED <<lang, page, i18n, writes, historyVars>>

(* Delete of either. *)
DeletePage(p) ==
  /\ p \in Live(page)
  /\ Commit
  /\ page' = [page EXCEPT ![p] = [NoPage EXCEPT !.state = "gone"]]
  /\ unchecked' = unchecked \ {p}
  /\ strayed' = strayed \ {p}
  /\ UNCHANGED <<lang, i18n, req, overtaken, late, missed>>

-----------------------------------------------------------------------------
LanguageStep(r) ==
  \/ \E l \in Ids : CreateLanguage(r, l) \/ ReadForUpdate(r, l) \/ ReadForDelete(r, l)
                    \/ SetDefault(r, l)
  \/ UpdateLanguage(r) \/ UpdateRefused(r)
  \/ DeleteLanguage(r) \/ DeleteRefused(r)

RefreshStep(r) == ListActive(r) \/ GetDefault(r) \/ RefreshFails(r) \/ ConfigureLanguages(r)

PageStep(r) ==
  \/ CreatePage(r) \/ TranslatePage(r)
  \/ \E p \in Pages : MovePage(r, p) \/ RewritePage(r, p)
  \/ WritePage(r) \/ WritePageRefused(r)

Next ==
  \/ \E r \in Requests : LanguageStep(r) \/ RefreshStep(r) \/ PageStep(r)
  \/ \E p \in Pages : DeletePage(p)

Spec == Init /\ [][Next]_vars

-----------------------------------------------------------------------------
(* Properties *)

Request == [pc : {"idle", "update", "delete", "list", "default", "configure", "page"},
            id : Ids \cup Pages \cup {NewPage}, was : Language, put : Page, checks : BOOLEAN,
            again : BOOLEAN, active : SUBSET Codes, default : Codes]

(* Type correctness of every variable; a page carries a code and never an id. *)
TypeOK ==
  /\ lang \in [Ids -> Language]
  /\ page \in [Pages -> Page]
  /\ i18n \in [active : SUBSET Codes, default : Codes]
  /\ req \in [Requests -> Request]
  /\ writes \in 0..MaxWrites
  /\ overtaken \in BOOLEAN
  /\ unchecked \subseteq Pages
  /\ strayed \subseteq Pages
  /\ late \subseteq Requests
  /\ missed \in BOOLEAN

(* There is exactly one default language, unless a language was updated or    *)
(* deleted by a handler that read it before the default moved: Update writes  *)
(* is_default as it was read, and the check of Delete is outside its          *)
(* transaction (languages.go:694-706, 780-792).  Everything that asks for the *)
(* default fails without exactly one (languages.go:872).                      *)
OneDefault == HasDefault \/ overtaken

(* Whatever overlaps, no default language is inactive: the form and the flag  *)
(* that are written with it come from one reading of the row.                 *)
DefaultIsActive == Defaults \subseteq Active

(* An active language's code is the slug of a page only if that slug was last *)
(* written by a path that does not look at the languages in its transaction:  *)
(* the API, a translation, a restored version, an unchanged slug.  The two    *)
(* guarded sides never miss each other (languages.go:325-330,                 *)
(* pages.go:1729-1733).                                                       *)
ShadowedOnlyUnchecked ==
  \A p \in Live(page) : PrefixTaken(page[p].slug) => p \in unchecked

(* The language of every page is there, also after renames and deletions,     *)
(* unless the page was written with a language read before it went away, or   *)
(* the language was changed by a handler that knew an older code              *)
(* (languages.go:59-62).                                                      *)
NoOrphans ==
  \A p \in Live(page) : page[p].lang \in CodesOf(Live(lang)) \/ p \in strayed

(* Unless a refresh is under way that has read nothing old, the process serves *)
(* the active languages and the default of the table (languages.go:123-145).   *)
(* Two things may leave it behind until the next such refresh: one that is in  *)
(* time fails, or one that read before another request's commit configures the *)
(* process after it.                                                           *)
ProcessUpToDate ==
  \/ \E r \in Requests \ late : Refreshing(r)
  \/ missed
  \/ HasDefault /\ i18n = Wanted
=============================================================================
