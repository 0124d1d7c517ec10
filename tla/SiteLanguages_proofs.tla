------------------------- MODULE SiteLanguages_proofs -------------------------
(* Proofs about SiteLanguages, for every value of its constants. *)
EXTENDS SiteLanguages, FiniteSetTheorems, TLAPS

TableInv == lang \in [Ids -> Language] /\ page \in [Pages -> Page]

(* A request that is about to write a language has read one. *)
ReqInv ==
  /\ req \in [Requests -> Request]
  /\ \A r \in Requests : req[r].pc \in {"update", "delete"} => req[r].id \in Ids

I18nType == [active : SUBSET Codes, default : Codes]

HistoryInv ==
  /\ i18n \in I18nType
  /\ writes \in 0..MaxWrites
  /\ overtaken \in BOOLEAN
  /\ unchecked \subseteq Pages
  /\ strayed \subseteq Pages
  /\ late \subseteq Requests
  /\ missed \in BOOLEAN

Typed == TableInv /\ ReqInv /\ HistoryInv

LEMMA TypedGivesTypeOK == Typed => TypeOK
  BY DEF Typed, TableInv, ReqInv, HistoryInv, I18nType, TypeOK

-----------------------------------------------------------------------------
(* What the operators return *)

LEMMA EnglishType == English \in Codes /\ English \in Slugs
  BY SiteLanguagesAssumption

LEMMA RowTypes ==
  /\ NoLanguage \in Language
  /\ FirstLanguage \in Language
  /\ [NoLanguage EXCEPT !.state = "gone"] \in Language
  /\ NoPage \in Page
  /\ [NoPage EXCEPT !.state = "gone"] \in Page
  BY EnglishType DEF NoLanguage, FirstLanguage, NoPage, Language, Page

LEMMA IdleType == Idle \in Request /\ Idle.pc = "idle"
  BY EnglishType, RowTypes DEF Idle, Request

LEMMA ConfiguredType ==
  ASSUME NEW active \in SUBSET Codes, NEW default \in Codes
  PROVE  Configured(active, default) \in I18nType
  BY SiteLanguagesAssumption DEF Configured, I18nType

LEMMA CodesType ==
  ASSUME TableInv
  PROVE  CodesOf(Active) \subseteq Codes
  BY DEF TableInv, CodesOf, Active, Live, Language

LEMMA DefaultCodeType ==
  ASSUME TableInv, HasDefault
  PROVE  DefaultCode \in Codes
<1>1. Defaults # {}
  BY FS_EmptySet DEF HasDefault
<1>2. (CHOOSE l \in Defaults : TRUE) \in Defaults
  BY <1>1
<1>3. Defaults \subseteq Ids
  BY DEF TableInv, Defaults, Live
<1> QED  BY <1>2, <1>3 DEF TableInv, DefaultCode, Language

LEMMA MoveReq ==
  ASSUME ReqInv, NEW r \in Requests, NEW q \in Request,
         q.pc \in {"update", "delete"} => q.id \in Ids,
         Step(r, q)
  PROVE  ReqInv'
  BY DEF ReqInv, Step

LEMMA FinishReq ==
  ASSUME ReqInv, NEW r \in Requests, Finish(r)
  PROVE  ReqInv'
  BY MoveReq, IdleType DEF Finish

LEMMA RefreshType ==
  /\ [Idle EXCEPT !.pc = "list"] \in Request
  /\ [Idle EXCEPT !.pc = "list"].pc = "list"
  /\ [Idle EXCEPT !.pc = "list", !.again = TRUE] \in Request
  /\ [Idle EXCEPT !.pc = "list", !.again = TRUE].pc = "list"
  BY IdleType DEF Request

LEMMA RefreshReq ==
  ASSUME ReqInv, NEW r \in Requests, Refresh(r) \/ RefreshTwice(r)
  PROVE  ReqInv' /\ req'[r].pc = "list"
<1>1. ReqInv'
  BY MoveReq, RefreshType DEF Refresh, RefreshTwice
<1> QED  BY <1>1, RefreshType DEF ReqInv, Refresh, RefreshTwice, Step

LEMMA AfterRefreshReq ==
  ASSUME ReqInv, NEW r \in Requests, AfterRefresh(r)
  PROVE  ReqInv'
  BY FinishReq, RefreshReq DEF AfterRefresh

LEMMA CommitType ==
  ASSUME writes \in 0..MaxWrites, Commit
  PROVE  writes' \in 0..MaxWrites
  BY SiteLanguagesAssumption DEF Commit

(* SetDefault changes the flag alone, and sets it for one language. *)
LEMMA WithDefaultRows ==
  ASSUME TableInv, NEW l \in Ids, lang' = WithDefault(l)
  PROVE  /\ lang' \in [Ids -> Language]
         /\ \A m \in Ids : /\ lang'[m].state = lang[m].state
                           /\ lang'[m].code = lang[m].code
                           /\ lang'[m].active = lang[m].active
                           /\ lang'[m].default <=> m = l
<1> DEFINE isDefault(m) == m = l
<1>1. \A m \in Ids : isDefault(m) \in BOOLEAN
  OBVIOUS
<1>2. lang' = [m \in Ids |-> [lang[m] EXCEPT !.default = isDefault(m)]]
  BY DEF WithDefault
<1> HIDE DEF isDefault
<1>3. /\ lang' \in [Ids -> Language]
      /\ \A m \in Ids : /\ lang'[m].state = lang[m].state
                        /\ lang'[m].code = lang[m].code
                        /\ lang'[m].active = lang[m].active
                        /\ lang'[m].default = isDefault(m)
  BY <1>1, <1>2 DEF TableInv, Language
<1> QED  BY <1>3 DEF isDefault

(* An Update writes code, activity and the flag it read, and renames pages. *)
LEMMA UpdateRows ==
  ASSUME Typed, NEW r \in Requests, UpdateLanguage(r)
  PROVE  LET l == req[r].id IN
         /\ l \in Ids /\ lang[l].state = "live"
         /\ TableInv'
         /\ \A m \in Ids \ {l} : lang'[m] = lang[m]
         /\ lang'[l].state = "live"
         /\ lang'[l].default = req[r].was.default
         /\ req[r].was.default => lang'[l].active
         /\ lang'[l].active => ~RouteUnder(lang'[l].code)
         /\ page' = Renamed(r, lang'[l].code)
<1> DEFINE l == req[r].id
<1>1. l \in Ids /\ req[r].was \in Language /\ lang[l] \in Language
  BY DEF Typed, TableInv, ReqInv, Request, UpdateLanguage, At
<1>2. PICK code \in Codes, active \in BOOLEAN :
        /\ req[r].was.default => active
        /\ active => ~RouteUnder(code)
        /\ lang' = [lang EXCEPT ![l] = Updated(r, code, active)]
        /\ page' = Renamed(r, code)
  BY DEF UpdateLanguage
<1>3. Updated(r, code, active) \in Language
  BY <1>1 DEF Updated, Language
<1>4. /\ Updated(r, code, active).state = lang[l].state
      /\ Updated(r, code, active).code = code
      /\ Updated(r, code, active).active = active
      /\ Updated(r, code, active).default = req[r].was.default
  BY <1>1 DEF Updated, Language
<1>5. lang[l].state = "live"
  BY DEF UpdateLanguage, Live
<1>6. page' \in [Pages -> Page]
  BY <1>2 DEF Typed, TableInv, Renamed, Page
<1> HIDE DEF l
<1>7. lang' \in [Ids -> Language] /\ lang'[l] = Updated(r, code, active)
      /\ \A m \in Ids \ {l} : lang'[m] = lang[m]
  BY <1>1, <1>2, <1>3 DEF Typed, TableInv
<1> QED  BY <1>1, <1>2, <1>4, <1>5, <1>6, <1>7 DEF TableInv, l

-----------------------------------------------------------------------------
(* Types: one step per action *)

LEMMA InitTyped == Init => Typed
<1> SUFFICES ASSUME Init PROVE Typed
  OBVIOUS
<1>1. TableInv
  BY RowTypes DEF Init, TableInv
<1>2. ReqInv
  BY IdleType DEF Init, ReqInv
<1>3. HistoryInv
  <2>1. {English} \in SUBSET Codes /\ English \in Codes
    BY EnglishType
  <2>2. Configured({English}, English) \in I18nType
    BY <2>1, ConfiguredType
  <2>3. i18n \in I18nType /\ writes \in 0..MaxWrites
    BY <2>2, SiteLanguagesAssumption DEF Init
  <2>4. overtaken \in BOOLEAN /\ missed \in BOOLEAN /\ late \subseteq Requests
    BY DEF Init
  <2>5. unchecked \subseteq Pages /\ strayed \subseteq Pages
    BY DEF Init
  <2> QED  BY <2>3, <2>4, <2>5 DEF HistoryInv
<1> QED  BY <1>1, <1>2, <1>3 DEF Typed

LEMMA OutdatesType ==
  ASSUME HistoryInv, Outdates
  PROVE  late' \subseteq Requests /\ missed' \in BOOLEAN
  BY DEF HistoryInv, Outdates

LEMMA LanguageStepTyped ==
  ASSUME Typed, NEW r \in Requests, LanguageStep(r)
  PROVE  Typed'
<1>1. ASSUME NEW l \in Ids, CreateLanguage(r, l) PROVE Typed'
  <2>1. PICK code \in Codes, active \in BOOLEAN :
          lang' = [lang EXCEPT ![l] = [state |-> "live", code |-> code, active |-> active,
                                       default |-> FALSE]]
    BY <1>1 DEF CreateLanguage
  <2>2. TableInv'
    BY <1>1, <2>1 DEF Typed, TableInv, Language, CreateLanguage
  <2>3. ReqInv'
    BY <1>1, RefreshReq DEF Typed, CreateLanguage
  <2>4. HistoryInv'
    BY <1>1, CommitType, OutdatesType DEF Typed, HistoryInv, CreateLanguage, historyVars
  <2> QED  BY <2>2, <2>3, <2>4 DEF Typed
<1>2. ASSUME NEW l \in Ids, ReadForUpdate(r, l) \/ ReadForDelete(r, l) PROVE Typed'
  <2>1. /\ [Idle EXCEPT !.pc = "update", !.id = l, !.was = lang[l]] \in Request
        /\ [Idle EXCEPT !.pc = "update", !.id = l, !.was = lang[l]].id = l
        /\ [Idle EXCEPT !.pc = "delete", !.id = l, !.was = lang[l]] \in Request
        /\ [Idle EXCEPT !.pc = "delete", !.id = l, !.was = lang[l]].id = l
    BY IdleType DEF Typed, TableInv, Request
  <2>2. ReqInv'
    BY <1>2, <2>1, MoveReq DEF Typed, ReadForUpdate, ReadForDelete
  <2> QED  BY <1>2, <2>2
           DEF Typed, ReadForUpdate, ReadForDelete, TableInv, HistoryInv, historyVars
<1>3. ASSUME NEW l \in Ids, SetDefault(r, l) PROVE Typed'
  <2>1. TableInv'
    BY <1>3, WithDefaultRows DEF Typed, TableInv, SetDefault
  <2>2. ReqInv'
    BY <1>3, RefreshReq DEF Typed, SetDefault
  <2>3. HistoryInv'
    BY <1>3, CommitType, OutdatesType DEF Typed, HistoryInv, SetDefault
  <2> QED  BY <2>1, <2>2, <2>3 DEF Typed
<1>4. CASE UpdateLanguage(r)
  <2>1. TableInv'
    BY <1>4, UpdateRows
  <2>2. ReqInv'
    BY <1>4, RefreshReq DEF Typed, UpdateLanguage
  <2>3. (overtaken \/ lang[req[r].id].default # req[r].was.default) \in BOOLEAN
    OBVIOUS
  <2>4. Unknown(r, req[r].id) \subseteq Pages
    BY DEF Typed, TableInv, Unknown, Live
  <2>5. HistoryInv'
    BY <1>4, <2>3, <2>4, CommitType, OutdatesType DEF Typed, HistoryInv, UpdateLanguage
  <2> QED  BY <2>1, <2>2, <2>5 DEF Typed
<1>5. CASE DeleteLanguage(r)
  <2>1. TableInv'
    BY <1>5, RowTypes DEF Typed, TableInv, DeleteLanguage
  <2>2. ReqInv'
    BY <1>5, RefreshReq DEF Typed, DeleteLanguage
  <2>3. Unknown(r, req[r].id) \subseteq Pages
    BY DEF Typed, TableInv, Unknown, Live
  <2>4. (overtaken \/ lang[req[r].id].default) \in BOOLEAN
    OBVIOUS
  <2>5. HistoryInv'
    BY <1>5, <2>3, <2>4, CommitType, OutdatesType DEF Typed, HistoryInv, DeleteLanguage
  <2> QED  BY <2>1, <2>2, <2>5 DEF Typed
<1>6. CASE UpdateRefused(r) \/ DeleteRefused(r)
  BY <1>6, FinishReq DEF Typed, UpdateRefused, DeleteRefused, TableInv, HistoryInv, historyVars
<1> QED  BY <1>1, <1>2, <1>3, <1>4, <1>5, <1>6 DEF LanguageStep

LEMMA RefreshStepTyped ==
  ASSUME Typed, NEW r \in Requests, RefreshStep(r)
  PROVE  Typed'
<1>0. req[r] \in Request
  BY DEF Typed, ReqInv
<1>1. CASE ListActive(r)
  <2>1. CodesOf(Active) \subseteq Codes
    BY CodesType DEF Typed
  <2> DEFINE q == [req[r] EXCEPT !.pc = "default", !.active = CodesOf(Active)]
  <2>2. q \in Request /\ q.pc = "default"
    BY <1>0, <2>1 DEF Request
  <2>3. Step(r, q)
    BY <1>1 DEF ListActive
  <2> HIDE DEF q
  <2>4. ReqInv'
    BY <2>2, <2>3, MoveReq DEF Typed
  <2> QED  BY <1>1, <2>4 DEF Typed, ListActive, TableInv, HistoryInv, historyVars
<1>2. CASE GetDefault(r)
  <2>1. DefaultCode \in Codes
    BY <1>2, DefaultCodeType DEF Typed, GetDefault
  <2> DEFINE q == [req[r] EXCEPT !.pc = "configure", !.default = DefaultCode]
  <2>2. q \in Request /\ q.pc = "configure"
    BY <1>0, <2>1 DEF Request
  <2>3. Step(r, q)
    BY <1>2 DEF GetDefault
  <2> HIDE DEF q
  <2>4. ReqInv'
    BY <2>2, <2>3, MoveReq DEF Typed
  <2> QED  BY <1>2, <2>4 DEF Typed, GetDefault, TableInv, HistoryInv, historyVars
<1>3. CASE RefreshFails(r)
  <2>1. ReqInv'
    BY <1>3, AfterRefreshReq DEF Typed, RefreshFails
  <2>2. late' \subseteq Requests /\ missed' \in BOOLEAN
    BY <1>3 DEF Typed, HistoryInv, RefreshFails
  <2> QED  BY <1>3, <2>1, <2>2 DEF Typed, RefreshFails, TableInv, HistoryInv
<1>4. CASE ConfigureLanguages(r)
  <2>1. Configured(req[r].active, req[r].default) \in I18nType
    BY <1>0, ConfiguredType DEF Request
  <2>2. ReqInv'
    BY <1>4, AfterRefreshReq DEF Typed, ConfigureLanguages
  <2>3. late' \subseteq Requests /\ missed' \in BOOLEAN
    BY <1>4 DEF Typed, HistoryInv, ConfigureLanguages
  <2> QED  BY <1>4, <2>1, <2>2, <2>3 DEF Typed, ConfigureLanguages, TableInv, HistoryInv
<1> QED  BY <1>1, <1>2, <1>3, <1>4 DEF RefreshStep

LEMMA PlanTyped ==
  ASSUME Typed, NEW r \in Requests, NEW p \in Pages \cup {NewPage}, NEW slug \in Slugs,
         NEW code \in Codes, NEW checks \in BOOLEAN, Plan(r, p, slug, code, checks)
  PROVE  Typed'
<1> DEFINE q == [Idle EXCEPT !.pc = "page", !.id = p, !.checks = checks,
                             !.put = [state |-> "live", slug |-> slug, lang |-> code]]
<1>1. q \in Request /\ q.pc = "page"
  BY IdleType DEF Request, Page
<1>2. Step(r, q)
  BY DEF Plan
<1> HIDE DEF q
<1>3. ReqInv'
  BY <1>1, <1>2, MoveReq DEF Typed
<1> QED  BY <1>3 DEF Typed, Plan, TableInv, HistoryInv, historyVars

LEMMA PageStepTyped ==
  ASSUME Typed, NEW r \in Requests, PageStep(r)
  PROVE  Typed'
<1>1. CASE CreatePage(r) \/ TranslatePage(r)
  <2>1. CodesOf(Active) \subseteq Codes
    BY CodesType DEF Typed
  <2> QED  BY <1>1, <2>1, PlanTyped, SiteLanguagesAssumption DEF CreatePage, TranslatePage
<1>2. ASSUME NEW p \in Pages, MovePage(r, p) \/ RewritePage(r, p) PROVE Typed'
  <2>1. page[p].slug \in Slugs /\ page[p].lang \in Codes
    BY DEF Typed, TableInv, Page
  <2> QED  BY <1>2, <2>1, PlanTyped DEF MovePage, RewritePage
<1>3. CASE WritePage(r)
  <2>1. req[r].put \in Page
    BY DEF Typed, ReqInv, Request
  <2>2. TableInv'
    BY <1>3, <2>1 DEF Typed, TableInv, WritePage
  <2>3. ReqInv'
    BY <1>3, FinishReq DEF Typed, WritePage
  <2>4. unchecked' \subseteq Pages /\ strayed' \subseteq Pages
    BY <1>3 DEF Typed, HistoryInv, WritePage
  <2>5. HistoryInv'
    BY <1>3, <2>4, CommitType DEF Typed, HistoryInv, WritePage
  <2> QED  BY <2>2, <2>3, <2>5 DEF Typed
<1>4. CASE WritePageRefused(r)
  BY <1>4, FinishReq DEF Typed, WritePageRefused, TableInv, HistoryInv, historyVars
<1> QED  BY <1>1, <1>2, <1>3, <1>4 DEF PageStep

LEMMA DeletePageTyped ==
  ASSUME Typed, NEW p \in Pages, DeletePage(p)
  PROVE  Typed'
<1>1. TableInv'
  BY RowTypes DEF Typed, TableInv, DeletePage
<1>2. HistoryInv'
  BY CommitType DEF Typed, HistoryInv, DeletePage
<1> QED  BY <1>1, <1>2 DEF Typed, ReqInv, DeletePage

LEMMA NextTyped == Typed /\ [Next]_vars => Typed'
<1> SUFFICES ASSUME Typed, [Next]_vars PROVE Typed'
  OBVIOUS
<1>1. CASE UNCHANGED vars
  BY <1>1 DEF Typed, TableInv, ReqInv, HistoryInv, vars
<1> QED  BY <1>1, LanguageStepTyped, RefreshStepTyped, PageStepTyped, DeletePageTyped DEF Next

LEMMA AlwaysTyped == Spec => []Typed
  BY InitTyped, NextTyped, PTL DEF Spec

(* Every reachable state is of its type; what the process is configured with
   is a catalog's code, also when the default language went away. *)
THEOREM TypeCorrect == Spec => []TypeOK
  BY AlwaysTyped, TypedGivesTypeOK, PTL

-----------------------------------------------------------------------------
(* The default language *)

(* The steps that write the table of languages. *)
LEMMA LanguageWrites ==
  ASSUME [Next]_vars
  PROVE  \/ UNCHANGED <<lang, overtaken>>
         \/ \E r \in Requests, l \in Ids : CreateLanguage(r, l) \/ SetDefault(r, l)
         \/ \E r \in Requests : UpdateLanguage(r) \/ DeleteLanguage(r)
  BY DEF Next, LanguageStep, RefreshStep, PageStep, ReadForUpdate, ReadForDelete,
         UpdateRefused, DeleteRefused, ListActive, GetDefault, RefreshFails,
         ConfigureLanguages, CreatePage, TranslatePage, MovePage, RewritePage, Plan,
         WritePage, WritePageRefused, DeletePage, historyVars, vars

DefaultInv ==
  /\ overtaken \/ \E l \in Ids : Defaults = {l}
  /\ DefaultIsActive

LEMMA NextDefault == Typed /\ DefaultInv /\ [Next]_vars => DefaultInv'
<1> SUFFICES ASSUME Typed, DefaultInv, [Next]_vars PROVE DefaultInv'
  OBVIOUS
<1> USE DEF Typed, TableInv
<1>1. CASE UNCHANGED <<lang, overtaken>>
  BY <1>1 DEF DefaultInv, DefaultIsActive, Defaults, Active, Live
<1>2. ASSUME NEW r \in Requests, NEW l \in Ids, CreateLanguage(r, l) PROVE DefaultInv'
  <2>1. /\ \A m \in Ids \ {l} : lang'[m] = lang[m]
        /\ ~lang'[l].default
        /\ lang[l].state = "none"
    BY <1>2 DEF CreateLanguage, IsNext
  <2>2. overtaken' = overtaken /\ DOMAIN lang' = Ids /\ DOMAIN lang = Ids
    BY <1>2 DEF CreateLanguage, historyVars
  <2>3. Defaults' = Defaults
    BY <2>1, <2>2 DEF Defaults, Live
  <2> QED  BY <2>1, <2>2, <2>3 DEF DefaultInv, DefaultIsActive, Defaults, Active, Live
<1>3. ASSUME NEW r \in Requests, NEW l \in Ids, SetDefault(r, l) PROVE DefaultInv'
  <2>1. /\ lang' \in [Ids -> Language]
        /\ \A m \in Ids : /\ lang'[m].state = lang[m].state
                          /\ lang'[m].active = lang[m].active
                          /\ lang'[m].default <=> m = l
    BY <1>3, WithDefaultRows DEF SetDefault
  <2>2. lang[l].state = "live" /\ lang[l].active
    BY <1>3 DEF SetDefault, Active, Live
  <2> QED  BY <2>1, <2>2 DEF DefaultInv, DefaultIsActive, Defaults, Active, Live
<1>4. ASSUME NEW r \in Requests, UpdateLanguage(r) PROVE DefaultInv'
  <2> DEFINE l == req[r].id
  <2>1. /\ l \in Ids /\ lang[l].state = "live" /\ lang'[l].state = "live"
        /\ lang' \in [Ids -> Language]
        /\ \A m \in Ids \ {l} : lang'[m] = lang[m]
        /\ lang'[l].default = req[r].was.default
        /\ req[r].was.default => lang'[l].active
    BY <1>4, UpdateRows
  <2>2. overtaken' = (overtaken \/ lang[l].default # req[r].was.default)
    BY <1>4 DEF UpdateLanguage
  <2> HIDE DEF l
  <2>3. DefaultIsActive'
    BY <2>1 DEF DefaultInv, DefaultIsActive, Defaults, Active, Live
  <2>4. CASE lang[l].default = req[r].was.default
    <3>1. Defaults' = Defaults
      BY <2>1, <2>4 DEF Defaults, Live
    <3> QED  BY <2>2, <2>3, <3>1 DEF DefaultInv
  <2>5. CASE lang[l].default # req[r].was.default
    BY <2>2, <2>3, <2>5 DEF DefaultInv
  <2> QED  BY <2>4, <2>5
<1>5. ASSUME NEW r \in Requests, DeleteLanguage(r) PROVE DefaultInv'
  <2> DEFINE l == req[r].id
  <2>1. l \in Ids
    BY <1>5 DEF ReqInv, DeleteLanguage, At
  <2>2. /\ lang'[l].state = "gone"
        /\ DOMAIN lang' = Ids /\ DOMAIN lang = Ids
        /\ \A m \in Ids \ {l} : lang'[m] = lang[m]
    BY <1>5, <2>1, RowTypes DEF DeleteLanguage, Language
  <2>3. overtaken' = (overtaken \/ lang[l].default)
    BY <1>5 DEF DeleteLanguage
  <2> HIDE DEF l
  <2>4. DefaultIsActive'
    BY <2>1, <2>2 DEF DefaultInv, DefaultIsActive, Defaults, Active, Live
  <2>5. ~lang[l].default => Defaults' = Defaults
    BY <2>1, <2>2 DEF Defaults, Live
  <2> QED  BY <2>3, <2>4, <2>5 DEF DefaultInv
<1> QED  BY <1>1, <1>2, <1>3, <1>4, <1>5, LanguageWrites

LEMMA InitDefault == Init => DefaultInv
<1> SUFFICES ASSUME Init PROVE DefaultInv
  OBVIOUS
<1>1. Defaults = {1} /\ Active = {1}
  BY SiteLanguagesAssumption
     DEF Init, Defaults, Active, Live, FirstLanguage, NoLanguage
<1> QED  BY <1>1, SiteLanguagesAssumption DEF DefaultInv, DefaultIsActive

LEMMA AlwaysDefault == Spec => []DefaultInv
  BY InitDefault, NextDefault, AlwaysTyped, PTL DEF Spec

(* There is one default, whatever overlaps, but for the two handlers that act
   on a flag they read before. *)
THEOREM SingleDefault == Spec => []OneDefault
<1>1. ASSUME NEW l \in Ids, Defaults = {l} PROVE HasDefault
  BY <1>1, FS_Singleton DEF HasDefault
<1>2. DefaultInv => OneDefault
  BY <1>1 DEF DefaultInv, OneDefault
<1> QED  BY <1>2, AlwaysDefault, PTL

(* A default language is active in every reachable state. *)
THEOREM DefaultServes == Spec => []DefaultIsActive
<1>1. DefaultInv => DefaultIsActive
  BY DEF DefaultInv
<1> QED  BY <1>1, AlwaysDefault, PTL

-----------------------------------------------------------------------------
(* Pages under the prefixes and in the languages of the table *)

(* A deletion leaves the languages of other codes alone, and pages too. *)
LEMMA DeleteRows ==
  ASSUME Typed, NEW r \in Requests, DeleteLanguage(r)
  PROVE  LET l == req[r].id IN
         /\ l \in Ids
         /\ lang'[l].state = "gone"
         /\ DOMAIN lang' = Ids
         /\ \A m \in Ids \ {l} : lang'[m] = lang[m]
         /\ page' = page
<1>1. req[r].id \in Ids
  BY DEF Typed, ReqInv, DeleteLanguage, At
<1> QED  BY <1>1, RowTypes DEF Typed, TableInv, DeleteLanguage, Language

(* The steps that write the table of pages. *)
LEMMA PageWrites ==
  ASSUME [Next]_vars
  PROVE  \/ UNCHANGED <<lang, page, unchecked, strayed>>
         \/ \E r \in Requests, l \in Ids : CreateLanguage(r, l) \/ SetDefault(r, l)
         \/ \E r \in Requests : UpdateLanguage(r) \/ DeleteLanguage(r) \/ WritePage(r)
         \/ \E p \in Pages : DeletePage(p)
  BY DEF Next, LanguageStep, RefreshStep, PageStep, ReadForUpdate, ReadForDelete,
         UpdateRefused, DeleteRefused, ListActive, GetDefault, RefreshFails,
         ConfigureLanguages, CreatePage, TranslatePage, MovePage, RewritePage, Plan,
         WritePageRefused, historyVars, vars

(* What WritePage and DeletePage leave of the other pages. *)
LEMMA WriteRows ==
  ASSUME Typed, NEW r \in Requests, WritePage(r)
  PROVE  \E p \in Pages :
           /\ page'[p] = req[r].put /\ DOMAIN page' = Pages
           /\ \A q \in Pages \ {p} : page'[q] = page[q]
           /\ unchecked' = IF ~req[r].checks /\ PrefixTaken(req[r].put.slug)
                           THEN unchecked \cup {p} ELSE unchecked \ {p}
           /\ strayed' = IF req[r].put.lang \notin CodesOf(Live(lang))
                         THEN strayed \cup {p} ELSE strayed \ {p}
           /\ RouteFree(r)
           /\ lang' = lang
  BY DEF Typed, TableInv, WritePage

LEMMA NextShadowed == Typed /\ ShadowedOnlyUnchecked /\ [Next]_vars => ShadowedOnlyUnchecked'
<1> SUFFICES ASSUME Typed, ShadowedOnlyUnchecked, [Next]_vars PROVE ShadowedOnlyUnchecked'
  OBVIOUS
<1> USE DEF Typed, TableInv
<1>1. CASE UNCHANGED <<lang, page, unchecked, strayed>>
  BY <1>1 DEF ShadowedOnlyUnchecked, PrefixTaken, CodesOf, Active, Live
<1>2. ASSUME NEW r \in Requests, NEW l \in Ids, CreateLanguage(r, l)
      PROVE  ShadowedOnlyUnchecked'
  <2>1. page' = page /\ unchecked' = unchecked
    BY <1>2 DEF CreateLanguage, historyVars
  <2>2. /\ \A m \in Ids \ {l} : lang'[m] = lang[m]
        /\ DOMAIN lang' = Ids
        /\ lang'[l].active => ~RouteUnder(lang'[l].code)
    BY <1>2 DEF CreateLanguage
  <2> QED  BY <2>1, <2>2 DEF ShadowedOnlyUnchecked, PrefixTaken, CodesOf, Active, Live, RouteUnder
<1>3. ASSUME NEW r \in Requests, NEW l \in Ids, SetDefault(r, l)
      PROVE  ShadowedOnlyUnchecked'
  <2>1. page' = page /\ unchecked' = unchecked
    BY <1>3 DEF SetDefault
  <2>2. /\ lang' \in [Ids -> Language]
        /\ \A m \in Ids : /\ lang'[m].state = lang[m].state
                          /\ lang'[m].code = lang[m].code
                          /\ lang'[m].active = lang[m].active
    BY <1>3, WithDefaultRows DEF SetDefault
  <2>3. \A s : PrefixTaken(s)' => PrefixTaken(s)
    BY <2>2 DEF PrefixTaken, CodesOf, Active, Live
  <2> QED  BY <2>1, <2>3 DEF ShadowedOnlyUnchecked, Live
<1>4. ASSUME NEW r \in Requests, UpdateLanguage(r) PROVE ShadowedOnlyUnchecked'
  <2> DEFINE l == req[r].id
  <2>1. /\ l \in Ids /\ DOMAIN lang' = Ids
        /\ \A m \in Ids \ {l} : lang'[m] = lang[m]
        /\ lang'[l].active => ~RouteUnder(lang'[l].code)
        /\ page' = Renamed(r, lang'[l].code)
    BY <1>4, UpdateRows
  <2>2. unchecked' = unchecked
    BY <1>4 DEF UpdateLanguage
  <2> HIDE DEF l
  <2>3. /\ DOMAIN page' = Pages
        /\ \A p \in Pages : page'[p].state = page[p].state /\ page'[p].slug = page[p].slug
    BY <2>1 DEF Renamed, Page
  <2>4. ASSUME NEW p \in Live(page), PrefixTaken(page[p].slug)' PROVE p \in unchecked
    <3>1. PICK m \in Ids : lang'[m].state = "live" /\ lang'[m].active
                           /\ lang'[m].code = page'[p].slug
      BY <2>1, <2>4 DEF PrefixTaken, CodesOf, Active, Live
    <3>2. m # l
      BY <2>1, <2>3, <2>4, <3>1 DEF RouteUnder, Live
    <3> QED  BY <2>1, <2>3, <2>4, <3>1, <3>2
             DEF ShadowedOnlyUnchecked, PrefixTaken, CodesOf, Active, Live
  <2> QED  BY <2>2, <2>3, <2>4 DEF ShadowedOnlyUnchecked, Live
<1>5. ASSUME NEW r \in Requests, DeleteLanguage(r) PROVE ShadowedOnlyUnchecked'
  <2>1. unchecked' = unchecked
    BY <1>5 DEF DeleteLanguage
  <2>2. \A s : PrefixTaken(s)' => PrefixTaken(s)
    BY <1>5, DeleteRows DEF PrefixTaken, CodesOf, Active, Live
  <2> QED  BY <1>5, <2>1, <2>2, DeleteRows DEF ShadowedOnlyUnchecked, Live
<1>6. ASSUME NEW r \in Requests, WritePage(r) PROVE ShadowedOnlyUnchecked'
  BY <1>6, WriteRows
     DEF ShadowedOnlyUnchecked, PrefixTaken, CodesOf, Active, Live, RouteFree
<1>7. ASSUME NEW p \in Pages, DeletePage(p) PROVE ShadowedOnlyUnchecked'
  BY <1>7, RowTypes DEF DeletePage, ShadowedOnlyUnchecked, PrefixTaken, CodesOf, Active, Live, Page
<1> QED  BY <1>1, <1>2, <1>3, <1>4, <1>5, <1>6, <1>7, PageWrites

(* The guarded page writes and the guarded language writes never leave a page
   under a language's prefix, in whatever order they commit. *)
THEOREM RoutesGuarded == Spec => []ShadowedOnlyUnchecked
<1>1. Init => ShadowedOnlyUnchecked
  BY DEF Init, ShadowedOnlyUnchecked, Live, NoPage
<1> QED  BY <1>1, AlwaysTyped, NextShadowed, PTL DEF Spec

LEMMA NextOrphans == Typed /\ NoOrphans /\ [Next]_vars => NoOrphans'
<1> SUFFICES ASSUME Typed, NoOrphans, [Next]_vars PROVE NoOrphans'
  OBVIOUS
<1> USE DEF Typed, TableInv
<1>1. CASE UNCHANGED <<lang, page, unchecked, strayed>>
  BY <1>1 DEF NoOrphans, CodesOf, Live
<1>2. ASSUME NEW r \in Requests, NEW l \in Ids, CreateLanguage(r, l) PROVE NoOrphans'
  <2>1. page' = page /\ strayed' = strayed
    BY <1>2 DEF CreateLanguage, historyVars
  <2>2. /\ \A m \in Ids \ {l} : lang'[m] = lang[m]
        /\ DOMAIN lang' = Ids
        /\ lang[l].state = "none"
    BY <1>2 DEF CreateLanguage, IsNext
  <2> QED  BY <2>1, <2>2 DEF NoOrphans, CodesOf, Live
<1>3. ASSUME NEW r \in Requests, NEW l \in Ids, SetDefault(r, l) PROVE NoOrphans'
  <2>1. page' = page /\ strayed' = strayed
    BY <1>3 DEF SetDefault
  <2>2. /\ lang' \in [Ids -> Language]
        /\ \A m \in Ids : lang'[m].state = lang[m].state /\ lang'[m].code = lang[m].code
    BY <1>3, WithDefaultRows DEF SetDefault
  <2>3. CodesOf(Live(lang))' = CodesOf(Live(lang))
    BY <2>2 DEF CodesOf, Live
  <2> QED  BY <2>1, <2>3 DEF NoOrphans, Live
<1>4. ASSUME NEW r \in Requests, UpdateLanguage(r) PROVE NoOrphans'
  <2> DEFINE l == req[r].id
  <2>1. /\ l \in Ids /\ DOMAIN lang' = Ids /\ lang'[l].state = "live"
        /\ \A m \in Ids \ {l} : lang'[m] = lang[m]
        /\ page' = Renamed(r, lang'[l].code)
    BY <1>4, UpdateRows
  <2>2. strayed' = strayed \cup Unknown(r, l)
    BY <1>4 DEF UpdateLanguage
  <2>3. lang'[l].code \in CodesOf(Live(lang))'
    BY <2>1 DEF CodesOf, Live
  <2> HIDE DEF l
  <2> SUFFICES ASSUME NEW p \in Pages, page'[p].state = "live"
               PROVE  page'[p].lang \in CodesOf(Live(lang))' \/ p \in strayed'
    BY <2>1 DEF NoOrphans, Live, Renamed
  <2>4. CASE page[p].lang = req[r].was.code /\ page[p].state = "live"
    BY <2>1, <2>3, <2>4 DEF Renamed, Page
  <2>5. CASE ~(page[p].lang = req[r].was.code /\ page[p].state = "live")
    <3>1. page'[p] = page[p] /\ page[p].state = "live" /\ page[p].lang # req[r].was.code
      BY <2>1, <2>5 DEF Renamed
    <3>2. CASE p \in strayed
      BY <2>2, <3>2
    <3>3. CASE p \notin strayed
      <4>1. PICK m \in Ids : lang[m].state = "live" /\ lang[m].code = page[p].lang
        BY <3>1, <3>3 DEF NoOrphans, CodesOf, Live
      <4>2. CASE m = l
        BY <2>2, <3>1, <4>1, <4>2 DEF Unknown, Live
      <4>3. CASE m # l
        BY <2>1, <3>1, <4>1, <4>3 DEF CodesOf, Live
      <4> QED  BY <4>2, <4>3
    <3> QED  BY <3>2, <3>3
  <2> QED  BY <2>4, <2>5
<1>5. ASSUME NEW r \in Requests, DeleteLanguage(r) PROVE NoOrphans'
  <2> DEFINE l == req[r].id
  <2>1. /\ l \in Ids /\ DOMAIN lang' = Ids /\ page' = page
        /\ \A m \in Ids \ {l} : lang'[m] = lang[m]
    BY <1>5, DeleteRows
  <2>2. /\ strayed' = strayed \cup Unknown(r, l)
        /\ \A p \in Live(page) : page[p].lang # req[r].was.code
    BY <1>5 DEF DeleteLanguage
  <2> HIDE DEF l
  <2> SUFFICES ASSUME NEW p \in Live(page), p \notin strayed'
               PROVE  page[p].lang \in CodesOf(Live(lang))'
    BY <2>1 DEF NoOrphans, Live
  <2>3. PICK m \in Ids : lang[m].state = "live" /\ lang[m].code = page[p].lang
    BY <2>2 DEF NoOrphans, CodesOf, Live
  <2>4. m # l
    BY <2>2, <2>3 DEF Unknown, Live
  <2> QED  BY <2>1, <2>3, <2>4 DEF CodesOf, Live
<1>6. ASSUME NEW r \in Requests, WritePage(r) PROVE NoOrphans'
  BY <1>6, WriteRows DEF NoOrphans, CodesOf, Live
<1>7. ASSUME NEW p \in Pages, DeletePage(p) PROVE NoOrphans'
  BY <1>7, RowTypes DEF DeletePage, NoOrphans, CodesOf, Live, Page
<1> QED  BY <1>1, <1>2, <1>3, <1>4, <1>5, <1>6, <1>7, PageWrites

(* No rename and no deletion leaves a page without its language, but for the
   pages and languages that were read before another write. *)
THEOREM NoneOrphaned == Spec => []NoOrphans
<1>1. Init => NoOrphans
  BY DEF Init, NoOrphans, Live, NoPage
<1> QED  BY <1>1, AlwaysTyped, NextOrphans, PTL DEF Spec

-----------------------------------------------------------------------------
(* The process *)

(* What a refresh in time has read is what the table says. *)
Sees(r) ==
  /\ HasRead(r) => req[r].active = CodesOf(Active)
  /\ req[r].pc = "configure" => HasDefault /\ req[r].default = DefaultCode

RefreshInv ==
  /\ \A r \in late : HasRead(r)
  /\ \A r \in Requests \ late : Sees(r)
  /\ ProcessUpToDate

LEMMA SameTable ==
  ASSUME lang' = lang
  PROVE  /\ HasDefault' <=> HasDefault
         /\ Wanted' = Wanted
         /\ CodesOf(Active)' = CodesOf(Active)
         /\ DefaultCode' = DefaultCode
  BY DEF HasDefault, Wanted, DefaultCode, Defaults, Active, CodesOf, Live

(* Requests that do not refresh move on, those that do stay where they are. *)
LEMMA StaysUpToDate ==
  ASSUME RefreshInv, late \subseteq Requests, UNCHANGED <<lang, i18n, late, missed>>,
         \A r \in Requests : req'[r] = req[r] \/ ~(Refreshing(r) \/ HasRead(r)')
  PROVE  RefreshInv'
<1>1. \A r \in Requests : Sees(r) => Sees(r)'
  BY SameTable DEF Sees, HasRead, Refreshing
<1>2. \A r \in late : HasRead(r)'
  BY DEF RefreshInv, HasRead, Refreshing
<1>3. ProcessUpToDate'
  <2>1. ASSUME NEW r \in Requests \ late, Refreshing(r) PROVE Refreshing(r)'
    BY <2>1 DEF Refreshing, HasRead
  <2> QED  BY <2>1, SameTable DEF RefreshInv, ProcessUpToDate
<1> QED  BY <1>1, <1>2, <1>3 DEF RefreshInv

(* A request that did not refresh moves on, and to no reading of languages. *)
LEMMA MovesUpToDate ==
  ASSUME Typed, RefreshInv, UNCHANGED <<lang, i18n, late, missed>>,
         NEW r \in Requests, NEW q, Step(r, q), ~Refreshing(r),
         q.pc \notin {"default", "configure"}
  PROVE  RefreshInv'
<1>1. \A t \in Requests \ {r} : req'[t] = req[t]
  BY DEF Step, Typed, ReqInv
<1>2. ~HasRead(r)'
  BY DEF Step, Typed, ReqInv, HasRead
<1> QED  BY <1>1, <1>2, StaysUpToDate DEF Typed, HistoryInv

(* A commit: who has read before is late, and the committer refreshes in time. *)
LEMMA CommitUpToDate ==
  ASSUME Typed, RefreshInv, NEW r \in Requests, ~HasRead(r), Outdates,
         Refresh(r) \/ RefreshTwice(r)
  PROVE  RefreshInv'
<1>1. /\ req'[r].pc = "list"
      /\ \A t \in Requests \ {r} : req'[t] = req[t]
  BY RefreshReq DEF Refresh, RefreshTwice, Step, Typed, ReqInv
<1>2. late' = late \cup {t \in Requests : HasRead(t)}
  BY DEF Outdates
<1>3. \A t \in late' : HasRead(t)'
  BY <1>1, <1>2 DEF RefreshInv, HasRead, Typed, HistoryInv
<1>4. \A t \in Requests \ late' : ~HasRead(t)'
  BY <1>1, <1>2 DEF HasRead
<1>5. \A t \in Requests \ late' : Sees(t)'
  BY <1>4 DEF Sees, HasRead
<1>6. r \notin late' /\ Refreshing(r)'
  BY <1>1, <1>2 DEF RefreshInv, Refreshing
<1> QED  BY <1>3, <1>5, <1>6 DEF RefreshInv, ProcessUpToDate

(* A refresh is over, or starts again: the requests beside it are as they were. *)
LEMMA RefreshEnds ==
  ASSUME Typed, RefreshInv, NEW r \in Requests, lang' = lang, late' = late \ {r},
         AfterRefresh(r)
  PROVE  /\ \A t \in late' : HasRead(t)'
         /\ \A t \in Requests \ late' : Sees(t)'
         /\ \A t \in Requests \ {r} : Refreshing(t)' <=> Refreshing(t)
<1>1. req'[r].pc \in {"list", "idle"}
  BY RefreshReq, IdleType DEF AfterRefresh, Finish, Step, Typed, ReqInv
<1>2. \A t \in Requests \ {r} : req'[t] = req[t]
  BY DEF AfterRefresh, Finish, Refresh, Step, Typed, ReqInv
<1>3. \A t \in late' : HasRead(t)'
  BY <1>2 DEF RefreshInv, HasRead, Typed, HistoryInv
<1>4. Sees(r)'
  BY <1>1 DEF Sees, HasRead
<1>5. \A t \in Requests \ {r} : Sees(t) => Sees(t)'
  BY <1>2, SameTable DEF Sees, HasRead
<1>6. \A t \in Requests \ {r} : Refreshing(t)' <=> Refreshing(t)
  BY <1>2 DEF Refreshing, HasRead
<1> QED  BY <1>3, <1>4, <1>5, <1>6 DEF RefreshInv

LEMMA RefreshStepUpToDate ==
  ASSUME Typed, RefreshInv, NEW r \in Requests, RefreshStep(r)
  PROVE  RefreshInv'
<1>0. req[r] \in Request
  BY DEF Typed, ReqInv
<1>1. CASE ListActive(r)
  <2> DEFINE q == [req[r] EXCEPT !.pc = "default", !.active = CodesOf(Active)]
  <2>1. q.pc = "default" /\ q.active = CodesOf(Active)
    BY <1>0 DEF Request
  <2>2. Step(r, q) /\ UNCHANGED <<lang, i18n, late, missed>> /\ req[r].pc = "list"
    BY <1>1 DEF ListActive, At, historyVars
  <2> HIDE DEF q
  <2>3. req'[r] = q /\ \A t \in Requests \ {r} : req'[t] = req[t]
    BY <2>2 DEF Step, Typed, ReqInv
  <2>4. r \notin late /\ Sees(r)'
    BY <2>1, <2>2, <2>3, SameTable DEF RefreshInv, HasRead, Sees
  <2>5. \A t \in Requests \ {r} : Sees(t) => Sees(t)'
    BY <2>2, <2>3, SameTable DEF Sees, HasRead
  <2>6. \A t \in late : HasRead(t)'
    BY <2>1, <2>3 DEF RefreshInv, HasRead, Typed, HistoryInv
  <2>7. ProcessUpToDate'
    BY <2>1, <2>2, <2>3, <2>4 DEF ProcessUpToDate, Refreshing, HasRead
  <2> QED  BY <2>2, <2>4, <2>5, <2>6, <2>7 DEF RefreshInv
<1>2. CASE GetDefault(r)
  <2> DEFINE q == [req[r] EXCEPT !.pc = "configure", !.default = DefaultCode]
  <2>1. q.pc = "configure" /\ q.active = req[r].active /\ q.default = DefaultCode
    BY <1>0 DEF Request
  <2>2. /\ Step(r, q) /\ UNCHANGED <<lang, i18n, late, missed>>
        /\ req[r].pc = "default" /\ HasDefault
    BY <1>2 DEF GetDefault, At, historyVars
  <2> HIDE DEF q
  <2>3. req'[r] = q /\ \A t \in Requests \ {r} : req'[t] = req[t]
    BY <2>2 DEF Step, Typed, ReqInv
  <2>4. Sees(r) => Sees(r)'
    BY <2>1, <2>2, <2>3, SameTable DEF HasRead, Sees
  <2>5. \A t \in Requests \ {r} : Sees(t) => Sees(t)'
    BY <2>2, <2>3, SameTable DEF Sees, HasRead
  <2>6. \A t \in late : HasRead(t)'
    BY <2>1, <2>3 DEF RefreshInv, HasRead, Typed, HistoryInv
  <2>7. \A t \in Requests : Refreshing(t) => Refreshing(t)'
    BY <2>1, <2>3 DEF Refreshing, HasRead
  <2>8. ProcessUpToDate'
    BY <2>2, <2>7, SameTable DEF RefreshInv, ProcessUpToDate
  <2> QED  BY <2>2, <2>4, <2>5, <2>6, <2>8 DEF RefreshInv
<1>3. CASE RefreshFails(r)
  <2>1. /\ UNCHANGED <<lang, i18n>> /\ late' = late \ {r} /\ AfterRefresh(r)
        /\ missed' = (missed \/ r \notin late)
    BY <1>3 DEF RefreshFails
  <2>2. /\ \A t \in late' : HasRead(t)'
        /\ \A t \in Requests \ late' : Sees(t)'
        /\ \A t \in Requests \ {r} : Refreshing(t)' <=> Refreshing(t)
    BY <2>1, RefreshEnds
  <2>3. ProcessUpToDate'
    BY <2>1, <2>2, SameTable DEF RefreshInv, ProcessUpToDate
  <2> QED  BY <2>2, <2>3 DEF RefreshInv
<1>4. CASE ConfigureLanguages(r)
  <2>1. /\ lang' = lang /\ late' = late \ {r} /\ AfterRefresh(r) /\ missed' = (r \in late)
        /\ i18n' = Configured(req[r].active, req[r].default) /\ req[r].pc = "configure"
    BY <1>4 DEF ConfigureLanguages, At
  <2>2. /\ \A t \in late' : HasRead(t)'
        /\ \A t \in Requests \ late' : Sees(t)'
    BY <2>1, RefreshEnds
  <2>3. r \notin late => HasDefault' /\ i18n' = Wanted'
    BY <2>1, SameTable DEF RefreshInv, Sees, HasRead, Wanted
  <2>4. ProcessUpToDate'
    BY <2>1, <2>3 DEF ProcessUpToDate
  <2> QED  BY <2>2, <2>4 DEF RefreshInv
<1> QED  BY <1>1, <1>2, <1>3, <1>4 DEF RefreshStep

LEMMA NextUpToDate == Typed /\ RefreshInv /\ [Next]_vars => RefreshInv'
<1> SUFFICES ASSUME Typed, RefreshInv, [Next]_vars PROVE RefreshInv'
  OBVIOUS
<1>1. ASSUME UNCHANGED <<lang, i18n, late, missed, req>> PROVE RefreshInv'
  BY <1>1, StaysUpToDate DEF Typed, HistoryInv
<1>2. ASSUME NEW r \in Requests, LanguageStep(r) PROVE RefreshInv'
  <2>1. ASSUME NEW l \in Ids, CreateLanguage(r, l) \/ SetDefault(r, l) PROVE RefreshInv'
    BY <2>1, CommitUpToDate DEF CreateLanguage, SetDefault, At, HasRead
  <2>2. CASE UpdateLanguage(r) \/ DeleteLanguage(r)
    BY <2>2, CommitUpToDate DEF UpdateLanguage, DeleteLanguage, At, HasRead
  <2>3. ASSUME NEW l \in Ids, ReadForUpdate(r, l) \/ ReadForDelete(r, l) PROVE RefreshInv'
    <3>1. /\ [Idle EXCEPT !.pc = "update", !.id = l, !.was = lang[l]].pc = "update"
          /\ [Idle EXCEPT !.pc = "delete", !.id = l, !.was = lang[l]].pc = "delete"
      BY IdleType DEF Request
    <3> QED  BY <2>3, <3>1, MovesUpToDate
             DEF ReadForUpdate, ReadForDelete, At, Refreshing, HasRead, historyVars
  <2>4. CASE UpdateRefused(r) \/ DeleteRefused(r)
    BY <2>4, IdleType, MovesUpToDate
       DEF UpdateRefused, DeleteRefused, Finish, At, Refreshing, HasRead, historyVars
  <2> QED  BY <1>2, <2>1, <2>2, <2>3, <2>4 DEF LanguageStep
<1>3. ASSUME NEW r \in Requests, PageStep(r) PROVE RefreshInv'
  <2>1. ASSUME NEW p, NEW slug, NEW code, NEW checks, Plan(r, p, slug, code, checks)
        PROVE  RefreshInv'
    <3> DEFINE q == [Idle EXCEPT !.pc = "page", !.id = p, !.checks = checks,
                                 !.put = [state |-> "live", slug |-> slug, lang |-> code]]
    <3>1. q.pc = "page" /\ Step(r, q)
      BY <2>1, IdleType DEF Plan, Request
    <3> HIDE DEF q
    <3> QED  BY <2>1, <3>1, MovesUpToDate DEF Plan, At, Refreshing, HasRead, historyVars
  <2>2. CASE WritePage(r) \/ WritePageRefused(r)
    BY <2>2, IdleType, MovesUpToDate
       DEF WritePage, WritePageRefused, Finish, At, Refreshing, HasRead, historyVars
  <2> QED  BY <1>3, <2>1, <2>2 DEF PageStep, CreatePage, TranslatePage, MovePage, RewritePage
<1> QED  BY <1>1, <1>2, <1>3, RefreshStepUpToDate DEF Next, DeletePage, vars

(* The process serves the languages of the table once a refresh in time has ended
   well, unless one that had read before a commit has ended after it. *)
THEOREM ProcessFollows == Spec => []ProcessUpToDate
<1>1. Init => RefreshInv
  <2> SUFFICES ASSUME Init PROVE RefreshInv
    OBVIOUS
  <2>1. Defaults = {1} /\ Active = {1} /\ lang[1].code = English
    BY SiteLanguagesAssumption
       DEF Init, Defaults, Active, Live, FirstLanguage, NoLanguage
  <2>2. HasDefault
    BY <2>1, FS_Singleton DEF HasDefault
  <2>3. DefaultCode = English /\ CodesOf(Active) = {English}
    BY <2>1 DEF DefaultCode, CodesOf
  <2>4. ProcessUpToDate
    BY <2>2, <2>3 DEF Init, Wanted, ProcessUpToDate
  <2> QED  BY <2>4, IdleType DEF Init, RefreshInv, Sees, HasRead
<1>2. RefreshInv => ProcessUpToDate
  BY DEF RefreshInv
<1> QED  BY <1>1, <1>2, AlwaysTyped, NextUpToDate, PTL DEF Spec
=============================================================================
