------------------------------- MODULE PageCache -------------------------------
(***************************************************************************)
(* The cache of published pages: internal/cache/pages.go.                  *)
(*                                                                         *)
(* Two maps, by slug and by id, whose keys carry the language and the role *)
(* of a request, and an index from a page to the keys it was filed under,  *)
(* which is all that InvalidatePage has to find its entries again.  Each   *)
(* method is one critical section, except that the two lookups read the    *)
(* database between the section that missed and the one that stores.       *)
(***************************************************************************)
EXTENDS Naturals

CONSTANTS
  Pages,      \* page ids
  Slugs,      \* slugs; digits are a slug too, so one may look like an id
  Languages,  \* language codes
  Roles       \* roles of the visitors

ASSUME PageCacheAssumption ==
  /\ Pages \subseteq Nat \ {0}
  /\ Slugs \subseteq Nat /\ Slugs # {}

VARIABLES
  bySlug,       \* key -> the page filed there, or NoPage
  byID,
  keysByPageID  \* page -> keys it was filed under

cacheVars == <<bySlug, byID, keysByPageID>>

(* A copy of a row: ver stands for the rest of its contents. *)
Copy == [id : Pages, slug : Slugs, lang : Languages, ver : Nat]
NoPage == [id |-> 0]

Contexts == [lang : Languages, role : Roles]

(* {lang}:{role}:{slug} and {lang}:{role}:{id}: the same form of text, so a
   key of one map can equal a key of the other. *)
Key == [lang : Languages, role : Roles, name : Slugs \cup Pages]
PageKey(ctx, slug) == [lang |-> ctx.lang, role |-> ctx.role, name |-> slug]
PageIDKey(ctx, id) == [lang |-> ctx.lang, role |-> ctx.role, name |-> id]

CacheInit ==
  /\ bySlug = [k \in Key |-> NoPage]
  /\ byID = [k \in Key |-> NoPage]
  /\ keysByPageID = [p \in Pages |-> {}]

(* Seeded fault: the slug is filed under the language of the visitor. *)
SlugKeyForVisitor(page, ctx) == PageKey(ctx, page.slug)

(* The slug key takes the language of the page, the id key the visitor's. *)
SlugKeyFor(page, ctx) == PageKey([ctx EXCEPT !.lang = page.lang], page.slug)

(* Seeded fault: the index lists the slug alone. *)
KeysForSlug(page, ctx) == {SlugKeyFor(page, ctx)}

(* What store adds to the index. *)
KeysFor(page, ctx) == {SlugKeyFor(page, ctx), PageIDKey(ctx, page.id)}

(* store *)
Store(page, ctx) ==
  /\ bySlug' = [bySlug EXCEPT ![SlugKeyFor(page, ctx)] = page]
  /\ byID' = [byID EXCEPT ![PageIDKey(ctx, page.id)] = page]
  /\ keysByPageID' = [keysByPageID EXCEPT ![page.id] = @ \cup KeysFor(page, ctx)]

(* A key of the index is removed from both maps, whichever it was made for. *)
Without(map, keys) == [k \in Key |-> IF k \in keys THEN NoPage ELSE map[k]]

(* Seeded fault: only the map by slug is cleared. *)
InvalidateSlugsOf(p) ==
  /\ bySlug' = Without(bySlug, keysByPageID[p])
  /\ byID' = byID
  /\ keysByPageID' = keysByPageID

(* InvalidatePage *)
InvalidatePage(p) ==
  /\ bySlug' = Without(bySlug, keysByPageID[p])
  /\ byID' = Without(byID, keysByPageID[p])
  /\ keysByPageID' = [keysByPageID EXCEPT ![p] = {}]

Entries(map) == {k \in Key : map[k] # NoPage}

-----------------------------------------------------------------------------
(* Properties of the cache alone *)

(* Type correctness of the cache. *)
CacheTypeOK ==
  /\ bySlug \in [Key -> Copy \cup {NoPage}]
  /\ byID \in [Key -> Copy \cup {NoPage}]
  /\ keysByPageID \in [Pages -> SUBSET Key]

(* Whatever is cached can be found again: every entry of either map is      *)
(* listed under the page it holds a copy of, so that InvalidatePage leaves  *)
(* no variant of the page behind, also when a slug went from one page to    *)
(* another and when a slug reads like an id (pages.go:119-154).             *)
EntriesIndexed ==
  /\ \A k \in Entries(bySlug) : k \in keysByPageID[bySlug[k].id]
  /\ \A k \in Entries(byID) : k \in keysByPageID[byID[k].id]

(* A lookup by slug in a language answers with a page of that language and  *)
(* that slug, and a lookup by id with that page, whoever filled the entry   *)
(* (the boundary of the comments at pages.go:47-52 and 111-118).            *)
OwnLanguageOnly ==
  /\ \A k \in Entries(bySlug) : bySlug[k].lang = k.lang /\ bySlug[k].slug = k.name
  /\ \A k \in Entries(byID) : byID[k].id = k.name
=============================================================================
