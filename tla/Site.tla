-------------------------------- MODULE Site ---------------------------------
(***************************************************************************)
(* What the public site of an organization lists, and what its addresses   *)
(* answer (the queries of app/models/content.py, controllers/site.py and   *)
(* feeds.py).  A path is the sequence of its segments.                     *)
(***************************************************************************)
EXTENDS Content, Sequences

SectionReadable(v, t) == CanRead(Ranks, v, SectionGate(t))

\* visible_to_current_visitor.
Visible(v, i) == SectionReadable(v, item[i].type) /\ CanRead(Ranks, v, item[i].gate)

-----------------------------------------------------------------------------
(* Addresses *)

PathOf(i) == IF item[i].type = "page" THEN <<item[i].slug>> ELSE <<Base(item[i].type), item[i].slug>>

\* permalink: a child is at an address of its own when its type gives children
\* one, its parent has an archive and its type is active; else on its parent's.
HasAddress(i) ==
  IsChild(i) => /\ ChildRoutable(item[i].type) /\ item[i].slug # NoSlug
                /\ HasArchive(item[item[i].parent].type) /\ Enabled(item[i].type)
Permalink(i) == IF ~IsChild(i) THEN PathOf(i)
                ELSE IF HasAddress(i) THEN PathOf(item[i].parent) \o PathOf(i) ELSE PathOf(item[i].parent)

\* render_gate: the sign that something is there, or nothing at all.
GateOf(t) == IF Teases(t) THEN [page |-> "gate", item |-> NoItem] ELSE [page |-> "hidden", item |-> NoItem]
Missing == [page |-> "missing", item |-> NoItem]

\* _render_archive and _readable_type_or_404: a section that is locked shows its
\* gate, and has no feed.
ArchivePage == [page |-> "archive", item |-> NoItem]
ArchiveAnswer(v, t) == IF SectionReadable(v, t) THEN ArchivePage ELSE GateOf(t)
FeedAnswer(v, types) == IF \E t \in types : SectionReadable(v, t) THEN ArchivePage ELSE Missing

\* _render_page and _render_single.
Shown(v, i) == IF i = NoItem THEN Missing
               ELSE IF Visible(v, i) THEN [page |-> "item", item |-> i] ELSE GateOf(item[i].type)

\* published_by_slug, and the child of a parent.
PublishedAt(parent, types, slug) ==
  {i \in Items : Published(i) /\ item[i].parent = parent /\ item[i].type \in types /\ item[i].slug = slug}
One(found) == IF found = {} THEN NoItem ELSE CHOOSE i \in found : TRUE

\* type_for_base.
TypesAt(segment) == {t \in FeedTypes : Base(t) = segment}

\* child_single: what the parent hides, its children do not show.
ChildAnswer(v, p, types, slug) ==
  IF p = NoItem \/ types = {} THEN Missing
  ELSE IF Visible(v, p) THEN Shown(v, One(PublishedAt(p, types, slug))) ELSE GateOf(item[p].type)

\* entry, type_rss, single and child_single: what a path answers a visitor.
Answer(v, path) ==
  CASE Len(path) = 1 ->
         IF TypesAt(path[1]) # {} THEN ArchiveAnswer(v, One(TypesAt(path[1]))) ELSE Shown(v, One(PublishedAt(NoItem, {"page"}, path[1])))
    [] Len(path) = 2 ->
         IF path[2] = "feed" THEN FeedAnswer(v, TypesAt(path[1])) ELSE Shown(v, One(PublishedAt(NoItem, TypesAt(path[1]), path[2])))
    [] Len(path) = 4 ->
         ChildAnswer(v, One(PublishedAt(NoItem, TypesAt(path[1]), path[2])),
                     {t \in TypesAt(path[3]) : ChildRoutable(t)}, path[4])

-----------------------------------------------------------------------------
(* Listings *)

\* published_query of one type: what stands alone, of an active type.
PublishedQuery(t) == {i \in Items : Published(i) /\ ~IsChild(i) /\ item[i].type = t /\ Enabled(t)}

\* visible_query: everything where gated items are teased, else what is readable.
VisibleQuery(v, t) == {i \in PublishedQuery(t) : Teases(t) \/ Listed(Ranks, v, item[i].gate)}

\* _render_archive, feed, feed_count, categories and tags: behind the section.
Archive(v, t) == IF SectionReadable(v, t) THEN VisibleQuery(v, t) ELSE {}

\* syndication_query over every type; the feed of one type is its archive.
Syndicated(v) == UNION {Archive(v, t) : t \in FeedTypes}

\* _entry: the title always, a summary only where the item may be read.
Entries(v) == {[item |-> i, summary |-> Visible(v, i)] : i \in Syndicated(v)}

\* public_archive_types, public_query, public_pages and the sitemap.
Sitemap ==
  {i \in UNION {PublishedQuery(t) : t \in {t \in FeedTypes : SectionGate(t) = "public"}} : item[i].gate = "public"}
  \union {i \in PublishedQuery("page") : SectionGate("page") = "public" /\ item[i].gate = "public"}

\* visible_children: the blocks of a page that is open.
VisibleChildren(v, p) ==
  {c \in Children(p) : Published(c) /\ (\/ Visible(v, c)
                                        \/ SectionReadable(v, item[c].type) /\ Teases(item[c].type))}

-----------------------------------------------------------------------------
(* Properties *)

\* Whatever the site lists for a visitor, he finds at its address: the item
\* itself where its summary was shown, the gate where only its title was; what
\* the sitemap tells crawlers opens for anybody.  Whatever slugs were typed,
\* sections closed or types switched off in between.
ListedOpens ==
  /\ \A i \in Sitemap : Answer(Anonymous, Permalink(i)) = [page |-> "item", item |-> i]
  /\ \A v \in Visitors :
       /\ \A e \in Entries(v) : Answer(v, Permalink(e.item)) =
            IF e.summary THEN [page |-> "item", item |-> e.item] ELSE [page |-> "gate", item |-> NoItem]
       /\ \A p \in Present : Answer(v, Permalink(p)) = [page |-> "item", item |-> p] =>
            \A c \in VisibleChildren(v, p) : HasAddress(c) =>
              Answer(v, Permalink(c)) = IF Visible(v, c) THEN [page |-> "item", item |-> c]
                                        ELSE [page |-> "gate", item |-> NoItem]
=============================================================================
