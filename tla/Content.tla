------------------------------- MODULE Content -------------------------------
(***************************************************************************)
(* Content of one organization: items and their blocks, their addresses,   *)
(* publishing, and the settings of the sections they are in                *)
(* (app/models/content.py, organization.py, the content and content-type   *)
(* routes of controllers/manage.py).  A request loads a row, and writes    *)
(* the columns that differ from what it loaded; the settings are one       *)
(* column, written whole.                                                  *)
(***************************************************************************)
EXTENDS Tiers

CONSTANTS
  Types,        \* the content types registered
  Slugs,        \* slugs authors type or titles give
  MaxItems,     \* bound on the items there are at once
  MaxStamp,     \* bound on the times of first publication
  IsPostgres,   \* ids come from a sequence
  NoItem,       \* no item
  NoSlug        \* no slug

ASSUME ContentAssumption ==
  /\ "page" \in Types
  /\ Types \subseteq {"page", "article", "event", "course", "lesson"}
  /\ NoSlug \notin Slugs /\ NoItem \notin Nat
  /\ MaxItems \in Nat /\ MaxStamp \in Nat
  /\ IsPostgres \in BOOLEAN

Items == 1..MaxItems

VARIABLES
  item,         \* item[i]: the table content
  setting,      \* organization.settings, one column
  editing,      \* editing[r]: what request r has loaded
  clock,        \* the last time of first publication
  numbered      \* the last id the sequence gave, where there is one

works == <<item, setting, editing, clock, numbered>>

NoContent == [there |-> FALSE, type |-> "page", slug |-> NoSlug, parent |-> NoItem,
              position |-> 0, gate |-> "public", status |-> "draft", stamp |-> 0]
Unset == [enabled |-> "unset", gate |-> "public", tease |-> "unset"]
Away == [at |-> "idle", item |-> NoItem, seen |-> NoContent, positions |-> [i \in Items |-> 0],
         blob |-> [teasers |-> TRUE, types |-> [t \in Types |-> Unset]], alone |-> TRUE]

ContentInit ==
  /\ item = [i \in Items |-> NoContent]
  /\ setting = Away.blob
  /\ editing = [r \in Requests |-> Away]
  /\ clock = 0
  /\ numbered = 0

-----------------------------------------------------------------------------
(* Types, sections and addresses *)

HasArchive(t) == t # "page"
Essential(t) == t \in {"page", "article"}
ChildRoutable(t) == t = "lesson"
EnabledByDefault(t) == t = "event"
Base(t) == CASE t = "article" -> "blog" [] t = "event" -> "events"
             [] t = "course" -> "courses" [] t = "lesson" -> "lessons" [] OTHER -> "page"

\* type_enabled, type_is_active, active_types, feed_types.
Enabled(t) ==
  \/ Essential(t)
  \/ setting.types[t].enabled = "on"
  \/ setting.types[t].enabled = "unset" /\ EnabledByDefault(t)
FeedTypes == {t \in Types : HasArchive(t) /\ Enabled(t)}

\* type_visibility and type_teases.
SectionGate(t) == setting.types[t].gate
Teases(t) == IF setting.types[t].tease = "unset" THEN setting.teasers
             ELSE setting.types[t].tease = "yes"

Present == {i \in Items : item[i].there}
Children(p) == {i \in Present : item[i].parent = p}
IsChild(i) == item[i].parent # NoItem
Published(i) == i \in Present /\ item[i].status = "published"

\* Fault: a page may take any slug but that of a feed.
ReservedForItems(type) == {"feed"}

\* RESERVED_ITEM_SLUGS, and for a page the application's own routes and the
\* bases of every registered type, active or not.
Reserved(type) ==
  {"feed"} \union IF type = "page" THEN {"manage"} \union {Base(t) : t \in Types \ {"page"}} ELSE {}

\* validate: a child without an address has no slug; a child with one is not
\* checked against the reserved ones; the unique indexes decide at the commit.
AddressOK(i, row) ==
  IF row.parent # NoItem /\ ~ChildRoutable(row.type) THEN row.slug = NoSlug
  ELSE /\ row.slug \in Slugs
       /\ row.parent = NoItem => row.slug \notin Reserved(row.type)
       /\ \A j \in Present \ {i} :
            <<item[j].parent, item[j].type, item[j].slug>> # <<row.parent, row.type, row.slug>>

\* What a flush writes: the columns that differ from the row as loaded.
Flushed(now, seen, new) == [f \in DOMAIN now |-> IF new[f] = seen[f] THEN now[f] ELSE new[f]]

-----------------------------------------------------------------------------
(* Requests *)

Open(r, opened) ==
  /\ editing[r].at = "idle"
  /\ editing' = [s \in Requests |->
       IF s = r THEN [opened EXCEPT !.alone = \A q \in Requests \ {r} : editing[q].at = "idle"]
                ELSE [editing[s] EXCEPT !.alone = editing[s].at = "idle"]]
Close(r) == editing' = [editing EXCEPT ![r] = Away]

\* SQLite gives the id after the highest there is.
HighestId == Cardinality({j \in Items : \E k \in Present : j <= k})
NewId(i) ==
  /\ i \in Items
  /\ i = 1 + (IF IsPostgres THEN numbered ELSE HighestId)
  /\ numbered' = IF IsPostgres THEN i ELSE numbered

\* new_content: a draft in one commit; to publish it is a second one.
Create(r, i, type, slug, gate, publish) ==
  LET row == [NoContent EXCEPT !.there = TRUE, !.type = type, !.slug = slug, !.gate = gate]
  IN /\ NewId(i) /\ Enabled(type) /\ gate \in Gates
     /\ AddressOK(i, row)
     /\ item' = [item EXCEPT ![i] = row]
     /\ IF publish THEN Open(r, [Away EXCEPT !.at = "publishing", !.item = i, !.seen = row])
        ELSE editing[r].at = "idle" /\ UNCHANGED editing
     /\ UNCHANGED <<setting, clock>>

BeginEdit(r, i) ==
  /\ i \in Present /\ Enabled(item[i].type)
  /\ Open(r, [Away EXCEPT !.at = "editing", !.item = i, !.seen = item[i]])
  /\ UNCHANGED <<item, setting, clock, numbered>>

\* publish: the time of first publication is kept.
Stamped(row) == [row EXCEPT !.status = "published",
                            !.stamp = IF row.stamp = 0 THEN clock + 1 ELSE row.stamp]

\* publish, unpublish, archive, and a plain save.
Acted(row, action) ==
  CASE action = "publish" -> Stamped(row)
    [] action = "unpublish" -> [row EXCEPT !.status = "draft"]
    [] action = "archive" -> [row EXCEPT !.status = "archived"]
    [] action = "save" -> row

\* edit_content, and the second commit of new_content.
SaveEdit(r, action, slug, gate) ==
  LET i == editing[r].item
      seen == editing[r].seen
      new == Acted([seen EXCEPT !.slug = slug, !.gate = gate], action)
      row == Flushed(item[i], seen, new)
  IN /\ \/ editing[r].at = "editing" /\ gate \in Gates
        \/ editing[r].at = "publishing" /\ action = "publish" /\ slug = seen.slug /\ gate = seen.gate
     /\ i \in Present
     /\ new.stamp <= MaxStamp
     /\ AddressOK(i, new) /\ AddressOK(i, row)
     /\ item' = [item EXCEPT ![i] = row]
     /\ clock' = IF new.stamp > clock THEN new.stamp ELSE clock
     /\ Close(r)
     /\ UNCHANGED <<setting, numbered>>

\* Fault: the blocks stay.
DeleteAlone(i) ==
  /\ i \in Present /\ Enabled(item[i].type)
  /\ item' = [item EXCEPT ![i] = NoContent]
  /\ UNCHANGED <<setting, editing, clock, numbered>>

\* delete: the blocks of an item go with it.
Delete(i) ==
  /\ i \in Present /\ Enabled(item[i].type)
  /\ item' = [j \in Items |-> IF j \in {i} \union Children(i) THEN NoContent ELSE item[j]]
  /\ UNCHANGED <<setting, editing, clock, numbered>>

\* add_block: at the end of the blocks that were there.
NextPosition(p) == CHOOSE n \in 0..(MaxItems + 1) :
  /\ \A c \in Children(p) : item[c].position < n
  /\ n = 0 \/ \E c \in Children(p) : item[c].position = n - 1

BeginBlock(r, p) ==
  /\ p \in Present /\ ~IsChild(p) /\ Enabled(item[p].type)
  /\ NextPosition(p) <= MaxItems
  /\ Open(r, [Away EXCEPT !.at = "adding", !.item = p, !.seen.position = NextPosition(p)])
  /\ UNCHANGED <<item, setting, clock, numbered>>

SaveBlock(r, i, type, slug) ==
  LET row == [NoContent EXCEPT !.there = TRUE, !.type = type, !.slug = slug,
                !.parent = editing[r].item, !.position = editing[r].seen.position]
  IN /\ editing[r].at = "adding" /\ editing[r].item \in Present
     /\ NewId(i) /\ Enabled(type) /\ HasArchive(type)
     /\ AddressOK(i, row)
     /\ item' = [item EXCEPT ![i] = row]
     /\ Close(r)
     /\ UNCHANGED <<setting, clock>>

\* move_child: the blocks renumbered in the order they show, two swapped; only
\* the positions that changed are written, 0 is no write and n + 1 is n.
Precedes(b, c) == item[b].position < item[c].position \/ (item[b].position = item[c].position /\ b < c)
IndexOf(c) == Cardinality({b \in Children(item[c].parent) : Precedes(b, c)})

\* The index of block b once c has gone to the target, if there is one.
IndexAfter(b, c, target) ==
  IF target \notin 0..(Cardinality(Children(item[c].parent)) - 1) THEN IndexOf(b)
  ELSE IF b = c THEN target
  ELSE IF IndexOf(b) = target THEN IndexOf(c) ELSE IndexOf(b)

BeginArrange(r, c, delta) ==
  LET p == item[c].parent
      target == IndexOf(c) + delta
  IN /\ c \in Present /\ IsChild(c)
     /\ Open(r, [Away EXCEPT !.at = "arranging", !.item = p, !.seen = item[c],
          !.positions = [b \in Items |->
             IF b \in Children(p) /\ IndexAfter(b, c, target) # item[b].position
               THEN IndexAfter(b, c, target) + 1 ELSE 0]])
     /\ UNCHANGED <<item, setting, clock, numbered>>

SaveArrange(r) ==
  /\ editing[r].at = "arranging"
  /\ \A b \in Items : editing[r].positions[b] # 0 => b \in Present
  /\ item' = [b \in Items |-> IF editing[r].positions[b] = 0 THEN item[b]
                              ELSE [item[b] EXCEPT !.position = editing[r].positions[b] - 1]]
  /\ Close(r)
  /\ UNCHANGED <<setting, clock, numbered>>

\* update_settings: the whole column, if it differs from what was loaded.
Merged(blob, new) == IF new = blob THEN setting ELSE new

\* update_content_type, and the teasers of privacy_settings: g.org was loaded
\* as the request came in.
BeginSettings(r) ==
  /\ Open(r, [Away EXCEPT !.at = "settings", !.blob = setting])
  /\ UNCHANGED <<item, setting, clock, numbered>>

SaveType(r, t, enabled, gate, tease) ==
  LET blob == editing[r].blob
  IN /\ editing[r].at = "settings" /\ HasArchive(t)
     /\ Essential(t) => enabled = "on"
     /\ gate \in Gates
     /\ setting' = Merged(blob, [blob EXCEPT !.types[t] = [enabled |-> enabled, gate |-> gate,
                                                           tease |-> tease]])
     /\ Close(r)
     /\ UNCHANGED <<item, clock, numbered>>

\* Fault: the settings saved are the update alone.
SaveUpdateAlone(r, teasers) ==
  /\ editing[r].at = "settings"
  /\ setting' = [Away.blob EXCEPT !.teasers = teasers]
  /\ Close(r)
  /\ UNCHANGED <<item, clock, numbered>>

SaveTeasers(r, teasers) ==
  /\ editing[r].at = "settings"
  /\ setting' = Merged(editing[r].blob, [editing[r].blob EXCEPT !.teasers = teasers])
  /\ Close(r)
  /\ UNCHANGED <<item, clock, numbered>>

\* A refusal, a rollback, a row that is gone, or the end of the process.
Drop(r) ==
  /\ editing[r].at # "idle"
  /\ Close(r)
  /\ UNCHANGED <<item, setting, clock, numbered>>

\* The requests considered, and what their forms choose among.
Authoring(requests, types, slugs, gates) ==
  \E r \in requests :
    \/ Drop(r)
    \/ \E i \in Items, slug \in slugs, gate \in gates :
         \/ \E type \in types : Create(r, i, type, slug, gate, TRUE) \/ Create(r, i, type, slug, gate, FALSE)
         \/ \E action \in {"publish", "unpublish", "archive", "save"} : SaveEdit(r, action, slug, gate)
    \/ \E i \in Items : BeginEdit(r, i) \/ Delete(i)

Blocks(requests, gates) ==
  \E r \in requests :
    \/ SaveArrange(r) \/ Drop(r)
    \/ \E gate \in gates, slug \in Slugs \union {NoSlug} : SaveEdit(r, "publish", slug, gate)
    \/ \E i \in Items : \/ BeginBlock(r, i) \/ Delete(i)
                        \/ IsChild(i) /\ BeginEdit(r, i)
                        \/ \E delta \in {-1, 1} : BeginArrange(r, i, delta)
                        \/ \E type \in Types, slug \in Slugs \union {NoSlug} : SaveBlock(r, i, type, slug)

Sections(requests, types, gates, teases) ==
  \E r \in requests :
    \/ BeginSettings(r) \/ Drop(r)
    \/ \E teasers \in BOOLEAN : SaveTeasers(r, teasers)
    \/ \E t \in types, enabled \in {"on", "off"}, gate \in gates, tease \in teases :
         SaveType(r, t, enabled, gate, tease)

ContentNext ==
  \/ Authoring(Requests, Types, Slugs \union {NoSlug}, Gates)
  \/ Blocks(Requests, Gates)
  \/ Sections(Requests, Types, Gates, {"unset", "yes", "no"})

ContentSpec ==
  /\ TiersInit /\ ContentInit
  /\ [][ \/ TiersNext /\ UNCHANGED works
         \/ ContentNext /\ UNCHANGED ladder ]_<<ladder, works>>

-----------------------------------------------------------------------------
(* Properties *)

\* The tables hold rows of their type, ranks stay within the ladder, every gate is one the organization
\* knows, and a block sits one level deep in an item that is there.
ContentOK ==
  /\ LadderOK
  /\ item \in [Items -> [there : BOOLEAN, type : Types, slug : Slugs \union {NoSlug},
                         parent : Items \union {NoItem}, position : 0..MaxItems, gate : Gates,
                         status : {"draft", "published", "archived"}, stamp : 0..MaxStamp]]
  /\ setting \in [teasers : BOOLEAN,
                  types : [Types -> [enabled : {"unset", "on", "off"}, gate : Gates,
                                     tease : {"unset", "yes", "no"}]]]
  /\ \A i \in Present : IsChild(i) => item[i].parent \in Present /\ ~IsChild(item[i].parent)

\* A request that had the settings to itself keeps every setting but the one it
\* was asked to change: a section one administrator closed is not opened by the
\* next save of another.
SettingsKept ==
  [][\A r \in Requests :
       (setting' # setting /\ editing[r].at = "settings" /\ editing'[r].at = "idle" /\ editing[r].alone) =>
         \/ /\ setting'.teasers = setting.teasers
            /\ \E t \in Types : \A s \in Types \ {t} : setting'.types[s] = setting.types[s]
         \/ setting'.types = setting.types]_works
=============================================================================
