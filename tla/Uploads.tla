------------------------------ MODULE Uploads -------------------------------
(***************************************************************************)
(* Uploaded files of one organization (app/models/upload.py,               *)
(* platform/storage.py, serve_upload of site.py, the media and branding    *)
(* routes of controllers/manage.py).  A file is on the data volume, what   *)
(* is known of it in a row, its use as the logo in the settings: three     *)
(* places that no commit spans.                                            *)
(***************************************************************************)
EXTENDS Naturals, FiniteSets

CONSTANTS
  Pictures,     \* uploads that may be made, each under a random key
  Variants,     \* names of the scaled variants
  Uploaders,    \* requests that may be under way at the same time
  NoPicture     \* no upload

VARIABLES
  files,        \* <<u, v>>: variant v of u is on the volume
  upload,       \* upload[u]: its row
  logo,         \* logo_upload_id of the settings
  filing,       \* filing[c]: what request c is about, and what it has read
  doomed        \* uploads a delete has begun on (history)

storing == <<files, upload, logo, filing, doomed>>

NoUpload == [there |-> FALSE, variants |-> FALSE, public |-> TRUE]
Unfiled == [at |-> "idle", of |-> NoPicture, seen |-> NoUpload]

UploadsInit ==
  /\ files = {}
  /\ upload = [u \in Pictures |-> NoUpload]
  /\ logo = NoPicture
  /\ filing = [c \in Uploaders |-> Unfiled]
  /\ doomed = {}

File(c, started) ==
  /\ filing[c].at = "idle"
  /\ filing' = [filing EXCEPT ![c] = started]
Proceed(c, place) == filing' = [filing EXCEPT ![c].at = place]
EndFiling(c) == filing' = [filing EXCEPT ![c] = Unfiled]

-----------------------------------------------------------------------------
(* Serving *)

\* serve_upload: what is not public is for who is inside; a row without variants
\* has its original in their place.
KeyFor(row, v) == IF row.variants THEN v ELSE "original"
Answers(inside, u, v) ==
  /\ upload[u].there
  /\ upload[u].public \/ inside
  /\ <<u, KeyFor(upload[u], v)>> \in files

-----------------------------------------------------------------------------
(* Uploading *)

\* from_file: what is not an image, or too large to open, is refused; the
\* original is cleaned and written.
BeginUpload(c, u) ==
  /\ ~upload[u].there /\ u \notin doomed
  /\ \A v \in Variants \union {"original"} : <<u, v>> \notin files
  /\ File(c, [Unfiled EXCEPT !.at = "stored", !.of = u])
  /\ files' = files \union {<<u, "original">>}
  /\ UNCHANGED <<upload, logo, doomed>>

SaveUpload(c, public) ==
  LET u == filing[c].of
  IN /\ filing[c].at = "stored"
     /\ upload' = [upload EXCEPT ![u] = [NoUpload EXCEPT !.there = TRUE, !.public = public]]
     /\ Proceed(c, "variants")
     /\ UNCHANGED <<files, logo, doomed>>

\* make_variants: each is written when it is ready.
MakeVariant(c, v) ==
  /\ filing[c].at = "variants" /\ <<filing[c].of, v>> \notin files
  /\ files' = files \union {<<filing[c].of, v>>}
  /\ UNCHANGED <<upload, logo, filing, doomed>>

\* Fault: the row says it has variants when the first has been made.
MadeSome(u) == \E v \in Variants : <<u, v>> \in files

Made(u) == \A v \in Variants : <<u, v>> \in files

\* has_variants, and the commit; of a row deleted since there is none.
SaveVariants(c) ==
  LET u == filing[c].of
  IN /\ filing[c].at = "variants" /\ upload[u].there
     /\ Made(u)
     /\ upload' = [upload EXCEPT ![u].variants = TRUE]
     /\ EndFiling(c)
     /\ UNCHANGED <<files, logo, doomed>>

\* A variant that cannot be made (the upload stands without them), a kind of
\* file that has none, a failed commit, or the end of the process.
Break(c) ==
  /\ filing[c].at # "idle"
  /\ EndFiling(c)
  /\ UNCHANGED <<files, upload, logo, doomed>>

\* update_media: one column of a row, and nothing about its files.
UpdateMedia(u) ==
  /\ upload[u].there
  /\ upload' = [upload EXCEPT ![u].public = ~@]
  /\ UNCHANGED <<files, logo, filing, doomed>>

-----------------------------------------------------------------------------
(* The logo *)

\* branding: an upload that is there, and public; the settings follow.
BeginLogo(c, u) ==
  /\ upload[u].there /\ upload[u].public
  /\ File(c, [Unfiled EXCEPT !.at = "logo", !.of = u])
  /\ UNCHANGED <<files, upload, logo, doomed>>

SaveLogo(c) ==
  /\ filing[c].at = "logo"
  /\ logo' = filing[c].of
  /\ EndFiling(c)
  /\ UNCHANGED <<files, upload, doomed>>

-----------------------------------------------------------------------------
(* Deleting *)

\* delete_media: the settings are only written if they name the upload.
BeginDelete(c, u) ==
  /\ upload[u].there
  /\ File(c, [Unfiled EXCEPT !.at = IF logo = u THEN "unset" ELSE "purge", !.of = u, !.seen = upload[u]])
  /\ UNCHANGED <<files, upload, logo, doomed>>

ClearLogo(c) ==
  /\ filing[c].at = "unset"
  /\ logo' = NoPicture
  /\ Proceed(c, "purge")
  /\ UNCHANGED <<files, upload, doomed>>

\* purge_files: the original, then the variants the row was loaded with.
PurgeOriginal(c) ==
  /\ filing[c].at = "purge"
  /\ files' = files \ {<<filing[c].of, "original">>}
  /\ doomed' = doomed \union {filing[c].of}
  /\ Proceed(c, IF filing[c].seen.variants THEN "purging" ELSE "drop")
  /\ UNCHANGED <<upload, logo>>

PurgeVariant(c, v) ==
  /\ filing[c].at = "purging"
  /\ files' = files \ {<<filing[c].of, v>>}
  /\ Proceed(c, IF \A w \in Variants \ {v} : <<filing[c].of, w>> \notin files THEN "drop" ELSE "purging")
  /\ UNCHANGED <<upload, logo, doomed>>

\* The row goes last: while it is there the delete can be repeated.
DropUpload(c) ==
  /\ filing[c].at = "drop" /\ upload[filing[c].of].there
  /\ upload' = [upload EXCEPT ![filing[c].of] = NoUpload]
  /\ EndFiling(c)
  /\ UNCHANGED <<files, logo, doomed>>

UploadsNext ==
  \/ \E c \in Uploaders :
       \/ SaveVariants(c) \/ Break(c) \/ SaveLogo(c) \/ ClearLogo(c) \/ PurgeOriginal(c) \/ DropUpload(c)
       \/ \E public \in BOOLEAN : SaveUpload(c, public)
       \/ \E v \in Variants : MakeVariant(c, v) \/ PurgeVariant(c, v)
       \/ \E u \in Pictures : BeginUpload(c, u) \/ BeginLogo(c, u) \/ BeginDelete(c, u)
  \/ \E u \in Pictures : UpdateMedia(u)

UploadsSpec == UploadsInit /\ [][UploadsNext]_storing

-----------------------------------------------------------------------------
(* Properties *)

\* Whatever address a page has for a file (the original or a variant) answers
\* whom the row admits, until somebody deletes the upload: also while variants are
\* made, when they cannot be, after a crash anywhere, and for everybody where the
\* page is public and the file its logo (Organization.logo asks again).
FilesBehindRows ==
  \A u \in Pictures : upload[u].there /\ u \notin doomed =>
    \A inside \in BOOLEAN, v \in Variants \union {"original"} :
      upload[u].public \/ inside => Answers(inside, u, v)
=============================================================================
