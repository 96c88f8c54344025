----------------------------- MODULE Backgrounds -----------------------------
(***************************************************************************)
(* The image behind the slides: uploaded when it is chosen for the theme,  *)
(* kept on the device, and looked up again by the audience screen each time*)
(* the state changes (crates/web/src/present/background.rs, theme.rs,      *)
(* audience.rs, crates/api/src/handlers/files.rs).                         *)
(*                                                                         *)
(* An image is its hash.  The workspace's theme is one row, seen by every  *)
(* device at once (its replication is module Sync).                        *)
(***************************************************************************)
EXTENDS Naturals, Sequences, FiniteSets

CONSTANTS
  Laptops, Images,
  MaxUploads, MaxPaints, MaxCuts  \* bounds: images chosen, look-ups begun, networks lost

VARIABLES
  stored,   \* images in the bucket
  kept,     \* images in each device's `files`
  online,
  theme,    \* of each device's session: an image, or Colour
  row,      \* the theme of the workspace
  uploads,  \* the calls of `upload`, as they were made
  shown,    \* the image on each audience screen, or Colour
  lookups,  \* the calls of `url_of`, as they were made
  cuts,
  overtaken \* history: look-ups begun while another of that screen was under way

imageVars == <<stored, kept, online, theme, row, uploads, shown, lookups, cuts, overtaken>>

Colour == "colour"

BackgroundsInit ==
  /\ stored = {} /\ kept = [d \in Laptops |-> {}] /\ online = [d \in Laptops |-> TRUE]
  /\ theme = [d \in Laptops |-> Colour] /\ row = Colour
  /\ uploads = <<>> /\ shown = [d \in Laptops |-> Colour] /\ lookups = <<>>
  /\ cuts = 0 /\ overtaken = {}

Waiting(d) == {n \in DOMAIN lookups : lookups[n].on = d /\ lookups[n].at # "done"}

(* A new state reaches the audience screen: the effect of AudiencePage.    *)
Changed(d, next) ==
  /\ theme' = [theme EXCEPT ![d] = next]
  /\ IF next = Colour
     THEN /\ shown' = [shown EXCEPT ![d] = Colour]
          /\ overtaken' = IF Waiting(d) = {} THEN overtaken \ {d} ELSE overtaken \cup {d}
          /\ UNCHANGED lookups
     ELSE /\ Len(lookups) < MaxPaints
          /\ lookups' = Append(lookups, [on |-> d, image |-> next, at |-> "read"])
          /\ overtaken' = IF \A n \in Waiting(d) : lookups[n].image = next
                          THEN IF Waiting(d) = {} THEN overtaken \ {d} ELSE overtaken
                          ELSE overtaken \cup {d}
          /\ UNCHANGED shown

ChooseImage(d, image) ==
  /\ Len(uploads) < MaxUploads
  /\ uploads' = Append(uploads, [by |-> d, image |-> image, at |-> "plan", fresh |-> TRUE])
  /\ UNCHANGED <<stored, kept, online, theme, row, shown, lookups, cuts, overtaken>>

Moves(u, at) == uploads' = [uploads EXCEPT ![u].at = at]

(* `asset_upload_url`: bytes that are there are not sent again.            *)
Plan(u) ==
  /\ uploads[u].at = "plan" /\ online[uploads[u].by]
  /\ uploads' = IF uploads[u].image \in stored
                THEN [uploads EXCEPT ![u].at = "complete", ![u].fresh = FALSE]
                ELSE [uploads EXCEPT ![u].at = "put"]
  /\ UNCHANGED <<stored, kept, online, theme, row, shown, lookups, cuts, overtaken>>

\* mutant: the theme has the image once it was sent
PutAndKeep(u) ==
  /\ uploads[u].at = "put" /\ online[uploads[u].by] /\ Moves(u, "keep")
  /\ UNCHANGED <<stored, kept, online, theme, row, shown, lookups, cuts, overtaken>>

Put(u) ==
  /\ uploads[u].at = "put" /\ online[uploads[u].by] /\ Moves(u, "complete")
  /\ UNCHANGED <<stored, kept, online, theme, row, shown, lookups, cuts, overtaken>>

(* `asset_complete` puts the part together and looks for the object.       *)
Complete(u) ==
  /\ uploads[u].at = "complete" /\ online[uploads[u].by]
  /\ stored' = IF uploads[u].fresh THEN stored \cup {uploads[u].image} ELSE stored
  /\ uploads[u].image \in stored'
  /\ Moves(u, "keep")
  /\ UNCHANGED <<kept, online, theme, row, shown, lookups, cuts, overtaken>>

(* Any call may fail, after the server has done its part too; then the     *)
(* drawer says so, and the theme is as it was.                             *)
Fail(u) ==
  /\ uploads[u].at \in {"plan", "put", "complete", "keep"} /\ ~online[uploads[u].by]
  /\ uploads' = [uploads EXCEPT ![u].at = "failed"]
  /\ UNCHANGED <<stored, kept, online, theme, row, shown, lookups, cuts, overtaken>>

(* The device keeps the bytes, if it has room, and the theme has the image.*)
Keep(u) ==
  /\ uploads[u].at = "keep" /\ Moves(u, "done")
  /\ kept' \in {kept, [kept EXCEPT ![uploads[u].by] = @ \cup {uploads[u].image}]}
  /\ Changed(uploads[u].by, uploads[u].image)
  /\ UNCHANGED <<stored, online, row, cuts>>

PickColour(d) ==
  /\ theme[d] # Colour /\ Changed(d, Colour)
  /\ UNCHANGED <<stored, kept, online, row, uploads, cuts>>

SaveToWorkspace(d) ==
  /\ row # theme[d] /\ row' = theme[d]
  /\ UNCHANGED <<stored, kept, online, theme, uploads, shown, lookups, cuts, overtaken>>

UseWorkspaceTheme(d) ==
  /\ theme[d] # row /\ Changed(d, row)
  /\ UNCHANGED <<stored, kept, online, row, uploads, cuts>>

(* The next slide, or anything else of the session.                        *)
Advance(d) ==
  /\ theme[d] # Colour /\ Changed(d, theme[d])
  /\ UNCHANGED <<stored, kept, online, row, uploads, cuts>>

Paints(n, image) ==
  /\ shown' = [shown EXCEPT ![lookups[n].on] = image]
  /\ lookups' = [lookups EXCEPT ![n].at = "done"]

(* `url_of` reads the device's own copy; these reads end in their order.   *)
ReadCopy(n) ==
  /\ lookups[n].at = "read"
  /\ \A m \in Waiting(lookups[n].on) : lookups[m].at = "read" => n <= m
  /\ IF lookups[n].image \in kept[lookups[n].on]
     THEN Paints(n, lookups[n].image)
     ELSE lookups' = [lookups EXCEPT ![n].at = "fetch"] /\ UNCHANGED shown
  /\ UNCHANGED <<stored, kept, online, theme, row, uploads, cuts, overtaken>>

(* Else it asks for the file and keeps it; without it the colour shows.    *)
Fetch(n) ==
  /\ lookups[n].at = "fetch"
  /\ IF online[lookups[n].on] /\ lookups[n].image \in stored
     THEN /\ Paints(n, lookups[n].image)
          /\ kept' \in {kept, [kept EXCEPT ![lookups[n].on] = @ \cup {lookups[n].image}]}
     ELSE Paints(n, Colour) /\ UNCHANGED kept
  /\ UNCHANGED <<stored, online, theme, row, uploads, cuts, overtaken>>

Cut(d) ==
  /\ cuts < MaxCuts /\ cuts' = cuts + 1
  /\ online' = [online EXCEPT ![d] = ~@]
  /\ UNCHANGED <<stored, kept, theme, row, uploads, shown, lookups, overtaken>>

BackgroundsNext ==
  \/ \E d \in Laptops :
       \/ \E image \in Images : ChooseImage(d, image)
       \/ PickColour(d) \/ SaveToWorkspace(d) \/ UseWorkspaceTheme(d) \/ Advance(d) \/ Cut(d)
  \/ \E u \in DOMAIN uploads : Plan(u) \/ Put(u) \/ Complete(u) \/ Fail(u) \/ Keep(u)
  \/ \E n \in DOMAIN lookups : ReadCopy(n) \/ Fetch(n)

BackgroundsSpec == BackgroundsInit /\ [][BackgroundsNext]_imageVars

-----------------------------------------------------------------------------

(***************************************************************************)
(* An image that a theme names can be had: it is in the bucket before the  *)
(* theme of a session or of the workspace has it, whoever else uploads it  *)
(* and whatever fails on the way.  (background.rs, `upload`.)              *)
(***************************************************************************)
ImagesCanBeHad == (({theme[d] : d \in Laptops} \cup {row}) \ {Colour}) \subseteq stored

(***************************************************************************)
(* Once a screen has looked everything up it shows what the theme says, or *)
(* its colour if the device has no copy (audience.rs:119).  Not after a    *)
(* look-up was overtaken by another or by a colour: the last to end wins,  *)
(* until the next change.                                                  *)
(***************************************************************************)
ScreenShowsTheTheme ==
  \A d \in Laptops : Waiting(d) = {} /\ d \notin overtaken =>
    shown[d] = theme[d] \/ (shown[d] = Colour /\ theme[d] # Colour)

(***************************************************************************)
(* An image can be had as soon as a theme names it, and the screen shows   *)
(* the theme's (background.rs `upload`, audience.rs:119).                  *)
(***************************************************************************)
ImagesFollowTheTheme == ImagesCanBeHad /\ ScreenShowsTheTheme
=============================================================================
