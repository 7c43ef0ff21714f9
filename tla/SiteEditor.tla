------------------------------ MODULE SiteEditor ------------------------------
(***************************************************************************)
(* The editor of a creator's mini-site (dashboard/site/page.tsx and        *)
(* lib/api/site.ts).  The whole site is loaded, edited and put back at     *)
(* once, so a content is a number: everything that is typed makes a new    *)
(* one.                                                                    *)
(***************************************************************************)
EXTENDS Browser

CONSTANTS
  MaxTyped,      \* bound: contents
  MaxSiteVisits  \* bound: how often the page is visited

ASSUME SiteBounds == MaxTyped \in Nat /\ MaxSiteVisits \in Nat

VARIABLES
  editor,   \* the state of the page
  site,     \* the content that is stored
  typed,    \* the content that was typed last
  mounts,   \* visits of the page
  bypassed  \* history: the site was changed and the page of this visit not told

siteVars == <<editor, site, typed, mounts, bypassed, calls>>

Editor == [phase : {"away", "loading", "ready", "error"}, content : Nat, snapshot : Nat,
           edit : BOOLEAN, saving : BOOLEAN]
Unloaded == [phase |-> "away", content |-> 0, snapshot |-> 0, edit |-> FALSE, saving |-> FALSE]

SiteInit ==
  /\ editor = Unloaded
  /\ site = 0
  /\ typed = 0
  /\ mounts = 0
  /\ bypassed = FALSE
  /\ calls = Forgotten

-----------------------------------------------------------------------------
(* The page. *)

(* A visit loads the site; the calls of the last visit go on.              *)
Visit ==
  /\ mounts < MaxSiteVisits
  /\ Free # {}
  /\ mounts' = mounts + 1
  /\ editor' = [Unloaded EXCEPT !.phase = "loading"]
  /\ LET s == CHOOSE s \in Free : TRUE
     IN calls' = [Orphaned EXCEPT ![s] = Asked("load", 0, None)[s]]
  /\ bypassed' = FALSE
  /\ UNCHANGED <<site, typed>>

ShowSite(s, new) == editor' = IF calls[s].here THEN new ELSE editor

TakeSite(s) ==
  /\ \/ /\ At(s, "load", "answered")
        /\ ShowSite(s, [editor EXCEPT !.phase = "ready", !.content = calls[s].seen,
                                      !.snapshot = calls[s].seen])
     \/ At(s, "load", "error") /\ ShowSite(s, [editor EXCEPT !.phase = "error"])
  /\ calls' = Taken(s)
  /\ UNCHANGED <<site, typed, mounts, bypassed>>

EditSite ==
  /\ editor.phase = "ready" /\ ~editor.edit
  /\ editor' = [editor EXCEPT !.edit = TRUE]
  /\ UNCHANGED <<site, typed, mounts, bypassed, calls>>

(* The fields are open as long as the page is in edit mode, also while it  *)
(* saves.                                                                  *)
Type ==
  /\ editor.edit
  /\ typed < MaxTyped
  /\ typed' = typed + 1
  /\ editor' = [editor EXCEPT !.content = typed + 1]
  /\ UNCHANGED <<site, mounts, bypassed, calls>>

SaveSite ==
  /\ editor.edit /\ ~editor.saving
  /\ Free # {}
  /\ editor' = [editor EXCEPT !.saving = TRUE]
  /\ calls' = Asked("put", editor.content, None)
  /\ UNCHANGED <<site, typed, mounts, bypassed>>

(* Slip: the button is not disabled while the page saves. *)
CancelAnytime ==
  /\ editor.edit
  /\ editor' = [editor EXCEPT !.content = editor.snapshot, !.edit = FALSE]
  /\ UNCHANGED <<site, typed, mounts, bypassed, calls>>

CancelEdit ==
  /\ editor.edit /\ ~editor.saving
  /\ editor' = [editor EXCEPT !.content = editor.snapshot, !.edit = FALSE]
  /\ UNCHANGED <<site, typed, mounts, bypassed, calls>>

(* The answer takes the place of what the fields hold by now. *)
TakeSavedSite(s) ==
  /\ \/ /\ At(s, "put", "answered")
        /\ ShowSite(s, [editor EXCEPT !.content = calls[s].seen, !.snapshot = calls[s].seen,
                                      !.edit = FALSE, !.saving = FALSE])
     \/ At(s, "put", "error") /\ ShowSite(s, [editor EXCEPT !.saving = FALSE])
  /\ calls' = Taken(s)
  /\ UNCHANGED <<site, typed, mounts, bypassed>>

-----------------------------------------------------------------------------
(* The server, and another tab. *)

ReadSite(s) ==
  /\ At(s, "load", "sent")
  /\ calls' = Answered(s, 0, site)
  /\ UNCHANGED <<editor, site, typed, mounts, bypassed>>

PutSite(s) ==
  /\ At(s, "put", "sent")
  /\ site' = calls[s].id
  /\ calls' = Answered(s, calls[s].id, calls[s].id)
  /\ bypassed' = (bypassed \/ ~calls[s].here)
  /\ UNCHANGED <<editor, typed, mounts>>

PutElsewhere ==
  /\ typed < MaxTyped
  /\ typed' = typed + 1
  /\ site' = typed + 1
  /\ bypassed' = TRUE
  /\ UNCHANGED <<editor, mounts, calls>>

(* An error, before or after the server did its work. *)
SiteCallFails(s) ==
  /\ CanBreak(s)
  /\ calls' = Broken(s)
  /\ bypassed' = (bypassed \/ At(s, "put", "answered"))
  /\ UNCHANGED <<editor, site, typed, mounts>>

SiteNext ==
  \/ Visit \/ EditSite \/ Type \/ SaveSite \/ CancelEdit \/ PutElsewhere
  \/ \E s \in Slots : TakeSite(s) \/ TakeSavedSite(s) \/ ReadSite(s) \/ PutSite(s)
                      \/ SiteCallFails(s)

SiteSpec == SiteInit /\ [][SiteNext]_siteVars

-----------------------------------------------------------------------------
(* Properties. *)

(* Every variable has its type. *)
SiteTypeOK ==
  /\ editor \in Editor
  /\ {site, typed, editor.content, editor.snapshot} \subseteq 0 .. MaxTyped
  /\ mounts \in 0 .. MaxSiteVisits
  /\ bypassed \in BOOLEAN

(* Out of edit mode the editor shows the site that is stored, after loads, *)
(* saves, refusals and cancelled edits: unless another page has changed    *)
(* the site, or an answer was lost of a change that was made.              *)
EditorShowsStored ==
  editor.phase = "ready" /\ ~editor.edit /\ ~bypassed => editor.content = site
=============================================================================
