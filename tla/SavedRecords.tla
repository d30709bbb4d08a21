---------------------------- MODULE SavedRecords ----------------------------
(***************************************************************************)
(* What the members of one organization keep beside its logs: saved views, *)
(* dashboards (viewapp, viewbus), permalinks, and annotations              *)
(* (annotationapp, annotationbus). All four decide access the same way:    *)
(* the request first learns who is asking (the caller's role, then the     *)
(* projects he may read), then reads the record, then answers or writes,   *)
(* in statements other requests run between.                               *)
(*                                                                         *)
(* Names, queries, panels and texts are left out; a body that fails their  *)
(* validation is a Decline.                                                *)
(***************************************************************************)
EXTENDS Naturals

CONSTANTS
    People,       \* members of the organization
    SuperUsers,   \* those whose token carries the SUPER ADMIN role
    OrgProjects,  \* its projects
    NoPin,        \* a NULL project_id
    Records,      \* the ids uuid.New returns
    Visits,       \* requests served at once
    MaxChanges    \* bound on the changes of roles, access and projects

ASSUME SavedRecordsAssumption == SuperUsers \subseteq People /\ NoPin \notin OrgProjects /\ MaxChanges \in Nat

VARIABLES
    saved,      \* the four tables
    orgAdmins,  \* the members with the ORG ADMIN role
    readers,    \* <<person, project>> pairs of project access
    standing,   \* projects not deleted
    changes,    \* changes made
    visit,      \* the requests
    answer,     \* the response the last step sent, and the request it ends
    wasShared   \* history: ids of records the organization has had access to

orgVars   == <<orgAdmins, readers, standing, changes>>
savedVars == <<saved, orgVars, visit, answer, wasShared>>

Kinds == {"view", "dashboard", "link", "note"}

\* The rows of saved_views, dashboards, permalinks and log_annotations.
SavedView(p, pin, vis) == [kind |-> "view", by |-> p, pin |-> pin, vis |-> vis]
Dashboard(p, vis)      == [kind |-> "dashboard", by |-> p, pin |-> NoPin, vis |-> vis]
Permalink(p, pin)      == [kind |-> "link", by |-> p, pin |-> pin, vis |-> "org"]
Annotation(p, pin)     == [kind |-> "note", by |-> p, pin |-> pin, vis |-> "org"]

Unsaved(state) == [kind |-> state, by |-> CHOOSE p \in People : TRUE, pin |-> NoPin, vis |-> "org"]

\* ParseVisibility: empty means "org"
ParseVisibility == {"private", "org"}

IdleVisit ==
    [pc |-> "idle", kind |-> "view", who |-> CHOOSE p \in People : TRUE, admin |-> FALSE,
     sees |-> {}, rows |-> {}, could |-> {}, ruled |-> FALSE]

\* rows is the copy a handler holds between reading and writing; could and ruled are
\* history: what the caller might have read, and whether he was an admin, at some
\* moment of the request.
Silent == [to |-> IdleVisit, copies |-> {}, wrote |-> FALSE]

SavedRecordsInit ==
    /\ saved = [id \in Records |-> Unsaved("free")]
    /\ orgAdmins \in SUBSET People
    /\ readers \in SUBSET (People \X OrgProjects)
    /\ standing = OrgProjects
    /\ changes = 0
    /\ visit = [v \in Visits |-> IdleVisit]
    /\ answer = Silent
    /\ wasShared = {}
-----------------------------------------------------------------------------
(* Who is asking. *)

Rules(p, admins) == p \in SuperUsers \cup admins

\* QueryByOrg for an admin, QueryVisibleByOrg for the others
VisibleProjects(p, admin, pairs) == {x \in standing : admin \/ <<p, x>> \in pairs}

\* What a request may do, had it asked now.
Witness(c, admins, pairs) ==
    IF c.pc = "idle" THEN c
    ELSE [c EXCEPT !.could = c.could \cup VisibleProjects(c.who, Rules(c.who, admins), pairs),
                   !.ruled = c.ruled \/ Rules(c.who, admins)]

Arrive(v, p, kind) ==
    /\ visit[v].pc = "idle"
    /\ visit' = [visit EXCEPT ![v] =
                    Witness([IdleVisit EXCEPT !.pc = "role", !.kind = kind, !.who = p], orgAdmins, readers)]
    /\ answer' = Silent
    /\ UNCHANGED <<saved, orgVars, wasShared>>

\* The routes of viewapp, and those of annotationapp, behind AuthorizeOrgMember.
OrgAndViewer(v, p) == \E kind \in {"view", "dashboard", "link"} : Arrive(v, p, kind)
Resolve(v, p)      == Arrive(v, p, "note")

ReadRole(v) ==
    /\ visit[v].pc = "role"
    /\ visit' = [visit EXCEPT ![v].pc = "projects", ![v].admin = Rules(visit[v].who, orgAdmins)]
    /\ answer' = Silent
    /\ UNCHANGED <<saved, orgVars, wasShared>>

Viewer(v) ==
    /\ visit[v].pc = "projects"
    /\ visit' = [visit EXCEPT ![v].pc = "known",
                              ![v].sees = VisibleProjects(visit[v].who, visit[v].admin, readers)]
    /\ answer' = Silent
    /\ UNCHANGED <<saved, orgVars, wasShared>>

\* An error of a query, a body that does not validate, a record that is not found
\* or may not be changed: nothing is written and nothing shown.
Decline(v) ==
    /\ visit[v].pc # "idle"
    /\ visit' = [visit EXCEPT ![v] = IdleVisit]
    /\ answer' = Silent
    /\ UNCHANGED <<saved, orgVars, wasShared>>
-----------------------------------------------------------------------------
(* The access rules. *)

Sees(c, row) == row.pin = NoPin \/ row.pin \in c.sees

\* A bug: an admin sees what is private to somebody else.
CanSeeViewAdmin(c, row) == (row.vis = "private" => row.by = c.who \/ c.admin) /\ Sees(c, row)

CanSeeView(c, row)      == (row.vis = "private" => row.by = c.who) /\ Sees(c, row)
CanSeeDashboard(c, row) == row.vis # "private" \/ row.by = c.who
CanSeePermalink(c, row) == Sees(c, row)
CanSeeNote(c, row)      == row.pin \in c.sees

CanModify(c, row)     == row.by = c.who \/ (c.admin /\ row.vis # "private")
CanModifyNote(c, row) == row.by = c.who \/ c.admin

\* parsePin, and the project of a new permalink
ParsePin(c)    == c.sees \cup {NoPin}
LinkTarget(c)  == c.sees \cup {NoPin}
-----------------------------------------------------------------------------
(* The statements on the tables. *)

Rows(kind) == {id \in Records : saved[id].kind = kind}

SelectViewByID(id)      == id \in Rows("view")
SelectViewsByOrg        == Rows("view")
SelectDashboardByID(id) == id \in Rows("dashboard")
SelectDashboardsByOrg   == Rows("dashboard")
SelectPermalinkBySlug(id) == id \in Rows("link")
SelectPermalinksByOrg   == Rows("link")
SelectNoteByID(id)      == id \in Rows("note")
SelectNotes(projects)   == {id \in Rows("note") : saved[id].pin \in projects}

\* project_id references projects
Referenced(pin) == pin \in standing \cup {NoPin}

Insert(id, row) ==
    /\ saved[id].kind = "free" /\ Referenced(row.pin)
    /\ saved' = [saved EXCEPT ![id] = row]
    /\ wasShared' = IF row.vis = "org" THEN wasShared \cup {id} ELSE wasShared
    /\ UNCHANGED orgVars

InsertView(id, row)      == Insert(id, row)
InsertDashboard(id, row) == Insert(id, row)
InsertNote(id, row)      == Insert(id, row)
\* the unique index on the slug; a taken slug is drawn again
InsertPermalink(id, row) == Insert(id, row)

\* An update writes its whole copy of the row; of a row that is gone, nothing.
Overwrite(id, row) ==
    /\ IF saved[id].kind = row.kind
       THEN /\ Referenced(row.pin)
            /\ saved' = [saved EXCEPT ![id] = row]
            /\ wasShared' = IF row.vis = "org" THEN wasShared \cup {id} ELSE wasShared
       ELSE UNCHANGED <<saved, wasShared>>
    /\ UNCHANGED orgVars

WriteView(id, row)      == Overwrite(id, row)
WriteDashboard(id, row) == Overwrite(id, row)
\* only the text and its time
WriteNote(id, row)      == UNCHANGED <<saved, orgVars, wasShared>>

RemoveRecord(id) ==
    /\ saved' = [saved EXCEPT ![id] = Unsaved("gone")]
    /\ UNCHANGED <<orgVars, wasShared>>

RemoveView(id)      == RemoveRecord(id)
RemoveDashboard(id) == RemoveRecord(id)
RemovePermalink(id) == RemoveRecord(id)
RemoveNote(id)      == RemoveRecord(id)
-----------------------------------------------------------------------------
(* The answers. *)

Copy(id) == [id |-> id, row |-> saved[id]]

Respond(v, copies, wrote) ==
    /\ visit' = [visit EXCEPT ![v] = IdleVisit]
    /\ answer' = [to |-> visit[v], copies |-> copies, wrote |-> wrote]

Answer(v, copies) ==
    /\ Respond(v, copies, FALSE)
    /\ UNCHANGED <<saved, orgVars, wasShared>>

Asks(v, kind) == visit[v].pc = "known" /\ visit[v].kind = kind

VisibleViews(c)      == {id \in SelectViewsByOrg : CanSeeView(c, saved[id])}
VisibleDashboards(c) == {id \in SelectDashboardsByOrg : CanSeeDashboard(c, saved[id])}
VisiblePermalinks(c) == {id \in SelectPermalinksByOrg : CanSeePermalink(c, saved[id])}
\* No project given reads every project the caller sees; an empty set reads nothing.
NoteFilters(c)       == {c.sees} \cup {{x} : x \in c.sees}

QueryViews(v)      == Asks(v, "view") /\ Answer(v, {Copy(id) : id \in VisibleViews(visit[v])})
QueryDashboards(v) == Asks(v, "dashboard") /\ Answer(v, {Copy(id) : id \in VisibleDashboards(visit[v])})
QueryPermalinks(v) == Asks(v, "link") /\ Answer(v, {Copy(id) : id \in VisiblePermalinks(visit[v])})
QueryNotes(v) ==
    /\ Asks(v, "note")
    /\ \E ps \in NoteFilters(visit[v]) : Answer(v, {Copy(id) : id \in SelectNotes(ps)})

QueryViewByID(v, id) ==
    /\ Asks(v, "view") /\ SelectViewByID(id) /\ CanSeeView(visit[v], saved[id])
    /\ Answer(v, {Copy(id)})

QueryDashboardByID(v, id) ==
    /\ Asks(v, "dashboard") /\ SelectDashboardByID(id) /\ CanSeeDashboard(visit[v], saved[id])
    /\ Answer(v, {Copy(id)})

QueryPermalink(v, id) ==
    /\ Asks(v, "link") /\ SelectPermalinkBySlug(id) /\ CanSeePermalink(visit[v], saved[id])
    /\ Answer(v, {Copy(id)})

Finish(v, id, row) == Respond(v, {[id |-> id, row |-> row]}, TRUE)

\* CreateView, CreateDashboard, CreatePermalink and Create of the business layer: the
\* row is the caller's own. A permalink and a note have no visibility of their own,
\* and a note always has a project.
NewViews(c)      == {SavedView(c.who, pin, vis) : pin \in ParsePin(c), vis \in ParseVisibility}
NewDashboards(c) == {Dashboard(c.who, vis) : vis \in ParseVisibility}
NewPermalinks(c) == {Permalink(c.who, pin) : pin \in LinkTarget(c)}
NewNotes(c)      == {Annotation(c.who, pin) : pin \in c.sees}

CreateView(v, id) ==
    /\ Asks(v, "view")
    /\ \E row \in NewViews(visit[v]) : InsertView(id, row) /\ Finish(v, id, row)

CreateDashboard(v, id) ==
    /\ Asks(v, "dashboard")
    /\ \E row \in NewDashboards(visit[v]) : InsertDashboard(id, row) /\ Finish(v, id, row)

CreatePermalink(v, id) ==
    /\ Asks(v, "link")
    /\ \E row \in NewPermalinks(visit[v]) : InsertPermalink(id, row) /\ Finish(v, id, row)

CreateNote(v, id) ==
    /\ Asks(v, "note")
    /\ \E row \in NewNotes(visit[v]) : InsertNote(id, row) /\ Finish(v, id, row)

\* The handlers that change a record read it first and decide on the copy.
Load(v, id, next) ==
    /\ visit' = [visit EXCEPT ![v].pc = next, ![v].rows = {Copy(id)}]
    /\ answer' = Silent
    /\ UNCHANGED <<saved, orgVars, wasShared>>

LoadView(v, id, next) ==
    /\ Asks(v, "view") /\ SelectViewByID(id)
    /\ CanSeeView(visit[v], saved[id]) /\ CanModify(visit[v], saved[id])
    /\ Load(v, id, next)

LoadDashboard(v, id, next) ==
    /\ Asks(v, "dashboard") /\ SelectDashboardByID(id)
    /\ CanSeeDashboard(visit[v], saved[id]) /\ CanModify(visit[v], saved[id])
    /\ Load(v, id, next)

LoadNote(v, id, next) ==
    /\ Asks(v, "note") /\ SelectNoteByID(id)
    /\ CanSeeNote(visit[v], saved[id]) /\ CanModifyNote(visit[v], saved[id])
    /\ Load(v, id, next)

\* Revoking a link does not ask whether the caller may still read its project.
LoadPermalink(v, id) ==
    /\ Asks(v, "link") /\ SelectPermalinkBySlug(id)
    /\ CanModify(visit[v], saved[id])
    /\ Load(v, id, "delete")

Held(v, pc, kind) == visit[v].pc = pc /\ visit[v].kind = kind

\* The fields present in the body replace those of the copy.
ChangedViews(c, row) ==
    {SavedView(row.by, pin, vis) : pin \in {row.pin} \cup ParsePin(c), vis \in ParseVisibility}
ChangedDashboards(row) == {[row EXCEPT !.vis = vis] : vis \in ParseVisibility}

UpdateView(v) ==
    /\ Held(v, "update", "view")
    /\ \E held \in visit[v].rows : \E row \in ChangedViews(visit[v], held.row) :
          WriteView(held.id, row) /\ Finish(v, held.id, row)

UpdateDashboard(v) ==
    /\ Held(v, "update", "dashboard")
    /\ \E held \in visit[v].rows : \E row \in ChangedDashboards(held.row) :
          WriteDashboard(held.id, row) /\ Finish(v, held.id, row)

UpdateNote(v) ==
    /\ Held(v, "update", "note")
    /\ \E held \in visit[v].rows : WriteNote(held.id, held.row) /\ Finish(v, held.id, held.row)

DeleteView(v) ==
    /\ Held(v, "delete", "view")
    /\ \E held \in visit[v].rows : RemoveView(held.id) /\ Finish(v, held.id, held.row)

DeleteDashboard(v) ==
    /\ Held(v, "delete", "dashboard")
    /\ \E held \in visit[v].rows : RemoveDashboard(held.id) /\ Finish(v, held.id, held.row)

DeletePermalink(v) ==
    /\ Held(v, "delete", "link")
    /\ \E held \in visit[v].rows : RemovePermalink(held.id) /\ Finish(v, held.id, held.row)

DeleteNote(v) ==
    /\ Held(v, "delete", "note")
    /\ \E held \in visit[v].rows : RemoveNote(held.id) /\ Finish(v, held.id, held.row)
-----------------------------------------------------------------------------
(* The rest of the organization. *)

\* A member becomes or stops being an admin, gains or loses a project.
ChangeRole(p) ==
    /\ orgAdmins' = IF p \in orgAdmins THEN orgAdmins \ {p} ELSE orgAdmins \cup {p}
    /\ visit' = [v \in Visits |-> Witness(visit[v], orgAdmins', readers)]
    /\ answer' = Silent
    /\ UNCHANGED <<saved, readers, standing, wasShared>>

ChangeReader(p, x) ==
    /\ readers' = IF <<p, x>> \in readers THEN readers \ {<<p, x>>} ELSE readers \cup {<<p, x>>}
    /\ visit' = [v \in Visits |-> Witness(visit[v], orgAdmins, readers')]
    /\ answer' = Silent
    /\ UNCHANGED <<saved, orgAdmins, standing, wasShared>>

\* Deleting a project takes the records pinned to it along (ON DELETE CASCADE).
DropProject(x) ==
    /\ x \in standing
    /\ standing' = standing \ {x}
    /\ saved' = [id \in Records |-> IF saved[id].pin = x THEN Unsaved("gone") ELSE saved[id]]
    /\ answer' = Silent
    /\ UNCHANGED <<orgAdmins, readers, visit, wasShared>>

ViewRequest(v) ==
    \/ \E p \in People : OrgAndViewer(v, p)
    \/ QueryViews(v) \/ QueryDashboards(v) \/ QueryPermalinks(v)
    \/ \E id \in Records :
          \/ CreateView(v, id) \/ CreateDashboard(v, id) \/ CreatePermalink(v, id)
          \/ QueryViewByID(v, id) \/ QueryDashboardByID(v, id) \/ QueryPermalink(v, id)
          \/ LoadPermalink(v, id)
          \/ \E next \in {"update", "delete"} : LoadView(v, id, next) \/ LoadDashboard(v, id, next)
    \/ UpdateView(v) \/ UpdateDashboard(v)
    \/ DeleteView(v) \/ DeleteDashboard(v) \/ DeletePermalink(v)

NoteRequest(v) ==
    \/ \E p \in People : Resolve(v, p)
    \/ QueryNotes(v)
    \/ \E id \in Records :
          CreateNote(v, id) \/ \E next \in {"update", "delete"} : LoadNote(v, id, next)
    \/ UpdateNote(v) \/ DeleteNote(v)

Change ==
    /\ changes < MaxChanges
    /\ \/ \E p \in People : ChangeRole(p) \/ \E x \in OrgProjects : ChangeReader(p, x)
       \/ \E x \in OrgProjects : DropProject(x)
    /\ changes' = changes + 1

SavedRecordsNext ==
    \/ \E v \in Visits : ViewRequest(v) \/ NoteRequest(v) \/ ReadRole(v) \/ Viewer(v) \/ Decline(v)
    \/ Change

SavedRecordsSpec == SavedRecordsInit /\ [][SavedRecordsNext]_savedVars
-----------------------------------------------------------------------------
(* Properties. *)

\* "A private view is the creator's alone", "being an admin is not a reason to
\* reach into private work", and "a member who cannot read the linked project must
\* not learn what it points at": however roles, access and records change while the
\* request runs, what it shows or changes is its caller's own or has at some time been
\* shared; it is pinned to a project the caller could read at some moment of the
\* request (revoking one's own link apart); and somebody else's record is changed
\* only by one who was an admin at some moment of the request.
RecordsReachTheirReaders ==
    \A held \in answer.copies :
        LET c == answer.to
        IN  /\ held.row.by = c.who \/ held.id \in wasShared
            /\ \/ held.row.pin \in c.could \cup {NoPin}
               \/ answer.wrote /\ held.row.kind = "link" /\ held.row.by = c.who
            /\ answer.wrote => held.row.by = c.who \/ c.ruled

\* Not met. Only its creator decides whether a record is private: an admin's update
\* that read the record while it was shared, and writes its whole copy after the
\* creator made it private, shares it again.
PrivateStaysPrivate ==
    [][\A id \in Records :
          saved[id].vis = "private" /\ saved'[id].kind = saved[id].kind /\ saved'[id].vis = "org"
            => answer'.to.who = saved[id].by]_savedVars
=============================================================================
