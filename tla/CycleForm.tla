----------------------------- MODULE CycleForm -----------------------------
(***************************************************************************)
(* The list items of one page of the dashboard, from the inside: the menu, *)
(* the update dialog and the form in it (src/ui/src/components/Cycles).    *)
(* Dashboard.tla lets a page send whatever its calls in flight allow; here *)
(* it sends what the buttons allow, which React state enables and          *)
(* disables, and what stands in the form.                                  *)
(*                                                                         *)
(* The form copies its cycle once, when the list item appears, and keeps   *)
(* the copy when the dialog closes.  The two wheels of a time keep a copy  *)
(* of their own, and every turn of one writes both into the form.          *)
(***************************************************************************)
EXTENDS Dashboard

CONSTANTS
  Hours, Minutes,   \* what the wheels of the start time offer
  Days              \* what the buttons of the days can spell

\* Of a schedule, the parts whose forms differ: a time with its two wheels (end is
\* another one) and the days, which are compared by reference.  (status, fan_enable
\* and fan_delay are plain values: days without the reference.)
ASSUME FormAssumption ==
  /\ \E t \in Tabs : Tabs = {t}
  /\ Bodies = [hour : Hours, minute : Minutes, day : Days]

VARIABLES
  selected,     \* the cycle whose menu is open; one state for the whole list
  items         \* the state of each list item and of the form in it

formVars == <<selected, items>>

allVars == <<vars, formVars>>

Page == CHOOSE t \in Tabs : TRUE

Parts == {"hour", "minute"}

Fields == Parts \cup {"day"}

\* The schedule the list shows for a cycle: the form's prop.
Data(cycles, id) == cycles[FirstShown(cycles, id)].body

\* A list item when it appears.  edited and carried are history: which fields the
\* user changed in the form since it agreed with the list, and which a turn of the
\* other wheel wrote although the form showed another value.
Appeared(body) ==
  [open     |-> FALSE,      \* openUpdate
   saving   |-> FALSE,      \* loading of the form
   deleting |-> FALSE,      \* loading of the item
   form     |-> body,
   ownDay   |-> TRUE,       \* the form's array of days is the list's own
   wheel    |-> [part \in Parts |-> body[part]],
   edited   |-> {},
   carried  |-> {}]

FormInit ==
  /\ Init
  /\ selected = NoId
  /\ items = <<>>

-----------------------------------------------------------------------------
(* Menu and dialog. *)

OpenMenu(id) ==
  /\ ~ items[id].deleting
  /\ selected' = id
  /\ UNCHANGED <<vars, items>>

\* A click that no list item keeps to itself closes the menu.
ClickAway ==
  /\ selected # NoId
  /\ selected' = NoId
  /\ UNCHANGED <<vars, items>>

MenuShown(id) == selected = id /\ ~ items[id].open

\* Mutant: the menu's buttons are not disabled while the DELETE runs.
OpenUpdateWhileDeleting(id) ==
  /\ MenuShown(id)
  /\ items' = [items EXCEPT ![id] = [@ EXCEPT !.open = TRUE]]
  /\ UNCHANGED <<vars, selected>>

OpenUpdate(id) ==
  /\ MenuShown(id)
  /\ ~ items[id].deleting
  /\ items' = [items EXCEPT ![id] = [@ EXCEPT !.open = TRUE]]
  /\ UNCHANGED <<vars, selected>>

\* handleClose; the form stays as it is, and so does a PUT on its way.
Closed(id) ==
  /\ items' = [items EXCEPT ![id] = [@ EXCEPT !.open = FALSE]]
  /\ selected' = NoId

CloseUpdate(id) ==
  /\ items[id].open
  /\ Closed(id)
  /\ UNCHANGED vars

-----------------------------------------------------------------------------
(* The form. *)

Editable(id) == items[id].open /\ ~ items[id].saving

\* setCycle with a new start: both wheels' values, whichever turned.
Turned(item, part, value) ==
  LET wheel == [item.wheel EXCEPT ![part] = value]
  IN  [item EXCEPT
         !.wheel = wheel,
         !.form.hour = wheel.hour,
         !.form.minute = wheel.minute,
         !.edited = @ \cup {part},
         !.carried = @ \cup {p \in Parts \ {part} : wheel[p] # item.form[p]}]

\* Mutant: the wheels can be turned while the PUT runs.
TurnWheelWhileSaving(id, part, value) ==
  /\ items[id].open
  /\ items[id].wheel[part] # value
  /\ items' = [items EXCEPT ![id] = Turned(@, part, value)]
  /\ UNCHANGED <<vars, selected>>

TurnWheel(id, part, value) ==
  /\ Editable(id)
  /\ items[id].wheel[part] # value
  /\ items' = [items EXCEPT ![id] = Turned(@, part, value)]
  /\ UNCHANGED <<vars, selected>>

\* Every press makes a new array, even one that takes the last press back.
Pressed(item, day) ==
  [item EXCEPT !.form.day = day, !.ownDay = FALSE, !.edited = @ \cup {"day"}]

PressDay(id, day) ==
  /\ Editable(id)
  /\ items[id].form.day # day
  /\ items' = [items EXCEPT ![id] = Pressed(@, day)]
  /\ UNCHANGED <<vars, selected>>

\* Mutant: only the times go back.
ResetTimes(id) ==
  /\ Editable(id)
  /\ items' = [items EXCEPT ![id] =
                 [@ EXCEPT !.form = [Data(view[Page], id) EXCEPT !.day = items[id].form.day],
                           !.edited = {}, !.carried = {}]]
  /\ UNCHANGED <<vars, selected>>

\* setCycle(data).  The wheels stay where they are.
Reset(id) ==
  /\ Editable(id)
  /\ items' = [items EXCEPT ![id] = [@ EXCEPT !.form = Data(view[Page], id), !.ownDay = TRUE,
                                              !.edited = {}, !.carried = {}]]
  /\ UNCHANGED <<vars, selected>>

\* shallowCompareObject takes two arrays of days for different unless they are one.
Unchanged(id) == items[id].form = Data(view[Page], id) /\ items[id].ownDay

SaveNothing(id) ==
  /\ Editable(id)
  /\ Unchanged(id)
  /\ Closed(id)
  /\ UNCHANGED vars

Save(id) ==
  /\ Editable(id)
  /\ ~ Unchanged(id)
  /\ Send(Page, Call(Page, "PUT", id, items[id].form))
  /\ items' = [items EXCEPT ![id] = [@ EXCEPT !.saving = TRUE]]
  /\ UNCHANGED selected

\* handleDelete
DeleteItem(id) ==
  /\ MenuShown(id)
  /\ ~ items[id].deleting
  /\ Send(Page, Call(Page, "DELETE", id, NoBody))
  /\ items' = [items EXCEPT ![id] = [@ EXCEPT !.deleting = TRUE]]
  /\ UNCHANGED selected

\* The create dialog sends any schedule and copies no cycle.  (A bound of the model:
\* the user waits for the list first.)
CreateItem(body) ==
  /\ ~ Loading(Page)
  /\ SubmitCreate(Page, body)
  /\ UNCHANGED formVars

-----------------------------------------------------------------------------
(* Answers. *)

\* Mutant: the flag of a DELETE goes down with its answer only in then().
EndedSaving(item, c) == [item EXCEPT !.saving = @ /\ c.op # "PUT"]

\* finally(): the flag of the item or the form goes, wherever the dialog is by now.
Ended(item, c) ==
  [item EXCEPT !.saving = @ /\ c.op # "PUT", !.deleting = @ /\ c.op # "DELETE"]

\* then(): the saved form closes; the list now has an array of days of its own.
Saved(item) ==
  [item EXCEPT !.open = FALSE, !.ownDay = FALSE, !.edited = {}, !.carried = {}]

\* React keeps the state of the items whose key stays in the list.
DeliverToItems(c) ==
  /\ Deliver(c)
  /\ LET of(id) == IF id # c.id THEN items[id]
                   ELSE IF c.op = "PUT" /\ Succeeded(c) THEN Saved(Ended(items[id], c))
                   ELSE Ended(items[id], c)
         shown == {view'[Page][i].id : i \in DOMAIN view'[Page]}
     IN  items' = [id \in shown |-> IF id \in DOMAIN items THEN of(id)
                                    ELSE Appeared(Data(view'[Page], id))]
  /\ selected' = IF c.op \in {"PUT", "DELETE"} /\ Succeeded(c) THEN NoId ELSE selected

BreakItem(c) ==
  /\ Break(c)
  /\ items' = [id \in DOMAIN items |-> IF id = c.id THEN Ended(items[id], c) ELSE items[id]]
  /\ UNCHANGED selected

ReloadPage ==
  /\ Reload(Page)
  /\ selected' = NoId
  /\ items' = <<>>

FormNext ==
  \/ \E id \in DOMAIN items :
       \/ OpenMenu(id) \/ OpenUpdate(id) \/ CloseUpdate(id)
       \/ \E hour \in Hours : TurnWheel(id, "hour", hour)
       \/ \E minute \in Minutes : TurnWheel(id, "minute", minute)
       \/ \E day \in Days : PressDay(id, day)
       \/ Reset(id) \/ SaveNothing(id) \/ Save(id) \/ DeleteItem(id)
  \/ ClickAway
  \/ \E body \in Bodies : CreateItem(body)
  \/ ReloadPage
  \/ \E c \in calls : Serve(c) /\ UNCHANGED formVars
  \/ \E c \in calls : BreakItem(c) \/ DeliverToItems(c)

FormSpec == FormInit /\ [][FormNext]_allVars

-----------------------------------------------------------------------------
(* What the forms are for. *)

\* Flags, copies and histories have the shape the components give them, an item
\* stands for each cycle shown, and a flag is up exactly while its call is in flight.
FormTypeOK ==
  /\ selected \in Nat \cup {NoId}
  /\ DOMAIN items = Shown(Page)
  /\ \A id \in DOMAIN items :
       /\ items[id] \in [open : BOOLEAN, saving : BOOLEAN, deleting : BOOLEAN,
                         form : Bodies, ownDay : BOOLEAN,
                         wheel : [Parts -> Hours \cup Minutes],
                         edited : SUBSET Fields, carried : SUBSET Parts]
       /\ items[id].saving = (Of(Page, "PUT", id) # {})
       /\ items[id].deleting = (Of(Page, "DELETE", id) # {})

\* A form in which the user changed nothing since it last agreed with the list shows
\* what the list shows, through failed saves, closed dialogs and answers that come
\* when the dialog is gone (_updateContent.jsx:18).
FormTellsTruth ==
  \A id \in DOMAIN items :
    items[id].edited \cup items[id].carried = {} => items[id].form = Data(view[Page], id)

\* Saving a form sends the whole cycle, and yet, unless the page has an excuse for not
\* knowing the card, changes on the card only the fields the user edited - and those
\* a wheel carried along that a reset had left behind (_updateContent.jsx:203).
SavesOnlyEdits ==
  [][\A c \in calls :
       /\ c.op = "PUT" /\ c.tab = Page /\ ~ Answered(c) /\ c \notin calls'
       /\ c.id \in DOMAIN items
       /\ Readable(Owner) /\ Readable(Owner)' /\ store' # store
       /\ excuse[Page] = {}
       => \A field \in Fields \ (items[c.id].edited \cup items[c.id].carried) :
            Data(config'.cycles, c.id)[field] = Data(config.cycles, c.id)[field]]_allVars

\* Seen from outside the page is the dashboard of Dashboard.tla: the disabled buttons
\* keep its calls apart as that module's guards say (_cycleAction.jsx:78-106).
ImplementsDashboard == Spec
=============================================================================
