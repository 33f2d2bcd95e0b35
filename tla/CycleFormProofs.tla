--------------------------- MODULE CycleFormProofs ---------------------------
(***************************************************************************)
(* Theorems about CycleForm: a page whose buttons are enabled and disabled *)
(* by the state of its list items is the dashboard of Dashboard.           *)
(***************************************************************************)
EXTENDS CycleForm, DashboardProofs

Item ==
  [open : BOOLEAN, saving : BOOLEAN, deleting : BOOLEAN, form : Bodies, ownDay : BOOLEAN,
   wheel : [Parts -> Hours \cup Minutes], edited : SUBSET Fields, carried : SUBSET Parts]

\* Each wheel shows a value of its own, and an open dialog keeps the menu away.
ItemOK(x) ==
  /\ x \in Item
  /\ x.wheel["hour"] \in Hours /\ x.wheel["minute"] \in Minutes
  /\ x.open => ~ x.deleting

\* Where neither the user nor a wheel has been, the form has the schedule's fields.
Untouched(x, body) ==
  \A field \in Fields \ (x.edited \cup x.carried) : x.form[field] = body[field]

\* A flag is up while its call is in flight; untouched fields agree with the list.
Told(id) ==
  /\ items[id].saving = (Of(Page, "PUT", id) # {})
  /\ items[id].deleting = (Of(Page, "DELETE", id) # {})
  /\ Untouched(items[id], Data(view[Page], id))

ItemsInv ==
  /\ selected \in Nat \cup {NoId}
  /\ DOMAIN items = Shown(Page)
  /\ \A id \in DOMAIN items : ItemOK(items[id]) /\ Told(id)

Pending(c) == c.tab = Page /\ c.op \in {"PUT", "DELETE"}

\* The page sends nothing before it has its list.  No cycle that can still appear has
\* the id of one a call is about, and a form does not change while it is saved.
CallsInv ==
  /\ "raced" \notin excuse[Page]
  /\ Loading(Page) => view[Page] = <<>>
  /\ \A c \in calls : Pending(c) =>
       /\ Readable(Owner) => c.id <= config.counter
       /\ \A d \in calls : d.tab = Page /\ d.op = "POST" /\ Succeeded(d) => c.id < d.answer[1].id
  /\ \A c \in calls : c.tab = Page /\ c.op = "PUT" =>
       /\ c.id \in DOMAIN items => c.body = items[c.id].form
       /\ Succeeded(c) => c.answer[1] = [id |-> c.id, body |-> c.body]

LEMMA OnePage == Page \in Tabs /\ \A t \in Tabs : t = Page
<1>1. PICK t : Tabs = {t}
  BY FormAssumption
<1> QED
  BY <1>1 DEF Page

-----------------------------------------------------------------------------
(* The state of one item. *)

LEMMA DataIsBody ==
  ASSUME NEW cycles \in Seq(Cycle), NEW id \in {cycles[i].id : i \in DOMAIN cycles}
  PROVE  Data(cycles, id) \in Bodies
<1>1. FirstShown(cycles, id) \in DOMAIN cycles
  BY FirstShownFinds
<1>2. cycles[FirstShown(cycles, id)] \in Cycle
  BY <1>1
<1> QED
  BY <1>2 DEF Data, Cycle

LEMMA BodyParts ==
  ASSUME NEW body \in Bodies
  PROVE  body.hour \in Hours /\ body.minute \in Minutes /\ body.day \in Days
BY FormAssumption

\* A schedule is its fields.
LEMMA SameBody ==
  ASSUME NEW a \in Bodies, NEW b \in Bodies, \A field \in Fields : a[field] = b[field]
  PROVE  a = b
<1>1. a.hour = b.hour /\ a.minute = b.minute /\ a.day = b.day
  BY DEF Fields, Parts
<1> QED
  BY <1>1, FormAssumption

LEMMA AppearedOK ==
  ASSUME NEW body \in Bodies
  PROVE  ItemOK(Appeared(body)) /\ ~ Appeared(body).saving /\ ~ Appeared(body).deleting
<1> DEFINE wheel == [part \in Parts |-> body[part]]
<1>1. /\ wheel["hour"] = body.hour /\ wheel["minute"] = body.minute
      /\ wheel \in [Parts -> Hours \cup Minutes]
  BY BodyParts DEF Parts
<1>2. Appeared(body) = [open |-> FALSE, saving |-> FALSE, deleting |-> FALSE, form |-> body,
        ownDay |-> TRUE, wheel |-> wheel, edited |-> {}, carried |-> {}]
  BY DEF Appeared
<1> HIDE DEF wheel
<1> QED
  BY <1>1, <1>2, BodyParts DEF ItemOK, Item

LEMMA TurnedOK ==
  ASSUME NEW x, ItemOK(x), NEW part \in Parts, NEW value,
         part = "hour" => value \in Hours, part = "minute" => value \in Minutes
  PROVE  LET y == Turned(x, part, value)
         IN  ItemOK(y) /\ y.saving = x.saving /\ y.deleting = x.deleting
<1> DEFINE wheel == [x.wheel EXCEPT ![part] = value]
           carried == {p \in Parts \ {part} : wheel[p] # x.form[p]}
           y == Turned(x, part, value)
<1>1. wheel \in [Parts -> Hours \cup Minutes] /\ wheel["hour"] \in Hours /\ wheel["minute"] \in Minutes
  BY DEF ItemOK, Item, Parts
<1>2. carried \subseteq Parts
  OBVIOUS
<1>3. y = [x EXCEPT !.wheel = wheel, !.form.hour = wheel.hour, !.form.minute = wheel.minute,
             !.edited = @ \cup {part}, !.carried = @ \cup carried]
  BY DEF Turned
<1> HIDE DEF wheel, carried, y
<1>4. /\ y.open = x.open /\ y.saving = x.saving /\ y.deleting = x.deleting /\ y.wheel = wheel
  BY <1>3 DEF ItemOK, Item
<1>5. [x.form EXCEPT !.hour = wheel.hour, !.minute = wheel.minute] \in Bodies
  BY <1>1, FormAssumption DEF ItemOK, Item
<1>6. x.edited \cup {part} \in SUBSET Fields /\ x.carried \cup carried \in SUBSET Parts
  BY <1>2 DEF ItemOK, Item, Fields
<1>7. y \in Item
  BY <1>1, <1>3, <1>5, <1>6 DEF ItemOK, Item
<1> QED
  BY <1>1, <1>4, <1>7 DEF ItemOK, y

\* A turn of one wheel leaves the other field as it was, or counts it as carried.
LEMMA TurnedUntouched ==
  ASSUME NEW x, ItemOK(x), NEW part \in Parts, NEW value,
         part = "hour" => value \in Hours, part = "minute" => value \in Minutes,
         NEW body, Untouched(x, body)
  PROVE  Untouched(Turned(x, part, value), body)
<1> DEFINE wheel == [x.wheel EXCEPT ![part] = value]
           carried == {p \in Parts \ {part} : wheel[p] # x.form[p]}
           y == Turned(x, part, value)
<1>1. wheel \in [Parts -> Hours \cup Minutes] /\ x \in Item
  BY DEF ItemOK, Item, Parts
<1>2. y = [x EXCEPT !.wheel = wheel, !.form.hour = wheel.hour, !.form.minute = wheel.minute,
             !.edited = @ \cup {part}, !.carried = @ \cup carried]
  BY DEF Turned
<1>3. \A p \in Parts \ {part} : wheel[p] # x.form[p] => p \in carried
  OBVIOUS
<1> HIDE DEF wheel, carried, y
<1>4. /\ y.edited = x.edited \cup {part} /\ y.carried = x.carried \cup carried
      /\ y.form = [x.form EXCEPT !.hour = wheel.hour, !.minute = wheel.minute]
  BY <1>1, <1>2 DEF Item
<1>5. y.form.hour = wheel["hour"] /\ y.form.minute = wheel["minute"] /\ y.form.day = x.form.day
  BY <1>1, <1>4, FormAssumption DEF Item
<1> SUFFICES ASSUME NEW field \in Fields \ (y.edited \cup y.carried)
             PROVE  y.form[field] = body[field]
  BY DEF Untouched, y
<1>6. field \in Fields \ (x.edited \cup x.carried) /\ field # part /\ field \notin carried
  BY <1>4
<1>7. y.form[field] = x.form[field]
  <2>1. CASE field \in Parts
    BY <1>3, <1>5, <1>6, <2>1 DEF Parts
  <2>2. CASE field = "day"
    BY <1>5, <2>2
  <2> QED
    BY <2>1, <2>2 DEF Fields
<1> QED
  BY <1>6, <1>7 DEF Untouched

-----------------------------------------------------------------------------
(* The refinement: each step of the forms is a step of the dashboard. *)

LEMMA SaveAllowed ==
  ASSUME ItemsInv, NEW id \in DOMAIN items, Save(id)
  PROVE  SubmitUpdate(Page, id, items[id].form) /\ items[id].form \in Bodies
<1>1. items[id].open /\ ~ items[id].saving /\ ~ items[id].deleting /\ items[id].form \in Bodies
  BY DEF Save, Editable, ItemsInv, ItemOK, Item
<1>2. Of(Page, "PUT", id) = {} /\ Of(Page, "DELETE", id) = {} /\ id \in Shown(Page)
  BY <1>1 DEF ItemsInv, Told
<1> QED
  BY <1>1, <1>2 DEF Save, SubmitUpdate

LEMMA DeleteAllowed ==
  ASSUME ItemsInv, NEW id \in DOMAIN items, DeleteItem(id)
  PROVE  SubmitDelete(Page, id)
<1>1. ~ items[id].deleting
  BY DEF DeleteItem
<1>2. Of(Page, "DELETE", id) = {} /\ id \in Shown(Page)
  BY <1>1 DEF ItemsInv, Told
<1> QED
  BY <1>2 DEF DeleteItem, SubmitDelete

LEMMA FormStepIsStep == ItemsInv /\ [FormNext]_allVars => [Next]_vars
<1> SUFFICES ASSUME ItemsInv, [FormNext]_allVars PROVE [Next]_vars
  OBVIOUS
<1>1. ASSUME NEW id \in DOMAIN items, Save(id)
      PROVE  Next
  BY <1>1, SaveAllowed, OnePage DEF Next, ItemsInv
<1>2. ASSUME NEW id \in DOMAIN items, DeleteItem(id)
      PROVE  Next
  BY <1>2, DeleteAllowed, OnePage DEF Next, ItemsInv
<1>3. ASSUME NEW body \in Bodies, CreateItem(body)
      PROVE  Next
  BY <1>3, OnePage DEF CreateItem, Next
<1>4. CASE ReloadPage
  BY <1>4, OnePage DEF ReloadPage, Next
<1>5. ASSUME NEW c \in calls, Serve(c) \/ BreakItem(c) \/ DeliverToItems(c)
      PROVE  Next
  BY <1>5 DEF BreakItem, DeliverToItems, Next
<1>6. \/ UNCHANGED vars
      \/ \E id \in DOMAIN items : Save(id) \/ DeleteItem(id)
      \/ \E body \in Bodies : CreateItem(body)
      \/ ReloadPage
      \/ \E c \in calls : Serve(c) \/ BreakItem(c) \/ DeliverToItems(c)
  BY DEF FormNext, allVars, OpenMenu, ClickAway, OpenUpdate, CloseUpdate, TurnWheel, PressDay,
         Reset, SaveNothing
<1> QED
  BY <1>1, <1>2, <1>3, <1>4, <1>5, <1>6

-----------------------------------------------------------------------------
(* The user's hand in the dialog. *)

\* One item changes, and neither its flags nor a form on its way do.
LEMMA ItemEdited ==
  ASSUME ItemsInv, CallsInv, UNCHANGED vars, selected' \in Nat \cup {NoId},
         NEW id \in DOMAIN items, NEW x, ItemOK(x),
         x.saving = items[id].saving, x.deleting = items[id].deleting,
         Untouched(x, Data(view[Page], id)),
         x.form = items[id].form \/ ~ items[id].saving,
         items' = [items EXCEPT ![id] = x]
  PROVE  ItemsInv' /\ CallsInv'
<1>1. /\ UNCHANGED <<view, calls, excuse>>
      /\ (Readable(Owner)' <=> Readable(Owner)) /\ config' = config
  BY DEF vars, Readable, config
<1>2. /\ DOMAIN items' = DOMAIN items /\ items'[id] = x
      /\ \A i \in DOMAIN items : i # id => items'[i] = items[i]
  OBVIOUS
<1>3. Shown(Page)' = Shown(Page)
  BY <1>1 DEF Shown
<1>4. \A op, i : Of(Page, op, i)' = Of(Page, op, i)
  BY <1>1 DEF Of
<1>5. \A i \in DOMAIN items : ItemOK(items'[i]) /\ Told(i)'
  <2>1. \A i \in DOMAIN items : ItemOK(items[i]) /\ Told(i)
    BY DEF ItemsInv
  <2> QED
    BY <1>1, <1>2, <1>4, <2>1 DEF Told
<1>6. ItemsInv'
  BY <1>2, <1>3, <1>5 DEF ItemsInv, ItemOK
<1>7. ASSUME NEW c \in calls, c.tab = Page, c.op = "PUT", c.id \in DOMAIN items
      PROVE  c.body = items'[c.id].form
  <2>1. c.body = items[c.id].form
    BY <1>7 DEF CallsInv
  <2>2. items[c.id].saving
    BY <1>7 DEF ItemsInv, Told, Of
  <2> QED
    BY <1>2, <2>1, <2>2
<1>8. Loading(Page)' <=> Loading(Page)
  BY <1>4 DEF Loading
<1>9. CallsInv'
  BY <1>1, <1>2, <1>7, <1>8 DEF CallsInv, Pending, Succeeded
<1> QED
  BY <1>6, <1>9

LEMMA ItemsSame ==
  ASSUME ItemsInv, CallsInv, UNCHANGED <<vars, items>>, selected' \in Nat \cup {NoId}
  PROVE  ItemsInv' /\ CallsInv'
<1>1. UNCHANGED <<store, view, calls, excuse, items>>
  BY DEF vars
<1>2. ItemsInv'
  BY <1>1 DEF ItemsInv, Told, Shown, Of
<1>3. CallsInv'
  BY <1>1 DEF CallsInv, Pending, Succeeded, Loading, Of, Readable, config
<1> QED
  BY <1>2, <1>3

Touches(id) ==
  \/ OpenMenu(id) \/ OpenUpdate(id) \/ CloseUpdate(id)
  \/ \E hour \in Hours : TurnWheel(id, "hour", hour)
  \/ \E minute \in Minutes : TurnWheel(id, "minute", minute)
  \/ \E day \in Days : PressDay(id, day)
  \/ Reset(id) \/ SaveNothing(id)

LEMMA TouchKeeps ==
  ASSUME TypeInv, ItemsInv, CallsInv, NEW id \in DOMAIN items, Touches(id)
  PROVE  ItemsInv' /\ CallsInv'
<1> DEFINE x == items[id]
<1>1. /\ ItemOK(x) /\ x \in Item /\ id \in Nat /\ id \in Shown(Page)
      /\ Untouched(x, Data(view[Page], id))
  BY OnePage, ShownIsNat DEF ItemsInv, ItemOK, Told
<1>2. UNCHANGED vars /\ selected' \in Nat \cup {NoId}
  BY <1>1 DEF Touches, OpenMenu, OpenUpdate, CloseUpdate, TurnWheel, PressDay, Reset,
              SaveNothing, Closed, ItemsInv
<1>3. Data(view[Page], id) \in Bodies
  BY <1>1, DataIsBody, OnePage DEF TypeInv, Shown
<1> HIDE DEF x
<1>4. CASE OpenMenu(id)
  BY <1>2, <1>4, ItemsSame DEF OpenMenu
<1>5. CASE OpenUpdate(id)
  <2> DEFINE y == [x EXCEPT !.open = TRUE]
  <2>1. ItemOK(y) /\ y.saving = x.saving /\ y.deleting = x.deleting /\ y.form = x.form
        /\ y.edited = x.edited /\ y.carried = x.carried
    BY <1>1, <1>5 DEF OpenUpdate, ItemOK, Item, x
  <2>2. items' = [items EXCEPT ![id] = y]
    BY <1>5 DEF OpenUpdate, x
  <2> HIDE DEF y
  <2>3. Untouched(y, Data(view[Page], id))
    BY <1>1, <2>1 DEF Untouched
  <2> QED
    BY <1>1, <1>2, <2>1, <2>2, <2>3, ItemEdited DEF x
<1>6. CASE CloseUpdate(id) \/ SaveNothing(id)
  <2> DEFINE y == [x EXCEPT !.open = FALSE]
  <2>1. ItemOK(y) /\ y.saving = x.saving /\ y.deleting = x.deleting /\ y.form = x.form
        /\ y.edited = x.edited /\ y.carried = x.carried
    BY <1>1 DEF ItemOK, Item
  <2>2. items' = [items EXCEPT ![id] = y]
    BY <1>6 DEF CloseUpdate, SaveNothing, Closed, x
  <2> HIDE DEF y
  <2>3. Untouched(y, Data(view[Page], id))
    BY <1>1, <2>1 DEF Untouched
  <2> QED
    BY <1>1, <1>2, <2>1, <2>2, <2>3, ItemEdited DEF x
<1>7. ASSUME NEW part \in Parts, NEW value, TurnWheel(id, part, value),
             part = "hour" => value \in Hours, part = "minute" => value \in Minutes
      PROVE  ItemsInv' /\ CallsInv'
  <2> DEFINE y == Turned(x, part, value)
  <2>1. ItemOK(y) /\ y.saving = x.saving /\ y.deleting = x.deleting
    BY <1>1, <1>7, TurnedOK
  <2>2. items' = [items EXCEPT ![id] = y] /\ ~ x.saving
    BY <1>7 DEF TurnWheel, Editable, x
  <2>3. Untouched(y, Data(view[Page], id))
    BY <1>1, <1>7, TurnedUntouched
  <2> HIDE DEF y
  <2> QED
    BY <1>1, <1>2, <2>1, <2>2, <2>3, ItemEdited DEF x
<1>8. ASSUME NEW day \in Days, PressDay(id, day)
      PROVE  ItemsInv' /\ CallsInv'
  <2> DEFINE y == Pressed(x, day)
  <2>1. [x.form EXCEPT !.day = day] \in Bodies /\ x.edited \cup {"day"} \in SUBSET Fields
    BY <1>1, FormAssumption DEF Item, Fields
  <2>2. /\ y.open = x.open /\ y.saving = x.saving /\ y.deleting = x.deleting
        /\ y.wheel = x.wheel /\ y.edited = x.edited \cup {"day"} /\ y.carried = x.carried
        /\ y.form = [x.form EXCEPT !.day = day]
    BY <1>1 DEF Pressed, Item
  <2>3. y \in Item
    BY <1>1, <2>1 DEF Pressed, Item
  <2>4. items' = [items EXCEPT ![id] = y] /\ ~ x.saving
    BY <1>8 DEF PressDay, Editable, x
  <2> HIDE DEF y
  <2>5. ItemOK(y)
    BY <1>1, <2>2, <2>3 DEF ItemOK
  <2>6. y.form.hour = x.form.hour /\ y.form.minute = x.form.minute
    BY <1>1, <2>2, FormAssumption DEF Item
  <2>7. Untouched(y, Data(view[Page], id))
    BY <1>1, <2>2, <2>6 DEF Untouched, Fields, Parts
  <2> QED
    BY <1>1, <1>2, <2>2, <2>4, <2>5, <2>7, ItemEdited DEF x
<1>9. CASE Reset(id)
  <2> DEFINE body == Data(view[Page], id)
             y == [x EXCEPT !.form = body, !.ownDay = TRUE, !.edited = {}, !.carried = {}]
  <2>1. items' = [items EXCEPT ![id] = y] /\ ~ x.saving
    BY <1>9 DEF Reset, Editable, x
  <2>2. body \in Bodies
    BY <1>3
  <2> HIDE DEF body
  <2>3. /\ y \in Item /\ y.open = x.open /\ y.saving = x.saving /\ y.deleting = x.deleting
        /\ y.wheel = x.wheel /\ y.form = body
    BY <1>1, <2>2 DEF Item
  <2> HIDE DEF y
  <2>4. ItemOK(y)
    BY <1>1, <2>3 DEF ItemOK
  <2>5. Untouched(y, body)
    BY <2>3 DEF Untouched
  <2> QED
    BY <1>1, <1>2, <2>1, <2>3, <2>4, <2>5, ItemEdited DEF x, body
<1> QED
  BY <1>4, <1>5, <1>6, <1>7, <1>8, <1>9 DEF Touches, Parts

-----------------------------------------------------------------------------
(* Calls go out. *)

\* A call the page could send was sent after it had its list.
LEMMA NotRaced ==
  ASSUME TypeInv, CallsInv, NEW c, Send(Page, c), view[Page] # <<>> \/ ~ Loading(Page)
  PROVE  "raced" \notin excuse'[Page] /\ ~ Loading(Page)
BY DEF CallsInv, Send

LEMMA ShowsSome ==
  ASSUME NEW id \in Shown(Page)
  PROVE  view[Page] # <<>>
BY DEF Shown

\* About the items of a page that sent a call for the item id.
LEMMA SendKeeps ==
  ASSUME SaneInv, ItemsInv, CallsInv, NEW id \in DOMAIN items, NEW op \in {"PUT", "DELETE"},
         NEW body, Send(Page, Call(Page, op, id, body)), UNCHANGED selected,
         op = "PUT" => body = items[id].form, Of(Page, op, id) = {},
         NEW x, ItemOK(x), items' = [items EXCEPT ![id] = x],
         x.saving = (op = "PUT" \/ items[id].saving),
         x.deleting = (op = "DELETE" \/ items[id].deleting),
         x.form = items[id].form,
         x.edited \cup x.carried = items[id].edited \cup items[id].carried
  PROVE  ItemsInv' /\ CallsInv'
<1> DEFINE c == Call(Page, op, id, body)
<1>1. c.tab = Page /\ c.op = op /\ c.id = id /\ c.body = body /\ c.answer = Waiting
  BY DEF Call
<1>2. calls' = calls \cup {c} /\ UNCHANGED <<store, view>>
  BY DEF Send
<1>3. TypeInv /\ StoreInv /\ TabInv(Page)
  BY OnePage DEF SaneInv, Base
<1>4. id \in Shown(Page) /\ "raced" \notin excuse'[Page] /\ ~ Loading(Page)
  BY <1>3, NotRaced, ShowsSome DEF ItemsInv
<1> HIDE DEF c
<1>5. /\ DOMAIN items' = DOMAIN items /\ items'[id] = x
      /\ \A i \in DOMAIN items : i # id => items'[i] = items[i]
  OBVIOUS
<1>6. \A p, i : Of(Page, p, i)' = IF p = op /\ i = id THEN {c} ELSE Of(Page, p, i)
  BY <1>1, <1>2 DEF Of
<1>7. Shown(Page)' = Shown(Page)
  BY <1>2 DEF Shown
<1>8. ASSUME NEW i \in DOMAIN items
      PROVE  ItemOK(items'[i]) /\ Told(i)'
  <2>1. ItemOK(items[i]) /\ Told(i)
    BY DEF ItemsInv
  <2>2. CASE i # id
    BY <1>2, <1>5, <1>6, <2>1, <2>2 DEF Told
  <2>3. CASE i = id
    <3>1. Untouched(x, Data(view[Page], id))
      BY <2>1, <2>3 DEF Told, Untouched
    <3> QED
      BY <1>2, <1>5, <1>6, <2>1, <2>3, <3>1 DEF Told
  <2> QED
    BY <2>2, <2>3
<1>9. ItemsInv'
  BY <1>5, <1>7, <1>8 DEF ItemsInv
<1>10. ~ Loading(Page)'
  BY <1>4, <1>6 DEF Loading
<1>11. /\ Readable(Owner)' => Readable(Owner) /\ config'.counter = config.counter
       /\ Readable(Owner) => id <= config.counter
       /\ \A d \in calls : d.tab = Page /\ d.op = "POST" /\ Succeeded(d) => id < d.answer[1].id
  <2>1. PICK i \in DOMAIN view[Page] : view[Page][i].id = id
    BY <1>4 DEF Shown
  <2>2. Below(view[Page]) /\ \A d \in calls : d.tab = Page => CallInv(d, Page)
    BY <1>3 DEF TabInv, CallsInv
  <2> QED
    BY <1>2, <2>1, <2>2 DEF Below, CallInv, Above, Readable, config
<1>12. ASSUME NEW d \in calls', Pending(d)
       PROVE  /\ Readable(Owner)' => d.id <= config'.counter
              /\ \A e \in calls' : e.tab = Page /\ e.op = "POST" /\ Succeeded(e)
                    => d.id < e.answer[1].id
  <2>1. \A e \in calls' : Succeeded(e) => e \in calls
    BY <1>1, <1>2 DEF Succeeded
  <2>2. CASE d = c
    BY <1>1, <1>11, <2>1, <2>2
  <2>3. CASE d \in calls
    BY <1>11, <1>12, <2>1, <2>3 DEF CallsInv
  <2> QED
    BY <1>2, <2>2, <2>3
<1>13. ASSUME NEW d \in calls', d.tab = Page, d.op = "PUT"
       PROVE  /\ d.id \in DOMAIN items' => d.body = items'[d.id].form
              /\ Succeeded(d) => d.answer[1] = [id |-> d.id, body |-> d.body]
  <2>1. CASE d = c
    BY <1>1, <1>5, <1>13, <2>1 DEF Succeeded
  <2>2. CASE d \in calls
    BY <1>5, <1>13, <2>2 DEF CallsInv
  <2> QED
    BY <1>2, <2>1, <2>2
<1>14. CallsInv'
  BY <1>4, <1>10, <1>12, <1>13 DEF CallsInv, Pending, Succeeded
<1> QED
  BY <1>9, <1>14

LEMMA SaveKeeps ==
  ASSUME SaneInv, ItemsInv, CallsInv, NEW id \in DOMAIN items, Save(id)
  PROVE  ItemsInv' /\ CallsInv'
<1> DEFINE x == items[id]
           y == [x EXCEPT !.saving = TRUE]
<1>1. /\ Send(Page, Call(Page, "PUT", id, x.form)) /\ UNCHANGED selected
      /\ items' = [items EXCEPT ![id] = y]
  BY DEF Save
<1>2. ItemOK(x) /\ Of(Page, "PUT", id) = {}
  BY SaveAllowed DEF ItemsInv, SubmitUpdate
<1> HIDE DEF x
<1>3. /\ ItemOK(y) /\ y.saving /\ y.deleting = x.deleting /\ y.form = x.form
      /\ y.edited = x.edited /\ y.carried = x.carried /\ x.deleting \in BOOLEAN
  BY <1>2 DEF ItemOK, Item
<1> HIDE DEF y
<1> QED
  BY <1>1, <1>2, <1>3, SendKeeps DEF x

LEMMA DeleteKeeps ==
  ASSUME SaneInv, ItemsInv, CallsInv, NEW id \in DOMAIN items, DeleteItem(id)
  PROVE  ItemsInv' /\ CallsInv'
<1> DEFINE x == items[id]
           y == [x EXCEPT !.deleting = TRUE]
<1>1. /\ Send(Page, Call(Page, "DELETE", id, NoBody)) /\ UNCHANGED selected /\ ~ x.open
      /\ items' = [items EXCEPT ![id] = y]
  BY DEF DeleteItem, MenuShown
<1>2. ItemOK(x) /\ Of(Page, "DELETE", id) = {}
  BY DeleteAllowed DEF ItemsInv, SubmitDelete
<1> HIDE DEF x
<1>3. /\ ItemOK(y) /\ y.deleting /\ y.saving = x.saving /\ y.form = x.form
      /\ y.edited = x.edited /\ y.carried = x.carried /\ x.saving \in BOOLEAN
  BY <1>1, <1>2 DEF ItemOK, Item
<1> HIDE DEF y
<1> QED
  BY <1>1, <1>2, <1>3, SendKeeps DEF x

LEMMA CreateKeeps ==
  ASSUME SaneInv, ItemsInv, CallsInv, NEW body \in Bodies, CreateItem(body)
  PROVE  ItemsInv' /\ CallsInv'
<1> DEFINE c == Call(Page, "POST", NoId, body)
<1>1. c.tab = Page /\ c.op = "POST" /\ c.answer = Waiting
  BY DEF Call
<1>2. Send(Page, c) /\ ~ Loading(Page) /\ UNCHANGED <<selected, items>>
  BY DEF CreateItem, SubmitCreate, formVars
<1> HIDE DEF c
<1>3. calls' = calls \cup {c} /\ UNCHANGED <<store, view>>
  BY <1>2 DEF Send
<1>4. "raced" \notin excuse'[Page]
  BY <1>2, NotRaced DEF SaneInv, Base
<1>5. /\ ~ Loading(Page)'
      /\ \A op \in {"PUT", "DELETE"} : \A id : Of(Page, op, id)' = Of(Page, op, id)
  BY <1>1, <1>2, <1>3 DEF Loading, Of
<1>6. ItemsInv'
  BY <1>2, <1>3, <1>5 DEF ItemsInv, Told, Shown
<1>7. CallsInv'
  BY <1>1, <1>2, <1>3, <1>4, <1>5 DEF CallsInv, Pending, Succeeded, Readable, config
<1> QED
  BY <1>6, <1>7

LEMMA ReloadKeeps ==
  ASSUME SaneInv, ItemsInv, CallsInv, ReloadPage
  PROVE  ItemsInv' /\ CallsInv'
<1>1. PICK orphans \in SUBSET {c \in calls : c.tab = Page /\ c.op # "GET" /\ ~ Answered(c)} :
         /\ calls' = {c \in calls : c.tab # Page} \cup {Mount(Page)}
                       \cup {[c EXCEPT !.tab = Nobody] : c \in orphans}
         /\ view' = [view EXCEPT ![Page] = <<>>]
         /\ excuse' = [excuse EXCEPT ![Page] = {}]
  BY DEF ReloadPage, Reload
<1>2. TypeInv /\ Page # Nobody
  BY OnePage, DashboardAssumption DEF SaneInv, Base
<1>3. view'[Page] = <<>> /\ excuse'[Page] = {}
  BY <1>1, <1>2, OnePage DEF TypeInv
<1>4. \A c \in calls' : c.tab = Page => c.op = "GET"
  <2>1. \A c \in orphans : [c EXCEPT !.tab = Nobody].tab = Nobody
    BY <1>2, OrphanTyped DEF TypeInv
  <2>2. \A c \in calls' : c.tab # Page \/ c = Mount(Page) \/ c.tab = Nobody
    BY <1>1, <2>1
  <2> QED
    BY <1>2, <2>2, MountTyped, OnePage
<1>5. ItemsInv'
  <2>1. DOMAIN items' = {} /\ selected' = NoId
    BY DEF ReloadPage
  <2>2. Shown(Page)' = {}
    BY <1>3 DEF Shown
  <2> QED
    BY <2>1, <2>2 DEF ItemsInv
<1>6. CallsInv'
  BY <1>3, <1>4 DEF CallsInv, Pending
<1> QED
  BY <1>5, <1>6

-----------------------------------------------------------------------------
(* Calls come back. *)

LEMMA ReplyIs ==
  ASSUME StoreInv, NEW c, CallTypeOK(c), c.op # "GET", Possible(c)
  PROVE  /\ c.op = "POST" => Reply(c)[1].id = config.counter + 1
         /\ c.op = "PUT" => Reply(c)[1] = [id |-> c.id, body |-> c.body]
<1>1. ASSUME c.op = "POST" PROVE Reply(c)[1].id = config.counter + 1
  <2>1. Reply(c)[1] = [id |-> config.counter + 1, body |-> c.body]
    BY <1>1, ReplyTyped
  <2> QED
    BY <2>1
<1>2. ASSUME c.op = "PUT" PROVE Reply(c)[1] = [id |-> c.id, body |-> c.body]
  BY <1>2, ReplyTyped
<1> QED
  BY <1>1, <1>2

\* What the server does, as far as the forms can tell.
LEMMA ServeEffect ==
  ASSUME Base, NEW c \in calls, Serve(c)
  PROVE  /\ UNCHANGED view
         /\ \A t \in Tabs : "raced" \in excuse'[t] => "raced" \in excuse[t]
         /\ \E answer :
              /\ Answer(c, answer)
              /\ c.op = "POST" /\ answer \notin {Waiting, Refused} =>
                   Readable(Owner) /\ answer[1].id = config.counter + 1
              /\ c.op = "PUT" /\ answer \notin {Waiting, Refused} =>
                   answer[1] = [id |-> c.id, body |-> c.body]
<1>1. CallTypeOK(c) /\ StoreInv
  BY DEF Base, TypeInv
<1>2. CASE ServeList(c)
  BY <1>2 DEF ServeList
<1>3. CASE ServeChange(c)
  <2>1. Possible(c) /\ Answer(c, Reply(c)) /\ UNCHANGED view /\ c.op # "GET" /\ Readable(Owner)
    BY <1>3 DEF ServeChange, Possible
  <2>2. /\ c.op = "POST" => Reply(c)[1].id = config.counter + 1
        /\ c.op = "PUT" => Reply(c)[1] = [id |-> c.id, body |-> c.body]
    BY <1>1, <2>1, ReplyIs
  <2>3. \A t \in Tabs : "raced" \in excuse'[t] => "raced" \in excuse[t]
    BY <1>3 DEF ServeChange, Excused
  <2> QED
    BY <2>1, <2>2, <2>3
<1>4. CASE TearChange(c)
  <2>1. Possible(c) /\ UNCHANGED <<view, excuse>> /\ c.op # "GET" /\ Readable(Owner)
    BY <1>4 DEF TearChange, Possible
  <2>2. PICK told \in {Refused, Reply(c)} : Answer(c, told)
    BY <1>4 DEF TearChange
  <2>3. /\ c.op = "POST" => Reply(c)[1].id = config.counter + 1
        /\ c.op = "PUT" => Reply(c)[1] = [id |-> c.id, body |-> c.body]
    BY <1>1, <2>1, ReplyIs
  <2> QED
    BY <2>1, <2>2, <2>3
<1>5. CASE RefuseChange(c)
  BY <1>5 DEF RefuseChange
<1> QED
  BY <1>2, <1>3, <1>4, <1>5 DEF Serve

LEMMA ServeKeeps ==
  ASSUME SaneInv, StoreInv', CounterGrows, ItemsInv, CallsInv, NEW c \in calls, Serve(c),
         UNCHANGED formVars
  PROVE  ItemsInv' /\ CallsInv'
<1>1. Base /\ TypeInv /\ StoreInv /\ IsCall(c) /\ CallTypeOK(c)
  BY DEF SaneInv, Base, TypeInv
<1>2. PICK answer :
         /\ Answer(c, answer)
         /\ c.op = "POST" /\ answer \notin {Waiting, Refused} =>
              Readable(Owner) /\ answer[1].id = config.counter + 1
         /\ c.op = "PUT" /\ answer \notin {Waiting, Refused} =>
              answer[1] = [id |-> c.id, body |-> c.body]
  BY <1>1, ServeEffect
<1> DEFINE e == [c EXCEPT !.answer = answer]
<1>3. e.tab = c.tab /\ e.op = c.op /\ e.id = c.id /\ e.body = c.body /\ e.answer = answer
  BY <1>1 DEF IsCall
<1>4. calls' = IF c.tab = Nobody THEN calls \ {c} ELSE (calls \ {c}) \cup {e}
  BY <1>2 DEF Answer
<1> HIDE DEF e
<1>5. UNCHANGED <<view, selected, items>> /\ "raced" \notin excuse'[Page] /\ Page # Nobody
  BY <1>1, ServeEffect, OnePage, DashboardAssumption DEF CallsInv, formVars
<1>6. \A op, id : Of(Page, op, id)' = {} <=> Of(Page, op, id) = {}
  <2>1. ASSUME NEW op, NEW id, Of(Page, op, id) = {}
        PROVE  Of(Page, op, id)' = {}
    BY <1>3, <1>4, <2>1 DEF Of
  <2>2. ASSUME NEW op, NEW id, NEW d \in Of(Page, op, id)
        PROVE  Of(Page, op, id)' # {}
    BY <1>3, <1>4, <1>5, <2>2 DEF Of
  <2> QED
    BY <2>1, <2>2
<1>7. ItemsInv'
  <2>1. \A id \in DOMAIN items : ItemOK(items[id]) /\ Told(id)
    BY DEF ItemsInv
  <2>2. \A id \in DOMAIN items : Told(id)'
    BY <1>5, <1>6, <2>1 DEF Told
  <2> QED
    BY <1>5, <2>1, <2>2 DEF ItemsInv, Shown
<1>8. Loading(Page)' => view'[Page] = <<>>
  BY <1>5, <1>6 DEF Loading, CallsInv
<1>9. \A d \in calls' : \E old \in calls :
        /\ d.tab = old.tab /\ d.op = old.op /\ d.id = old.id /\ d.body = old.body
        /\ d = old \/ (d = e /\ old = c)
  BY <1>3, <1>4
<1>10. ASSUME NEW d \in calls', Pending(d)
       PROVE  /\ Readable(Owner)' => d.id <= config'.counter
              /\ \A f \in calls' : f.tab = Page /\ f.op = "POST" /\ Succeeded(f)
                    => d.id < f.answer[1].id
  <2>1. PICK old \in calls : Pending(old) /\ d.id = old.id
    BY <1>9, <1>10 DEF Pending
  <2>2. /\ Readable(Owner) => d.id <= config.counter
        /\ \A f \in calls : f.tab = Page /\ f.op = "POST" /\ Succeeded(f) => d.id < f.answer[1].id
    BY <2>1 DEF CallsInv
  <2>3. d.id \in Nat
    BY <1>1, <2>1 DEF Pending, TypeInv, CallTypeOK
  <2>4. /\ Readable(Owner) => config.counter \in Nat
        /\ Readable(Owner)' => config'.counter \in Nat
    BY DEF Readable, config, Documents
  <2>5. Readable(Owner)' => d.id <= config'.counter
    BY <2>2, <2>3, <2>4 DEF CounterGrows
  <2>6. ASSUME NEW f \in calls', f.tab = Page, f.op = "POST", Succeeded(f)
        PROVE  d.id < f.answer[1].id
    <3>1. CASE f \in calls
      BY <2>2, <2>6, <3>1
    <3>2. CASE f = e
      <4>1. answer \notin {Waiting, Refused} /\ c.op = "POST"
        BY <1>3, <2>6, <3>2 DEF Succeeded
      <4>2. f.answer[1].id = config.counter + 1 /\ Readable(Owner)
        BY <1>2, <1>3, <3>2, <4>1
      <4> QED
        BY <2>2, <2>3, <2>4, <4>2
    <3> QED
      BY <1>9, <3>1, <3>2
  <2> QED
    BY <2>5, <2>6
<1>11. ASSUME NEW d \in calls', d.tab = Page, d.op = "PUT"
       PROVE  /\ d.id \in DOMAIN items' => d.body = items'[d.id].form
              /\ Succeeded(d) => d.answer[1] = [id |-> d.id, body |-> d.body]
  <2>1. CASE d \in calls
    BY <1>5, <1>11, <2>1 DEF CallsInv
  <2>2. CASE d = e
    <3>1. c.tab = Page /\ c.op = "PUT"
      BY <1>3, <1>11, <2>2
    <3>2. c.id \in DOMAIN items => c.body = items[c.id].form
      BY <3>1 DEF CallsInv
    <3> QED
      BY <1>2, <1>3, <1>5, <2>2, <3>1, <3>2 DEF Succeeded
  <2> QED
    BY <1>9, <2>1, <2>2
<1>12. CallsInv'
  BY <1>5, <1>8, <1>10, <1>11 DEF CallsInv, Pending, Succeeded
<1> QED
  BY <1>7, <1>12

-----------------------------------------------------------------------------
(* What an answer does to the list. *)

LEMMA DataIs ==
  ASSUME NEW cycles \in Seq(Cycle), Sane(cycles), NEW i \in DOMAIN cycles
  PROVE  Data(cycles, cycles[i].id) = cycles[i].body
<1> DEFINE k == FirstShown(cycles, cycles[i].id)
<1>1. k \in DOMAIN cycles /\ cycles[k].id = cycles[i].id /\ k <= i
  BY FirstShownFinds
<1>2. cycles[i].id \in Nat /\ i \in Nat /\ k \in Nat
  <2>1. cycles[i] \in Cycle
    OBVIOUS
  <2> QED
    BY <1>1, <2>1 DEF Cycle
<1> HIDE DEF k
<1>3. k = i
  BY <1>1, <1>2 DEF Sane
<1> QED
  BY <1>3 DEF Data, k

LEMMA UpdateShownChanges ==
  ASSUME NEW cycles \in Seq(Cycle), Sane(cycles), NEW cycle \in Cycle,
         NEW i \in DOMAIN UpdateShown(cycles, cycle)
  PROVE  /\ i \in DOMAIN cycles
         /\ \/ UpdateShown(cycles, cycle)[i] = cycle /\ cycles[i].id = cycle.id
            \/ UpdateShown(cycles, cycle)[i] = cycles[i] /\ cycles[i].id # cycle.id
<1> DEFINE k == FirstShown(cycles, cycle.id)
<1>1. /\ k \in 0 .. Len(cycles)
      /\ k # 0 => cycles[k].id = cycle.id
      /\ k = 0 => \A j \in DOMAIN cycles : cycles[j].id # cycle.id
  BY FirstShownFinds
<1>2. UpdateShown(cycles, cycle) = IF k = 0 THEN cycles ELSE [cycles EXCEPT ![k] = cycle]
  BY DEF UpdateShown, ReplaceAt
<1>3. i \in DOMAIN cycles /\ DOMAIN cycles = 1 .. Len(cycles)
  BY UpdateShownKeeps
<1> HIDE DEF k
<1>4. CASE k = 0
  BY <1>1, <1>2, <1>3, <1>4
<1>5. CASE k # 0
  <2>1. k \in DOMAIN cycles
    BY <1>1, <1>3, <1>5
  <2>2. CASE i = k
    BY <1>1, <1>2, <1>3, <1>5, <2>1, <2>2
  <2>3. CASE i # k
    <3>1. UpdateShown(cycles, cycle)[i] = cycles[i]
      BY <1>2, <1>3, <1>5, <2>3
    <3>2. cycles[i].id # cycle.id
      <4>1. i < k \/ k < i
        BY <1>3, <2>1, <2>3
      <4>2. cycles[i].id < cycles[k].id \/ cycles[k].id < cycles[i].id
        BY <1>3, <2>1, <4>1 DEF Sane
      <4>3. cycles[i].id \in Nat /\ cycles[k].id \in Nat
        <5>1. cycles[i] \in Cycle /\ cycles[k] \in Cycle
          BY <1>3, <2>1
        <5> QED
          BY <5>1 DEF Cycle
      <4> QED
        BY <1>1, <1>5, <4>2, <4>3
    <3> QED
      BY <1>3, <3>1, <3>2
  <2> QED
    BY <2>2, <2>3
<1> QED
  BY <1>4, <1>5

LEMMA DeleteShownChanges ==
  ASSUME NEW cycles \in Seq(Cycle), Sane(cycles), NEW id \in Nat,
         NEW i \in DOMAIN DeleteShown(cycles, id)
  PROVE  /\ DeleteShown(cycles, id)[i].id # id
         /\ \E j \in DOMAIN cycles : DeleteShown(cycles, id)[i] = cycles[j]
<1> DEFINE rest == DeleteShown(cycles, id)
           k == FirstShown(cycles, id)
<1>1. /\ k \in 0 .. Len(cycles)
      /\ k # 0 => cycles[k].id = id
      /\ k = 0 => \A j \in DOMAIN cycles : cycles[j].id # id
  BY FirstShownFinds
<1>2. /\ rest \in Seq(Cycle)
      /\ k = 0 => rest = cycles
      /\ k # 0 => \A j \in 1 .. Len(rest) : Old(j, k) \in DOMAIN cycles /\ rest[j] = cycles[Old(j, k)]
  BY DeleteShownKeeps
<1>3. i \in DOMAIN rest
  OBVIOUS
<1> HIDE DEF rest, k
<1>4. CASE k = 0
  BY <1>1, <1>2, <1>3, <1>4 DEF rest
<1>5. CASE k # 0
  <2>1. i \in 1 .. Len(rest) /\ Len(rest) \in Nat /\ DOMAIN cycles = 1 .. Len(cycles)
    BY <1>2, <1>3
  <2>2. /\ Old(i, k) \in DOMAIN cycles /\ rest[i] = cycles[Old(i, k)]
        /\ k \in DOMAIN cycles /\ cycles[k].id = id
    BY <1>1, <1>2, <1>5, <2>1
  <2>3. Old(i, k) < k \/ k < Old(i, k)
    BY <1>1, <2>1 DEF Old
  <2>4. cycles[Old(i, k)].id # id
    BY <2>2, <2>3 DEF Sane
  <2> QED
    BY <2>2, <2>4 DEF rest
<1> QED
  BY <1>4, <1>5

\* Where the schedule of a listed cycle comes from, once a change was answered.
LEMMA AnswerChanges ==
  ASSUME NEW cycles \in Seq(Cycle), Sane(cycles), NEW c, CallTypeOK(c), Succeeded(c),
         c.op # "GET", NEW shown \in Seq(Cycle), Sane(shown), shown = storeReducer(cycles, c),
         c.op = "PUT" => c.answer[1] = [id |-> c.id, body |-> c.body],
         NEW i \in DOMAIN shown
  PROVE  \/ /\ c.op \in {"PUT", "DELETE"} => shown[i].id # c.id
            /\ \E j \in DOMAIN cycles : shown[i].id = cycles[j].id
            /\ Data(shown, shown[i].id) = Data(cycles, shown[i].id)
         \/ /\ c.op = "PUT" /\ shown[i].id = c.id
            /\ \E j \in DOMAIN cycles : shown[i].id = cycles[j].id
            /\ Data(shown, shown[i].id) = c.body
         \/ /\ c.op = "POST" /\ shown[i].id = c.answer[1].id
<1>1. Data(shown, shown[i].id) = shown[i].body
  BY DataIs
<1>2. \A j \in DOMAIN cycles : Data(cycles, cycles[j].id) = cycles[j].body
  BY DataIs
<1>3. c.op \in {"POST", "PUT"} => c.answer[1] \in Cycle
  BY DEF CallTypeOK, Succeeded
<1>4. CASE c.op = "POST"
  <2>1. shown = Append(cycles, c.answer[1])
    BY <1>4 DEF storeReducer
  <2>2. shown[i] = c.answer[1] \/ (i \in DOMAIN cycles /\ shown[i] = cycles[i])
    BY <1>3, <1>4, <2>1, AppendProperties
  <2> QED
    BY <1>1, <1>2, <1>4, <2>2
<1>5. CASE c.op = "PUT"
  <2>1. shown = UpdateShown(cycles, c.answer[1])
    BY <1>5 DEF storeReducer
  <2>2. /\ i \in DOMAIN cycles
        /\ \/ shown[i] = c.answer[1] /\ cycles[i].id = c.answer[1].id
           \/ shown[i] = cycles[i] /\ cycles[i].id # c.answer[1].id
    BY <1>3, <1>5, <2>1, UpdateShownChanges
  <2>3. c.answer[1].id = c.id /\ c.answer[1].body = c.body
    BY <1>5
  <2> QED
    BY <1>1, <1>2, <1>5, <2>2, <2>3
<1>6. CASE c.op = "DELETE"
  <2>1. shown = DeleteShown(cycles, c.id) /\ c.id \in Nat
    BY <1>6 DEF storeReducer, CallTypeOK
  <2>2. shown[i].id # c.id /\ \E j \in DOMAIN cycles : shown[i] = cycles[j]
    BY <2>1, DeleteShownChanges
  <2> QED
    BY <1>1, <1>2, <1>6, <2>2
<1> QED
  BY <1>4, <1>5, <1>6 DEF CallTypeOK

-----------------------------------------------------------------------------
(* A call of the page is over. *)

LEMMA GoneCalls ==
  ASSUME TypeInv, NEW c \in calls, c.tab = Page, calls' = calls \ {c}
  PROVE  /\ Loading(Page)' => Loading(Page)
         /\ \A op, id : Of(Page, op, id)' =
              IF op = c.op /\ id = c.id THEN {} ELSE Of(Page, op, id)
<1>1. Page # Nobody
  BY OnePage, DashboardAssumption
<1>2. ASSUME NEW op, NEW id
      PROVE  Of(Page, op, id)' = IF op = c.op /\ id = c.id THEN {} ELSE Of(Page, op, id)
  <2>1. CASE op = c.op /\ id = c.id
    <3>1. ASSUME NEW d \in calls, d.tab = Page, d.op = op, d.id = id
          PROVE  d = c
      BY <1>1, <2>1, <3>1 DEF TypeInv, Distinct
    <3> QED
      BY <2>1, <3>1 DEF Of
  <2>2. CASE ~ (op = c.op /\ id = c.id)
    BY <2>2 DEF Of
  <2> QED
    BY <2>1, <2>2
<1>3. Loading(Page)' => Loading(Page)
  BY DEF Loading, Of
<1> QED
  BY <1>2, <1>3

LEMMA EndedOK ==
  ASSUME NEW x, ItemOK(x), NEW c
  PROVE  LET y == Ended(x, c) IN
         /\ ItemOK(y) /\ y.form = x.form /\ y.edited = x.edited /\ y.carried = x.carried
         /\ (y.saving <=> x.saving /\ c.op # "PUT")
         /\ (y.deleting <=> x.deleting /\ c.op # "DELETE")
<1> DEFINE y == Ended(x, c)
           saving == x.saving /\ c.op # "PUT"
           deleting == x.deleting /\ c.op # "DELETE"
<1>1. x \in Item /\ saving \in BOOLEAN /\ deleting \in BOOLEAN
  BY DEF ItemOK
<1>2. y = [x EXCEPT !.saving = saving, !.deleting = deleting]
  BY DEF Ended
<1> HIDE DEF y, saving, deleting
<1>3. /\ y \in Item /\ y.form = x.form /\ y.edited = x.edited /\ y.carried = x.carried
      /\ y.saving = saving /\ y.deleting = deleting /\ y.open = x.open /\ y.wheel = x.wheel
  BY <1>1, <1>2 DEF Item
<1>4. deleting => x.deleting
  BY DEF deleting
<1>5. ItemOK(y)
  BY <1>3, <1>4 DEF ItemOK
<1> QED
  BY <1>3, <1>5 DEF y, saving, deleting

LEMMA SavedOK ==
  ASSUME NEW x, ItemOK(x)
  PROVE  LET y == Saved(x)
         IN  /\ ItemOK(y) /\ y.form = x.form /\ y.saving = x.saving /\ y.deleting = x.deleting
<1> DEFINE y == Saved(x)
<1>1. x \in Item
  BY DEF ItemOK
<1>2. y = [x EXCEPT !.open = FALSE, !.ownDay = FALSE, !.edited = {}, !.carried = {}]
  BY DEF Saved
<1> HIDE DEF y
<1>3. /\ y \in Item /\ y.form = x.form /\ y.saving = x.saving /\ y.deleting = x.deleting
      /\ ~ y.open /\ y.wheel = x.wheel
  BY <1>1, <1>2 DEF Item
<1>4. ItemOK(y)
  BY <1>3 DEF ItemOK
<1> QED
  BY <1>3, <1>4 DEF y

\* The flag of the item a call was about goes down with the call...
LEMMA EndedTold ==
  ASSUME TypeInv, ItemsInv, NEW c \in calls, c.tab = Page, calls' = calls \ {c},
         c.id \in DOMAIN items
  PROVE  LET x == Ended(items[c.id], c) IN
         /\ ItemOK(x) /\ x.form = items[c.id].form
         /\ x.edited = items[c.id].edited /\ x.carried = items[c.id].carried
         /\ x.saving = (Of(Page, "PUT", c.id)' # {})
         /\ x.deleting = (Of(Page, "DELETE", c.id)' # {})
<1> DEFINE old == items[c.id]
           x == Ended(old, c)
<1>1. ItemOK(old) /\ Told(c.id)
  BY DEF ItemsInv
<1>3. /\ old.saving = (Of(Page, "PUT", c.id) # {})
      /\ old.deleting = (Of(Page, "DELETE", c.id) # {})
  BY <1>1 DEF Told
<1> HIDE DEF old
<1>4. /\ ItemOK(x) /\ x.form = old.form
      /\ x.edited = old.edited /\ x.carried = old.carried
      /\ (x.saving <=> old.saving /\ c.op # "PUT")
      /\ (x.deleting <=> old.deleting /\ c.op # "DELETE")
  BY <1>1, EndedOK
<1> HIDE DEF x
<1>5. /\ Of(Page, "PUT", c.id)' = IF c.op = "PUT" THEN {} ELSE Of(Page, "PUT", c.id)
      /\ Of(Page, "DELETE", c.id)' = IF c.op = "DELETE" THEN {} ELSE Of(Page, "DELETE", c.id)
  BY GoneCalls
<1>6. /\ x.saving = (Of(Page, "PUT", c.id)' # {})
      /\ x.deleting = (Of(Page, "DELETE", c.id)' # {})
  BY <1>3, <1>4, <1>5 DEF ItemOK, Item
<1> QED
  BY <1>4, <1>6 DEF old, x

\* ... and no other's.
LEMMA OthersTold ==
  ASSUME TypeInv, ItemsInv, NEW c \in calls, c.tab = Page, calls' = calls \ {c},
         NEW id \in DOMAIN items, id # c.id
  PROVE  /\ items[id].saving = (Of(Page, "PUT", id)' # {})
         /\ items[id].deleting = (Of(Page, "DELETE", id)' # {})
<1>1. Told(id)
  BY DEF ItemsInv
<1>2. Of(Page, "PUT", id)' = Of(Page, "PUT", id) /\ Of(Page, "DELETE", id)' = Of(Page, "DELETE", id)
  BY GoneCalls
<1> QED
  BY <1>1, <1>2 DEF Told

LEMMA BreakKeeps ==
  ASSUME SaneInv, ItemsInv, CallsInv, NEW c \in calls, BreakItem(c)
  PROVE  ItemsInv' /\ CallsInv'
<1>1. /\ TypeInv /\ calls' = calls \ {c} /\ UNCHANGED <<store, view, selected>>
      /\ items' = [id \in DOMAIN items |-> IF id = c.id THEN Ended(items[id], c) ELSE items[id]]
  BY DEF BreakItem, Break, Hiccup, SaneInv, Base
<1>2. c.tab = Page
  BY <1>1, OnePage DEF BreakItem, Break, TypeInv, CallTypeOK
<1>3. "raced" \notin excuse'[Page]
  BY <1>1, <1>2, OnePage DEF BreakItem, Break, CallsInv, TypeInv
<1>4. ASSUME NEW id \in DOMAIN items
      PROVE  ItemOK(items'[id]) /\ Told(id)' /\ items'[id].form = items[id].form
  <2>1. /\ ItemOK(items'[id]) /\ items'[id].form = items[id].form
        /\ items'[id].edited = items[id].edited /\ items'[id].carried = items[id].carried
        /\ items'[id].saving = (Of(Page, "PUT", id)' # {})
        /\ items'[id].deleting = (Of(Page, "DELETE", id)' # {})
    <3>1. CASE id = c.id
      <4>1. items'[c.id] = Ended(items[c.id], c)
        BY <1>1, <3>1
      <4> QED
        BY <1>1, <1>2, <3>1, <4>1, EndedTold
    <3>2. CASE id # c.id
      <4>1. items'[id] = items[id]
        BY <1>1, <3>2
      <4> QED
        BY <1>1, <1>2, <3>2, <4>1, OthersTold DEF ItemsInv
    <3> QED
      BY <3>1, <3>2
  <2>2. Told(id)
    BY DEF ItemsInv
  <2>3. Untouched(items'[id], Data(view'[Page], id))
    BY <1>1, <2>1, <2>2 DEF Told, Untouched
  <2> QED
    BY <1>1, <2>1, <2>3 DEF Told
<1>5. DOMAIN items' = DOMAIN items
  BY <1>1
<1>6. ItemsInv'
  <2>1. Shown(Page)' = Shown(Page) /\ selected' \in Nat \cup {NoId}
    BY <1>1 DEF Shown, ItemsInv
  <2>2. DOMAIN items' = Shown(Page)'
    BY <1>5, <2>1 DEF ItemsInv
  <2>3. \A id \in DOMAIN items' : ItemOK(items'[id]) /\ Told(id)'
    BY <1>4, <1>5
  <2> QED
    BY <2>1, <2>2, <2>3 DEF ItemsInv, ItemOK
<1>7. Loading(Page)' => Loading(Page)
  BY <1>1, <1>2, GoneCalls
<1>8. CallsInv'
  BY <1>1, <1>3, <1>4, <1>5, <1>7 DEF CallsInv, Pending, Succeeded, Readable, config
<1> QED
  BY <1>6, <1>8

\* A list item of the page after an answer is as it was, is the one just saved, or is
\* new and no call is about it.
Kept(c, id) ==
  /\ id \in DOMAIN items
  /\ ~ (Succeeded(c) /\ c.op \in {"PUT", "DELETE"} /\ id = c.id)
  /\ Data(view'[Page], id) = Data(view[Page], id)

JustSaved(c, id) ==
  /\ id \in DOMAIN items
  /\ c.op = "PUT" /\ Succeeded(c) /\ id = c.id
  /\ Data(view'[Page], id) = c.body

New(id) ==
  /\ id \notin DOMAIN items
  /\ Of(Page, "PUT", id)' = {} /\ Of(Page, "DELETE", id)' = {}

LEMMA DeliverView ==
  ASSUME SaneInv, SaneInv', ItemsInv, CallsInv, "raced" \notin excuse'[Page],
         NEW c \in calls, c.tab = Page, Deliver(c),
         NEW id \in {view'[Page][i].id : i \in DOMAIN view'[Page]}
  PROVE  Kept(c, id) \/ JustSaved(c, id) \/ New(id)
<1> DEFINE cycles == view[Page]
<1>1. PICK shown : shown = view'[Page]
  OBVIOUS
<1>2. /\ TypeInv /\ TypeInv' /\ CallTypeOK(c) /\ calls' = calls \ {c}
      /\ cycles \in Seq(Cycle) /\ shown \in Seq(Cycle)
  BY <1>1, OnePage DEF SaneInv, Base, TypeInv, Deliver
<1>3. /\ Sane(cycles) /\ Sane(shown)
      /\ \A d \in calls : d.tab = Page => CallInv(d, Page)
  BY <1>1, OnePage DEF SaneInv, TabInv, CallsInv, Sane
<1>4. shown = IF Succeeded(c) THEN storeReducer(cycles, c) ELSE cycles
  BY <1>1, <1>2, OnePage DEF Deliver, TypeInv
<1>5. DOMAIN items = {cycles[i].id : i \in DOMAIN cycles}
  BY DEF ItemsInv, Shown
<1>6. PICK i \in DOMAIN shown : shown[i].id = id
  BY <1>1
<1> HIDE DEF cycles
<1>7. CASE ~ Succeeded(c)
  BY <1>1, <1>4, <1>5, <1>6, <1>7 DEF Kept, cycles
<1>8. CASE Succeeded(c) /\ c.op = "GET"
  <2>1. Loading(Page) /\ c.id = NoId
    BY <1>2, <1>8 DEF Loading, Of, CallTypeOK
  <2>2. cycles = <<>>
    BY <2>1 DEF CallsInv, cycles
  <2>3. \A d \in calls : d.tab = Page => d.op = "GET"
    BY <1>3, <2>1 DEF CallInv
  <2> QED
    BY <1>2, <1>5, <2>2, <2>3 DEF New, Of
<1>9. CASE Succeeded(c) /\ c.op # "GET"
  <2>1. c.op = "PUT" => c.answer[1] = [id |-> c.id, body |-> c.body]
    BY <1>9 DEF CallsInv
  <2>2. \/ /\ c.op \in {"PUT", "DELETE"} => shown[i].id # c.id
           /\ \E j \in DOMAIN cycles : shown[i].id = cycles[j].id
           /\ Data(shown, shown[i].id) = Data(cycles, shown[i].id)
        \/ /\ c.op = "PUT" /\ shown[i].id = c.id
           /\ \E j \in DOMAIN cycles : shown[i].id = cycles[j].id
           /\ Data(shown, shown[i].id) = c.body
        \/ /\ c.op = "POST" /\ shown[i].id = c.answer[1].id
    BY <1>2, <1>3, <1>4, <1>9, <2>1, AnswerChanges
  <2>3. CASE /\ c.op \in {"PUT", "DELETE"} => id # c.id
             /\ id \in DOMAIN items /\ Data(shown, id) = Data(cycles, id)
    BY <1>1, <2>3 DEF Kept, cycles
  <2>4. CASE c.op = "PUT" /\ id = c.id /\ id \in DOMAIN items /\ Data(shown, id) = c.body
    BY <1>1, <1>9, <2>4 DEF JustSaved
  <2>5. CASE c.op = "POST" /\ id = c.answer[1].id
    <3>1. \A d \in calls : Pending(d) => d.id # id
      <4>1. \A d \in calls : Pending(d) => d.id < id
        BY <1>9, <2>5 DEF CallsInv
      <4>2. \A d \in calls : Pending(d) => d.id \in Nat
        BY <1>2 DEF TypeInv, CallTypeOK, Pending
      <4> QED
        BY <4>1, <4>2
    <3>2. id \notin DOMAIN items
      <4>1. Above(c.answer[1], cycles)
        BY <1>3, <1>9, <2>5 DEF CallInv, cycles
      <4>2. \A j \in DOMAIN cycles : cycles[j].id < id
        BY <2>5, <4>1 DEF Above
      <4>3. \A j \in DOMAIN cycles : cycles[j].id \in Nat
        <5>1. \A j \in DOMAIN cycles : cycles[j] \in Cycle
          BY <1>2
        <5> QED
          BY <5>1 DEF Cycle
      <4> QED
        BY <1>5, <4>2, <4>3
    <3> QED
      BY <1>2, <3>1, <3>2 DEF New, Of, Pending
  <2> QED
    BY <1>5, <1>6, <2>2, <2>3, <2>4, <2>5
<1> QED
  BY <1>7, <1>8, <1>9

LEMMA DeliverItem ==
  ASSUME SaneInv, SaneInv', ItemsInv, CallsInv, "raced" \notin excuse'[Page],
         NEW c \in calls, c.tab = Page, DeliverToItems(c),
         NEW id \in {view'[Page][i].id : i \in DOMAIN view'[Page]}
  PROVE  /\ ItemOK(items'[id]) /\ Told(id)'
         /\ \/ id \in DOMAIN items /\ items'[id].form = items[id].form
            \/ New(id)
<1> DEFINE of(i) == IF i # c.id THEN items[i]
                    ELSE IF c.op = "PUT" /\ Succeeded(c) THEN Saved(Ended(items[i], c))
                    ELSE Ended(items[i], c)
           shown == {view'[Page][i].id : i \in DOMAIN view'[Page]}
<1>1. items' = [i \in shown |-> IF i \in DOMAIN items THEN of(i) ELSE Appeared(Data(view'[Page], i))]
  BY DEF DeliverToItems
<1>2. items'[id] = IF id \in DOMAIN items THEN of(id) ELSE Appeared(Data(view'[Page], id))
  BY <1>1
<1>3. TypeInv /\ TypeInv' /\ calls' = calls \ {c} /\ Deliver(c)
  BY DEF SaneInv, Base, DeliverToItems, Deliver
<1>4. Kept(c, id) \/ JustSaved(c, id) \/ New(id)
  BY <1>3, DeliverView
<1>5. CASE Kept(c, id) /\ id # c.id
  <2>1. items'[id] = items[id]
    BY <1>2, <1>5 DEF Kept
  <2>2. ItemOK(items[id]) /\ Told(id) /\ id \in DOMAIN items
    BY <1>5 DEF ItemsInv, Kept
  <2>3. /\ items[id].saving = (Of(Page, "PUT", id)' # {})
        /\ items[id].deleting = (Of(Page, "DELETE", id)' # {})
    BY <1>3, <1>5, <2>2, OthersTold
  <2> QED
    BY <1>5, <2>1, <2>2, <2>3 DEF Told, Kept
<1>6. CASE Kept(c, id) /\ id = c.id
  <2>1. /\ items'[c.id] = Ended(items[c.id], c) /\ c.id \in DOMAIN items
        /\ Data(view'[Page], c.id) = Data(view[Page], c.id)
    BY <1>2, <1>6 DEF Kept
  <2>2. /\ ItemOK(items'[c.id]) /\ items'[c.id].form = items[c.id].form
        /\ items'[c.id].edited = items[c.id].edited /\ items'[c.id].carried = items[c.id].carried
        /\ items'[c.id].saving = (Of(Page, "PUT", c.id)' # {})
        /\ items'[c.id].deleting = (Of(Page, "DELETE", c.id)' # {})
    BY <1>3, <2>1, EndedTold
  <2>3. Told(c.id)
    BY <2>1 DEF ItemsInv
  <2>4. Untouched(items'[c.id], Data(view'[Page], c.id))
    BY <2>1, <2>2, <2>3 DEF Told, Untouched
  <2>5. id = c.id
    BY <1>6
  <2> QED
    BY <2>1, <2>2, <2>4, <2>5 DEF Told
<1>7. CASE JustSaved(c, id)
  <2>1. /\ items'[c.id] = Saved(Ended(items[c.id], c)) /\ c.id \in DOMAIN items /\ id = c.id
        /\ Data(view'[Page], c.id) = c.body /\ c.op = "PUT"
    BY <1>2, <1>7 DEF JustSaved
  <2>2. PICK x : x = Ended(items[c.id], c)
    OBVIOUS
  <2>3. /\ ItemOK(x) /\ x.form = items[c.id].form
        /\ x.saving = (Of(Page, "PUT", c.id)' # {})
        /\ x.deleting = (Of(Page, "DELETE", c.id)' # {})
    BY <1>3, <2>1, <2>2, EndedTold
  <2>4. items'[c.id] = Saved(x)
    BY <2>1, <2>2
  <2>5. ItemOK(Saved(x)) /\ Saved(x).form = x.form /\ Saved(x).saving = x.saving
        /\ Saved(x).deleting = x.deleting
    BY <2>3, SavedOK
  <2>6. c.body = items[c.id].form
    BY <2>1 DEF CallsInv
  <2>7. Untouched(items'[c.id], Data(view'[Page], c.id))
    BY <2>1, <2>3, <2>4, <2>5, <2>6 DEF Untouched
  <2> QED
    BY <2>1, <2>3, <2>4, <2>5, <2>7 DEF Told
<1>8. CASE New(id)
  <2>1. items'[id] = Appeared(Data(view'[Page], id))
    BY <1>2, <1>8 DEF New
  <2>2. PICK body : body = Data(view'[Page], id)
    OBVIOUS
  <2>3. body \in Bodies
    <3>1. PICK cycles : cycles = view'[Page]
      OBVIOUS
    <3>2. cycles \in Seq(Cycle)
      BY <1>3, <3>1, OnePage DEF TypeInv
    <3> QED
      BY <2>2, <3>1, <3>2, DataIsBody
  <2>4. ItemOK(Appeared(body)) /\ ~ Appeared(body).saving /\ ~ Appeared(body).deleting
    BY <2>3, AppearedOK
  <2>5. Appeared(body).form = body
    BY DEF Appeared
  <2>6. Appeared(body).saving = FALSE /\ Appeared(body).deleting = FALSE
    BY DEF Appeared
  <2>7. Untouched(items'[id], Data(view'[Page], id))
    BY <2>1, <2>2, <2>5 DEF Untouched
  <2> QED
    BY <1>8, <2>1, <2>2, <2>4, <2>6, <2>7 DEF Told, New
<1> QED
  BY <1>4, <1>5, <1>6, <1>7, <1>8

LEMMA DeliverKeeps ==
  ASSUME SaneInv, SaneInv', ItemsInv, CallsInv, NEW c \in calls, DeliverToItems(c)
  PROVE  ItemsInv' /\ CallsInv'
<1>1. TypeInv /\ TypeInv' /\ calls' = calls \ {c} /\ Deliver(c) /\ UNCHANGED store
  BY DEF SaneInv, Base, DeliverToItems, Deliver
<1>2. c.tab = Page
  BY <1>1, OnePage DEF Deliver, TypeInv, CallTypeOK
<1>3. "raced" \notin excuse'[Page]
  BY <1>1, <1>2, OnePage DEF Deliver, CallsInv, TypeInv
<1>4. DOMAIN items' = {view'[Page][i].id : i \in DOMAIN view'[Page]}
  BY DEF DeliverToItems
<1>5. \A id \in DOMAIN items' :
        /\ ItemOK(items'[id]) /\ Told(id)'
        /\ (id \in DOMAIN items /\ items'[id].form = items[id].form) \/ New(id)
  BY <1>2, <1>3, <1>4, DeliverItem
<1>6. selected' \in Nat \cup {NoId}
  BY DEF DeliverToItems, ItemsInv
<1>7. ItemsInv'
  BY <1>4, <1>5, <1>6 DEF ItemsInv, Shown
<1>8. ~ Loading(Page)'
  <2>1. CASE c.op = "GET"
    <3>1. c.id = NoId
      BY <1>1, <2>1 DEF TypeInv, CallTypeOK
    <3> QED
      BY <1>1, <1>2, <2>1, <3>1, GoneCalls DEF Loading
  <2>2. CASE c.op # "GET"
    <3>1. CallInv(c, Page)
      BY <1>2, OnePage DEF SaneInv, TabInv, CallsInv
    <3> QED
      BY <1>1, <1>2, <2>2, <3>1, GoneCalls DEF CallInv
  <2> QED
    BY <2>1, <2>2
<1>9. ASSUME NEW d \in calls', d.tab = Page, d.op = "PUT", d.id \in DOMAIN items'
      PROVE  d.body = items'[d.id].form
  <2>1. ~ New(d.id)
    BY <1>9 DEF New, Of
  <2>2. d.id \in DOMAIN items /\ items'[d.id].form = items[d.id].form
    BY <1>5, <1>9, <2>1
  <2> QED
    BY <1>1, <1>9, <2>2 DEF CallsInv
<1>10. CallsInv'
  BY <1>1, <1>3, <1>8, <1>9 DEF CallsInv, Pending, Succeeded, Readable, config
<1> QED
  BY <1>7, <1>10

-----------------------------------------------------------------------------
(* The theorems. *)

FormInv == SaneInv /\ ItemsInv /\ CallsInv

LEMMA InitForm == FormInit => FormInv
<1> SUFFICES ASSUME FormInit PROVE FormInv
  OBVIOUS
<1>1. Init /\ selected = NoId /\ items = <<>>
  BY DEF FormInit
<1>2. SaneInv
  BY <1>1, InitSane
<1>3. view[Page] = <<>> /\ excuse[Page] = {} /\ \A c \in calls : c.op = "GET"
  BY <1>1, OnePage, MountTyped DEF Init
<1>4. ItemsInv
  BY <1>1, <1>3 DEF ItemsInv, Shown
<1>5. CallsInv
  BY <1>3 DEF CallsInv, Pending
<1> QED
  BY <1>2, <1>4, <1>5 DEF FormInv

LEMMA FormStep == FormInv /\ [FormNext]_allVars => FormInv'
<1> SUFFICES ASSUME FormInv, [FormNext]_allVars PROVE FormInv'
  OBVIOUS
<1>1. SaneInv /\ ItemsInv /\ CallsInv /\ [Next]_vars
  BY FormStepIsStep DEF FormInv
<1>2. SaneInv' /\ StoreInv' /\ CounterGrows /\ TypeInv
  BY <1>1, SaneStep
<1>3. ASSUME UNCHANGED allVars
      PROVE  ItemsInv' /\ CallsInv'
  BY <1>1, <1>3, ItemsSame DEF allVars, formVars, ItemsInv
<1>4. ASSUME ClickAway
      PROVE  ItemsInv' /\ CallsInv'
  BY <1>1, <1>4, ItemsSame DEF ClickAway
<1>5. ASSUME NEW id \in DOMAIN items, Touches(id)
      PROVE  ItemsInv' /\ CallsInv'
  BY <1>1, <1>2, <1>5, TouchKeeps
<1>6. ASSUME NEW id \in DOMAIN items, Save(id) \/ DeleteItem(id)
      PROVE  ItemsInv' /\ CallsInv'
  BY <1>1, <1>6, SaveKeeps, DeleteKeeps
<1>7. ASSUME NEW body \in Bodies, CreateItem(body)
      PROVE  ItemsInv' /\ CallsInv'
  BY <1>1, <1>7, CreateKeeps
<1>8. ASSUME ReloadPage
      PROVE  ItemsInv' /\ CallsInv'
  BY <1>1, <1>8, ReloadKeeps
<1>9. ASSUME NEW c \in calls, (Serve(c) /\ UNCHANGED formVars) \/ BreakItem(c) \/ DeliverToItems(c)
      PROVE  ItemsInv' /\ CallsInv'
  BY <1>1, <1>2, <1>9, ServeKeeps, BreakKeeps, DeliverKeeps
<1>10. ItemsInv' /\ CallsInv'
  BY <1>3, <1>4, <1>5, <1>6, <1>7, <1>8, <1>9 DEF FormNext, Touches
<1> QED
  BY <1>2, <1>10 DEF FormInv

LEMMA FormInvariant == FormSpec => []FormInv
<1> QED
  BY InitForm, FormStep, PTL DEF FormSpec

\* A flag of a form or a list item is up exactly while its call is in flight, through
\* closed dialogs, deletions while a save runs, failures and reloads
\* (_cycleAction.jsx:34, 50, _updateContent.jsx:26, 45).
THEOREM FlagsAreTrue == FormSpec => []FormTypeOK
<1>1. FormInv => FormTypeOK
  <2> SUFFICES ASSUME FormInv PROVE FormTypeOK
    OBVIOUS
  <2>1. \A id \in DOMAIN items : ItemOK(items[id]) /\ Told(id)
    BY DEF FormInv, ItemsInv
  <2>2. selected \in Nat \cup {NoId} /\ DOMAIN items = Shown(Page)
    BY DEF FormInv, ItemsInv
  <2> QED
    BY <2>1, <2>2 DEF FormTypeOK, ItemOK, Item, Told
<1> QED
  BY <1>1, FormInvariant, PTL

\* A form nobody touched shows what the list shows (_updateContent.jsx:18).
THEOREM FormsTellTheTruth == FormSpec => []FormTellsTruth
<1>1. FormInv => FormTellsTruth
  <2> SUFFICES ASSUME FormInv, NEW id \in DOMAIN items,
                      items[id].edited \cup items[id].carried = {}
               PROVE  items[id].form = Data(view[Page], id)
    BY DEF FormTellsTruth
  <2>1. ItemOK(items[id]) /\ Untouched(items[id], Data(view[Page], id)) /\ id \in Shown(Page)
    BY DEF FormInv, ItemsInv, Told
  <2>2. items[id].form \in Bodies /\ Data(view[Page], id) \in Bodies
    <3>1. view[Page] \in Seq(Cycle)
      BY OnePage DEF FormInv, SaneInv, Base, TypeInv
    <3> QED
      BY <2>1, <3>1, DataIsBody DEF ItemOK, Item, Shown
  <2>3. \A field \in Fields : items[id].form[field] = Data(view[Page], id)[field]
    BY <2>1 DEF Untouched
  <2> QED
    BY <2>2, <2>3, SameBody
<1> QED
  BY <1>1, FormInvariant, PTL

\* The forms keep a page's calls apart as the guards of Dashboard say, so that all that
\* is proved of the dashboard holds of the page with its forms (_cycleAction.jsx:78-106).
THEOREM FormsImplementDashboard == FormSpec => ImplementsDashboard
<1>1. FormInit => Init
  BY DEF FormInit
<1>2. FormInv /\ [FormNext]_allVars => [Next]_vars
  BY FormStepIsStep DEF FormInv
<1> QED
  BY <1>1, <1>2, FormInvariant, PTL DEF FormSpec, Spec, ImplementsDashboard

-----------------------------------------------------------------------------
(* What a save does to the card. *)

\* Only the server writes to the card, and it answers the call it serves.
LEMMA WriterIsServed ==
  ASSUME Base, [Next]_vars, store' # store, Readable(Owner)', NEW c \in calls, c \notin calls'
  PROVE  ServeChange(c)
<1>1. PICK b \in calls : Serve(b)
  BY DEF Next, vars, SubmitCreate, SubmitUpdate, SubmitDelete, Send, Reload, Break, Hiccup,
         Deliver
<1>2. ~ ServeList(b) /\ ~ RefuseChange(b)
  BY DEF ServeList, RefuseChange
<1>3. ~ TearChange(b)
  <2> SUFFICES ASSUME TearChange(b) PROVE FALSE
    OBVIOUS
  <2>1. store'[Owner] = Torn
    BY DashboardAssumption DEF TearChange, Lose, Base, StoreInv
  <2> QED
    BY <2>1, StoreAssumption DEF Readable
<1>4. ServeChange(b)
  BY <1>1, <1>2, <1>3 DEF Serve
<1>5. \A d \in calls : d # b => d \in calls'
  BY <1>4 DEF ServeChange, Answer
<1> QED
  BY <1>4, <1>5

\* A page with no excuse shows the cycle it saves as the card has it.
LEMMA SavedIsShown ==
  ASSUME SaneInv, AgreeInv(Page), excuse[Page] = {}, Readable(Owner),
         NEW c \in calls, c.tab = Page, c.op = "PUT", ~ Answered(c), c.id \in Shown(Page),
         ~ Gone(config.cycles, c.id)
  PROVE  Data(view[Page], c.id) = Data(config.cycles, c.id)
<1>1. /\ view[Page] \in Seq(Cycle) /\ Sane(view[Page])
      /\ CallInv(c, Page) /\ TypeInv /\ Page # Nobody
  BY OnePage, DashboardAssumption DEF SaneInv, Base, TypeInv, TabInv
<1>2. config.cycles \in Seq(Cycle) /\ Sane(config.cycles)
  BY DEF SaneInv, Base, StoreInv, WellFormed, Sane, Readable, config, Documents
<1>3. ShowsOtherwise(Page)
  BY <1>1 DEF CallInv, AgreeInv, Agrees
<1>4. PICK i \in DOMAIN view[Page] : view[Page][i].id = c.id
  BY DEF Shown
<1>5. PICK k \in DOMAIN config.cycles : config.cycles[k].id = c.id
  BY DEF Gone, Range
<1>6. view[Page][i] = config.cycles[k]
  <2> SUFFICES ASSUME view[Page][i] # config.cycles[k] PROVE FALSE
    OBVIOUS
  <2>1. view[Page][i] \in Range(view[Page]) /\ config.cycles[k] \in Range(config.cycles)
    BY DEF Range
  <2>2. PICK d \in calls : Yes(d, Page, "PUT") /\ d.id = c.id
    BY <1>3, <1>4, <1>5, <2>1 DEF ShowsOtherwise
  <2>3. d = c
    BY <1>1, <2>2 DEF Yes, TypeInv, Distinct
  <2> QED
    BY <2>2, <2>3 DEF Yes, Succeeded, Answered
<1>7. Data(view[Page], c.id) = view[Page][i].body
  BY <1>1, <1>4, DataIs
<1>8. Data(config.cycles, c.id) = config.cycles[k].body
  BY <1>2, <1>5, DataIs
<1> QED
  BY <1>6, <1>7, <1>8

LEMMA SaveWritesForm ==
  ASSUME FormInv, AgreeInv(Page), [Next]_vars, NEW c \in calls,
         c.op = "PUT", c.tab = Page, ~ Answered(c), c \notin calls', c.id \in DOMAIN items,
         Readable(Owner), Readable(Owner)', store' # store, excuse[Page] = {},
         NEW field \in Fields \ (items[c.id].edited \cup items[c.id].carried)
  PROVE  Data(config'.cycles, c.id)[field] = Data(config.cycles, c.id)[field]
<1>1. /\ SaneInv /\ Base /\ StoreInv /\ ItemsInv /\ CallsInv /\ CallTypeOK(c)
  BY DEF FormInv, SaneInv, Base, TypeInv
<1>2. ServeChange(c)
  BY <1>1, WriterIsServed
<1>3. /\ \A x : x \in Range(config'.cycles) <=>
           (x \in Range(config.cycles) /\ x.id # c.id) \/ x = Reply(c)[1]
      /\ ~ Gone(config.cycles, c.id)
  BY <1>1, <1>2, ChangedFile
<1>4. Reply(c)[1] = [id |-> c.id, body |-> c.body]
  BY <1>1, <1>2, ReplyIs DEF ServeChange
<1>5. Data(config'.cycles, c.id) = c.body
  <2>1. StoreInv'
    BY <1>1, SaneStep
  <2>2. PICK cycles : cycles = config'.cycles
    OBVIOUS
  <2>3. cycles \in Seq(Cycle) /\ Sane(cycles)
    BY <2>1, <2>2 DEF StoreInv, WellFormed, Sane, Readable, config, Documents
  <2>4. Reply(c)[1] \in Range(cycles)
    BY <1>3, <2>2
  <2>5. PICK i \in DOMAIN cycles : cycles[i] = [id |-> c.id, body |-> c.body]
    BY <1>4, <2>4 DEF Range
  <2>6. cycles[i].id = c.id /\ cycles[i].body = c.body
    BY <2>5
  <2>7. Data(cycles, cycles[i].id) = cycles[i].body
    BY <2>3, DataIs
  <2> QED
    BY <2>2, <2>6, <2>7
<1>6. c.body = items[c.id].form /\ Untouched(items[c.id], Data(view[Page], c.id))
      /\ c.id \in Shown(Page)
  BY <1>1 DEF CallsInv, ItemsInv, Told
<1>7. Data(view[Page], c.id) = Data(config.cycles, c.id)
  BY <1>1, <1>3, <1>6, SavedIsShown
<1> QED
  BY <1>5, <1>6, <1>7 DEF Untouched

\* Saving a form sends the whole cycle, and yet, on a page with no excuse, changes on the
\* card only the fields the user edited, and those a turned wheel carried along
\* (_updateContent.jsx:203, SD_Lite.ino:358-389).
THEOREM SavesChangeEditsOnly == FormSpec => SavesOnlyEdits
<1> DEFINE Inv == FormInv /\ AgreeInv(Page)
<1>1. FormInit => Inv
  BY InitForm, InitAgrees, OnePage DEF FormInit
<1>2. Inv /\ [FormNext]_allVars => Inv' /\ [Next]_vars
  <2> SUFFICES ASSUME Inv, [FormNext]_allVars PROVE Inv' /\ [Next]_vars
    OBVIOUS
  <2>1. FormInv' /\ [Next]_vars
    BY FormStep, FormStepIsStep DEF FormInv
  <2>2. StoreInv /\ TypeInv /\ TabInv(Page)
    BY OnePage DEF FormInv, SaneInv, Base
  <2>3. AgreeInv(Page)'
    BY <2>1, <2>2, StepAgrees, OnePage
  <2> QED
    BY <2>1, <2>3
<1>3. Inv /\ [FormNext]_allVars =>
        [\A c \in calls :
           /\ c.op = "PUT" /\ c.tab = Page /\ ~ Answered(c) /\ c \notin calls'
           /\ c.id \in DOMAIN items
           /\ Readable(Owner) /\ Readable(Owner)' /\ store' # store
           /\ excuse[Page] = {}
           => \A field \in Fields \ (items[c.id].edited \cup items[c.id].carried) :
                Data(config'.cycles, c.id)[field] = Data(config.cycles, c.id)[field]]_allVars
  BY <1>2, SaveWritesForm
<1> QED
  BY <1>1, <1>2, <1>3, PTL DEF FormSpec, SavesOnlyEdits

=============================================================================
