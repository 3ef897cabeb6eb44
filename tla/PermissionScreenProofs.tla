----------------------- MODULE PermissionScreenProofs -----------------------
(***************************************************************************)
(* Proofs about PermissionScreen: the table that is shown is that of the   *)
(* selected association, and saved settings stay, for any number of        *)
(* screens, associations and cells, of loads under way and of actions.     *)
(***************************************************************************)
EXTENDS PermissionScreen, TLAPS

-----------------------------------------------------------------------------
(* The inductive invariant *)

\* A screen that is not suspect waits for at most one load, that of the association selected
\* by now; when it waits for none it holds the table of that association.
OneLoad ==
  \A x \in Screens \ suspect :
    /\ \A i, j \in Underway(x) : i = j
    /\ \A i \in Underway(x) : isLoading[x] /\ load[x][i].scope = selected[x]
    /\ Underway(x) = {} => origin[x].scope = selected[x]

\* Nobody has saved rows of s or default rows since the counts v.
Current(s, v) == \A a \in {s, None} : v[a] = saves[a]

\* The cells t were read for scope s at the counts v, and those in free were edited since:
\* the others still are what the server holds, unless somebody has saved in between.
Coherent(s, v, t, free) ==
  /\ \A a \in Scopes : v[a] <= saves[a]
  /\ Current(s, v) => \A c \in Cells \ free : t[c] = Effective(s)[c]

\* So it is with every table on its way: answers to loads, edited tables, and saves.
Coherence ==
  \A x \in Screens :
    /\ edited[x] # None => Coherent(origin[x].scope, origin[x].saves, edited[x], touched[x])
    /\ \A i \in Slots : load[x][i].state = "served" =>
         Coherent(load[x][i].scope, load[x][i].saves, load[x][i].cells, {})
    /\ put[x] # NoCall =>
         Coherent(put[x].origin.scope, put[x].origin.saves, put[x].cells, put[x].touched)

IInv == TypeOK /\ OneLoad /\ Coherence /\ SettingStays

LEMMA InitInv == Init => IInv
<1>. SUFFICES ASSUME Init PROVE IInv
  OBVIOUS
<1>. USE Matrix DEF Init, Scopes
<1>1. TypeOK
  BY DEF TypeOK, Table, Counts, Origin, Nowhere, Load, Put
<1>2. OneLoad
  BY DEF OneLoad, Underway, Nowhere
<1>3. Coherence
  BY DEF Coherence, NoCall
<1>4. SettingStays
  BY DEF SettingStays
<1>. QED
  BY <1>1, <1>2, <1>3, <1>4 DEF IInv

-----------------------------------------------------------------------------
(* Types *)

\* A call under way has the type its state says.
LEMMA CallTypes ==
  ASSUME TypeOK, NEW x \in Screens
  PROVE  /\ \A i \in Slots : load[x][i] # NoCall => load[x][i] \in Load
         /\ \A i \in Slots : load[x][i].state = "sent" =>
              load[x][i] \in [state : {"sent"}, scope : Scopes, ofSave : BOOLEAN]
         /\ \A i \in Slots : load[x][i].state = "served" =>
              load[x][i] \in [state : {"served"}, scope : Scopes, ofSave : BOOLEAN,
                              cells : Table, saves : Counts]
         /\ put[x] # NoCall => put[x] \in Put
         /\ put[x].state \in {"sent", "served"} => put[x] \in Put
BY DEF TypeOK, Load, Put, NoCall

\* What a load returns is a table.
LEMMA EffectiveTable ==
  ASSUME TypeOK, NEW s \in Scopes
  PROVE  Effective(s) \in Table
BY Matrix DEF TypeOK, Effective, Table, Scopes

LEMMA StartLoadTypes ==
  ASSUME TypeOK, NEW x \in Screens, NEW i \in Slots, NEW s \in Scopes, NEW b \in BOOLEAN,
         StartLoad(x, i, s, b)
  PROVE  /\ load' \in [Screens -> [Slots -> Load \cup {NoCall}]]
         /\ isLoading' \in [Screens -> BOOLEAN]
         /\ suspect' \subseteq Screens
<1>1. [state |-> "sent", scope |-> s, ofSave |-> b] \in Load
  BY DEF Load
<1>. QED
  BY <1>1 DEF TypeOK, StartLoad

LEMMA EndLoadTypes ==
  ASSUME TypeOK, NEW x \in Screens, NEW i \in Slots, load[x][i] # NoCall, EndLoad(x, i)
  PROVE  /\ load' \in [Screens -> [Slots -> Load \cup {NoCall}]]
         /\ isLoading' \in [Screens -> BOOLEAN] /\ isSubmitting' \in [Screens -> BOOLEAN]
<1>1. load[x][i].ofSave \in BOOLEAN
  BY CallTypes DEF Load
<1>. QED
  BY <1>1 DEF TypeOK, EndLoad

\* A step is one of a screen and, if it is one of a load, of a slot.
LEMMA StepOf ==
  ASSUME [Next]_vars
  PROVE  \/ \E x \in Screens, i \in Slots :
              \/ Reload(x, i) \/ ServeLoad(x, i) \/ Loaded(x, i) \/ LoadFails(x, i)
              \/ Saved(x, i) \/ \E s \in Scopes : SelectAssociation(x, i, s)
         \/ \E x \in Screens :
              \/ \E c \in Cells, g \in Grants : UpdatePermission(x, c, g)
              \/ Save(x) \/ ServePut(x) \/ SaveFails(x)
         \/ UNCHANGED vars
BY DEF Next

LEMMA TypeStep == TypeOK /\ [Next]_vars => TypeOK'
<1>. SUFFICES ASSUME TypeOK, [Next]_vars PROVE TypeOK'
  OBVIOUS
<1>. USE DEF vars, server, screen, history
<1>1. ASSUME NEW x \in Screens, NEW i \in Slots, Reload(x, i) PROVE TypeOK'
  <2>1. selected[x] \in Scopes /\ acts' \in 0..MaxActs
    BY <1>1, Matrix DEF TypeOK, Reload, Act
  <2>. QED
    BY <1>1, <2>1, StartLoadTypes DEF TypeOK, Reload
<1>2. ASSUME NEW x \in Screens, NEW i \in Slots, ServeLoad(x, i) PROVE TypeOK'
  <2>1. load[x][i] \in [state : {"sent"}, scope : Scopes, ofSave : BOOLEAN]
    BY <1>2, CallTypes DEF ServeLoad
  <2>2. Effective(load[x][i].scope) \in Table
    BY <2>1, EffectiveTable
  <2>3. [state |-> "served", scope |-> load[x][i].scope, ofSave |-> load[x][i].ofSave,
         cells |-> Effective(load[x][i].scope), saves |-> saves] \in Load
    BY <2>1, <2>2 DEF Load, TypeOK
  <2>. QED
    BY <1>2, <2>3 DEF TypeOK, ServeLoad
<1>3. ASSUME NEW x \in Screens, NEW i \in Slots, Loaded(x, i) PROVE TypeOK'
  <2>1. load[x][i] \in [state : {"served"}, scope : Scopes, ofSave : BOOLEAN, cells : Table,
                        saves : Counts]
    BY <1>3, CallTypes DEF Loaded
  <2>2. [scope |-> load[x][i].scope, saves |-> load[x][i].saves] \in Origin
    BY <2>1 DEF Origin
  <2>3. load[x][i] # NoCall
    BY <2>1 DEF NoCall
  <2>. QED
    BY <1>3, <2>1, <2>2, <2>3, EndLoadTypes DEF TypeOK, Loaded, EndLoad
<1>4. ASSUME NEW x \in Screens, NEW i \in Slots, LoadFails(x, i) PROVE TypeOK'
  BY <1>4, EndLoadTypes DEF TypeOK, LoadFails, EndLoad
<1>5. ASSUME NEW x \in Screens, NEW i \in Slots, Saved(x, i) PROVE TypeOK'
  <2>1. selected[x] \in Scopes
    BY DEF TypeOK
  <2>. QED
    BY <1>5, <2>1, StartLoadTypes DEF TypeOK, Saved
<1>6. ASSUME NEW x \in Screens, NEW i \in Slots, NEW s \in Scopes, SelectAssociation(x, i, s)
      PROVE  TypeOK'
  <2>1. acts' \in 0..MaxActs
    BY <1>6, Matrix DEF TypeOK, SelectAssociation, Act
  <2>. QED
    BY <1>6, <2>1, StartLoadTypes DEF TypeOK, SelectAssociation
<1>7. ASSUME NEW x \in Screens, NEW c \in Cells, NEW g \in Grants, UpdatePermission(x, c, g)
      PROVE  TypeOK'
  <2>1. acts' \in 0..MaxActs
    BY <1>7, Matrix DEF TypeOK, UpdatePermission, Act
  <2>2. edited[x] \in Table
    BY <1>7 DEF TypeOK, UpdatePermission, Shown
  <2>3. [edited[x] EXCEPT ![c] = g] \in Table
    BY <2>2 DEF Table
  <2>. QED
    BY <1>7, <2>1, <2>3 DEF TypeOK, UpdatePermission
<1>8. ASSUME NEW x \in Screens, Save(x) PROVE TypeOK'
  <2>1. acts' \in 0..MaxActs
    BY <1>8, Matrix DEF TypeOK, Save, Act
  <2>2. [state |-> "sent", scope |-> selected[x], cells |-> edited[x], origin |-> origin[x],
         touched |-> touched[x]] \in Put
    BY <1>8 DEF TypeOK, Save, Put
  <2>. QED
    BY <1>8, <2>1, <2>2 DEF TypeOK, Save
<1>9. ASSUME NEW x \in Screens, ServePut(x) PROVE TypeOK'
  <2>. DEFINE p == put[x]
  <2>1. p \in Put /\ [p EXCEPT !.state = "served"] \in Put
    BY <1>9, CallTypes DEF ServePut, Put
  <2>2. /\ p.scope \in Scopes /\ p.cells \in Table /\ p.touched \subseteq Cells
        /\ p.cells \in [Cells -> Grants \cup {None}]
    BY <2>1 DEF Put, Table
  <2>3. stored' \in [Scopes -> [Cells -> Grants \cup {None}]] /\ stored'[None] \in Table
    BY <1>9, <2>2 DEF TypeOK, ServePut, Scopes
  <2>4. saves' \in Counts
    BY <1>9, <2>2 DEF TypeOK, ServePut, Counts
  <2>5. wanted' \in [Scopes -> [Cells -> Grants \cup {None}]]
    <3>. DEFINE w == [c \in Cells |-> IF c \in p.touched THEN p.cells[c]
                                      ELSE IF Fresh(p) THEN wanted[p.scope][c] ELSE None]
    <3>1. w \in [Cells -> Grants \cup {None}]
      BY <2>2 DEF TypeOK
    <3>2. wanted' = [wanted EXCEPT ![p.scope] = w]
      BY <1>9 DEF ServePut
    <3>. HIDE DEF w
    <3>. QED
      BY <2>2, <3>1, <3>2 DEF TypeOK
  <2>6. put' \in [Screens -> Put \cup {NoCall}]
    BY <1>9, <2>1 DEF TypeOK, ServePut
  <2>. QED
    BY <1>9, <2>3, <2>4, <2>5, <2>6 DEF TypeOK, ServePut
<1>10. ASSUME NEW x \in Screens, SaveFails(x) PROVE TypeOK'
  BY <1>10 DEF TypeOK, SaveFails
<1>11. CASE UNCHANGED vars
  BY <1>11 DEF TypeOK
<1>. QED
  BY <1>1, <1>2, <1>3, <1>4, <1>5, <1>6, <1>7, <1>8, <1>9, <1>10, <1>11, StepOf

-----------------------------------------------------------------------------
(* One load at a time *)

\* OneLoad for one screen.
OneLoadOf(x) ==
  x \notin suspect =>
    /\ \A i, j \in Underway(x) : i = j
    /\ \A i \in Underway(x) : isLoading[x] /\ load[x][i].scope = selected[x]
    /\ Underway(x) = {} => origin[x].scope = selected[x]

\* The loads of a screen, its selection and its flags are as they were.
Quiet(y) ==
  /\ y \in suspect' <=> y \in suspect
  /\ load'[y] = load[y] /\ isLoading'[y] = isLoading[y]
  /\ selected'[y] = selected[y] /\ origin'[y] = origin[y]

LEMMA QuietStep ==
  ASSUME NEW y \in Screens, OneLoadOf(y), Quiet(y)
  PROVE  OneLoadOf(y)'
BY DEF OneLoadOf, Quiet, Underway

\* A load that is started for what is then selected is the only one, or the screen is suspect.
LEMMA StartOneLoad ==
  ASSUME TypeOK, NEW x \in Screens, NEW i \in Slots, NEW b \in BOOLEAN,
         StartLoad(x, i, selected'[x], b)
  PROVE  OneLoadOf(x)'
<1>. SUFFICES ASSUME x \notin suspect' PROVE OneLoadOf(x)'
  BY DEF OneLoadOf
<1>1. Underway(x) = {}
  BY DEF StartLoad
<1>2. \A j \in Slots : load[x][j] = NoCall
  BY <1>1 DEF Underway
<1>3. /\ load'[x][i] = [state |-> "sent", scope |-> selected'[x], ofSave |-> b]
      /\ \A j \in Slots \ {i} : load'[x][j] = NoCall
      /\ isLoading'[x]
  BY <1>2 DEF StartLoad, TypeOK
<1>4. Underway(x)' = {i}
  BY <1>3 DEF Underway, NoCall
<1>. QED
  BY <1>3, <1>4 DEF OneLoadOf

LEMMA EndOneLoad ==
  ASSUME TypeOK, NEW x \in Screens, NEW i \in Slots, OneLoadOf(x), load[x][i] # NoCall,
         EndLoad(x, i), x \notin suspect,
         origin'[x].scope = load[x][i].scope
  PROVE  OneLoadOf(x)'
<1>1. Underway(x) = {i} /\ load[x][i].scope = selected[x]
  BY DEF OneLoadOf, Underway
<1>2. \A j \in Slots : load'[x][j] = NoCall
  BY <1>1 DEF Underway, EndLoad, TypeOK
<1>. QED
  BY <1>1, <1>2 DEF OneLoadOf, Underway, EndLoad

LEMMA OneLoadStep == TypeOK /\ OneLoad /\ [Next]_vars => OneLoad'
<1>. SUFFICES ASSUME TypeOK, OneLoad, [Next]_vars, NEW y \in Screens PROVE OneLoadOf(y)'
  BY DEF OneLoad, OneLoadOf
<1>0. OneLoadOf(y)
  BY DEF OneLoad, OneLoadOf
<1>. USE DEF vars, server, screen, history, TypeOK
<1>1. ASSUME NEW x \in Screens, NEW i \in Slots, Reload(x, i) PROVE OneLoadOf(y)'
  <2>1. x # y => Quiet(y)
    BY <1>1 DEF Reload, StartLoad, Quiet
  <2>2. OneLoadOf(x)'
    BY <1>1, StartOneLoad DEF Reload
  <2>. QED
    BY <1>0, <2>1, <2>2, QuietStep
<1>2. ASSUME NEW x \in Screens, NEW i \in Slots, ServeLoad(x, i) PROVE OneLoadOf(y)'
  <2>1. load'[y] \in [Slots -> Load \cup {NoCall}]
    BY <1>2, TypeStep
  <2>2. \A j \in Slots : /\ load[y][j] = NoCall <=> load'[y][j] = NoCall
                         /\ load[y][j] # NoCall => load'[y][j].scope = load[y][j].scope
    BY <1>2 DEF ServeLoad, NoCall
  <2>. QED
    BY <1>0, <1>2, <2>2 DEF ServeLoad, OneLoadOf, Underway
<1>3. ASSUME NEW x \in Screens, NEW i \in Slots, Loaded(x, i) PROVE OneLoadOf(y)'
  <2>1. x # y => Quiet(y)
    BY <1>3 DEF Loaded, EndLoad, Quiet
  <2>2. load[x][i] # NoCall /\ origin'[x].scope = load[x][i].scope /\ suspect' = suspect
    BY <1>3 DEF Loaded, NoCall
  <2>3. x = y => OneLoadOf(x)'
    <3>1. CASE x \in suspect
      BY <3>1, <2>2 DEF OneLoadOf
    <3>2. CASE x \notin suspect
      BY <3>2, <1>0, <1>3, <2>2, EndOneLoad DEF Loaded
    <3>. QED
      BY <3>1, <3>2
  <2>. QED
    BY <1>0, <2>1, <2>3, QuietStep
<1>4. ASSUME NEW x \in Screens, NEW i \in Slots, LoadFails(x, i) PROVE OneLoadOf(y)'
  <2>1. x # y => Quiet(y)
    BY <1>4 DEF LoadFails, EndLoad, Quiet
  <2>2. x = y => OneLoadOf(x)'
    BY <1>4 DEF LoadFails, OneLoadOf
  <2>. QED
    BY <1>0, <2>1, <2>2, QuietStep
<1>5. ASSUME NEW x \in Screens, NEW i \in Slots, Saved(x, i) PROVE OneLoadOf(y)'
  <2>1. x # y => Quiet(y)
    BY <1>5 DEF Saved, StartLoad, Quiet
  <2>2. OneLoadOf(x)'
    BY <1>5, StartOneLoad DEF Saved
  <2>. QED
    BY <1>0, <2>1, <2>2, QuietStep
<1>6. ASSUME NEW x \in Screens, NEW i \in Slots, NEW s \in Scopes, SelectAssociation(x, i, s)
      PROVE  OneLoadOf(y)'
  <2>1. x # y => Quiet(y)
    BY <1>6 DEF SelectAssociation, StartLoad, Quiet
  <2>2. selected'[x] = s
    BY <1>6 DEF SelectAssociation
  <2>3. OneLoadOf(x)'
    BY <1>6, <2>2, StartOneLoad DEF SelectAssociation
  <2>. QED
    BY <1>0, <2>1, <2>3, QuietStep
<1>7. ASSUME NEW x \in Screens, \/ \E c \in Cells, g \in Grants : UpdatePermission(x, c, g)
                                \/ Save(x) \/ ServePut(x) \/ SaveFails(x)
      PROVE  OneLoadOf(y)'
  <2>1. Quiet(y)
    BY <1>7 DEF UpdatePermission, Save, ServePut, SaveFails, Quiet
  <2>. QED
    BY <1>0, <2>1, QuietStep
<1>8. CASE UNCHANGED vars
  BY <1>0, <1>8, QuietStep DEF Quiet
<1>. QED
  BY <1>1, <1>2, <1>3, <1>4, <1>5, <1>6, <1>7, <1>8, StepOf

-----------------------------------------------------------------------------
(* Settings that were saved *)

\* A save of scope q outdates every table that was read for q, or from its defaults.
LEMMA Outdated ==
  ASSUME TypeOK, NEW q \in Scopes, saves' = [saves EXCEPT ![q] = @ + 1],
         \A a \in Scopes \ {q} : stored'[a] = stored[a],
         NEW s \in Scopes, NEW v \in Counts, NEW t, NEW free, Coherent(s, v, t, free)
  PROVE  Coherent(s, v, t, free)'
<1>1. saves \in Counts
  BY DEF TypeOK
<1>2. saves'[q] = saves[q] + 1 /\ \A a \in Scopes \ {q} : saves'[a] = saves[a]
  BY <1>1 DEF Counts
<1>3. \A a \in Scopes : v[a] <= saves[a] /\ v[a] \in Nat /\ saves[a] \in Nat
  BY <1>1 DEF Counts, Coherent
<1>4. \A a \in Scopes : v[a] <= saves'[a]
  BY <1>2, <1>3
<1>5. ASSUME Current(s, v)' PROVE \A c \in Cells \ free : t[c] = Effective(s)'[c]
  <2>1. v[s] = saves'[s] /\ v[None] = saves'[None]
    BY <1>5 DEF Current
  <2>2. q \notin {s, None}
    BY <2>1, <1>2, <1>3
  <2>3. Current(s, v)
    BY <2>1, <2>2, <1>2 DEF Current, Scopes
  <2>4. Effective(s)' = Effective(s)
    BY <2>2 DEF Effective, Scopes
  <2>. QED
    BY <2>3, <2>4 DEF Coherent
<1>. QED
  BY <1>4, <1>5 DEF Coherent

\* Only a save that is served makes a difference to tables that are on their way.
LEMMA Served ==
  ASSUME TypeOK, [Next]_vars
  PROVE  \/ UNCHANGED server
         \/ \E x \in Screens : ServePut(x)
BY StepOf DEF vars, Reload, ServeLoad, Loaded, LoadFails, Saved, SelectAssociation, StartLoad,
              EndLoad, UpdatePermission, Save, SaveFails

LEMMA StaysCoherent ==
  ASSUME TypeOK, [Next]_vars,
         NEW s \in Scopes, NEW v \in Counts, NEW t, NEW free, Coherent(s, v, t, free)
  PROVE  Coherent(s, v, t, free)'
<1>1. CASE UNCHANGED server
  BY <1>1 DEF server, Coherent, Current, Effective
<1>2. ASSUME NEW x \in Screens, ServePut(x) PROVE Coherent(s, v, t, free)'
  <2>1. put[x].scope \in Scopes
    BY <1>2, CallTypes DEF ServePut, Put
  <2>2. /\ saves' = [saves EXCEPT ![put[x].scope] = @ + 1]
        /\ \A a \in Scopes \ {put[x].scope} : stored'[a] = stored[a]
    BY <1>2, <2>1 DEF ServePut, TypeOK
  <2>. QED
    BY <2>1, <2>2, Outdated
<1>. QED
  BY <1>1, <1>2, Served

\* Coherence of what one screen edits, of an answer it waits for, and of what it saves.
EditedOf(y) == edited[y] # None => Coherent(origin[y].scope, origin[y].saves, edited[y], touched[y])
LoadOf(y, j) == load[y][j].state = "served" =>
                  Coherent(load[y][j].scope, load[y][j].saves, load[y][j].cells, {})
PutOf(y) == put[y] # NoCall =>
              Coherent(put[y].origin.scope, put[y].origin.saves, put[y].cells, put[y].touched)

\* The tables of screen y that are not replaced stay coherent.
LEMMA Kept ==
  ASSUME TypeOK, Coherence, [Next]_vars, NEW y \in Screens
  PROVE  /\ edited'[y] = edited[y] /\ origin'[y] = origin[y] /\ touched'[y] = touched[y] => EditedOf(y)'
         /\ \A j \in Slots : load'[y][j] = load[y][j] => LoadOf(y, j)'
         /\ put'[y] = put[y] => PutOf(y)'
<1>1. ASSUME edited'[y] = edited[y], origin'[y] = origin[y], touched'[y] = touched[y],
             edited[y] # None
      PROVE  EditedOf(y)'
  <2>1. origin[y].scope \in Scopes /\ origin[y].saves \in Counts
    BY DEF TypeOK, Origin
  <2>2. Coherent(origin[y].scope, origin[y].saves, edited[y], touched[y])
    BY <1>1 DEF Coherence
  <2>3. \A e, o, t : e = edited[y] /\ o = origin[y] /\ t = touched[y] => Coherent(o.scope, o.saves, e, t)'
    BY <2>1, <2>2, StaysCoherent
  <2>. QED
    BY <1>1, <2>3 DEF EditedOf, Coherent, Current, Effective
<1>2. ASSUME NEW j \in Slots, load'[y][j] = load[y][j], load[y][j].state = "served"
      PROVE  LoadOf(y, j)'
  <2>1. load[y][j].scope \in Scopes /\ load[y][j].saves \in Counts
    BY <1>2, CallTypes
  <2>2. Coherent(load[y][j].scope, load[y][j].saves, load[y][j].cells, {})
    BY <1>2 DEF Coherence
  <2>3. \A l : l = load[y][j] => Coherent(l.scope, l.saves, l.cells, {})'
    BY <2>1, <2>2, StaysCoherent
  <2>. QED
    BY <1>2, <2>3 DEF LoadOf, Coherent, Current, Effective
<1>3. ASSUME put'[y] = put[y], put[y] # NoCall PROVE PutOf(y)'
  <2>1. put[y].origin.scope \in Scopes /\ put[y].origin.saves \in Counts
    BY <1>3, CallTypes DEF Put, Origin
  <2>2. Coherent(put[y].origin.scope, put[y].origin.saves, put[y].cells, put[y].touched)
    BY <1>3 DEF Coherence
  <2>3. \A p : p = put[y] => Coherent(p.origin.scope, p.origin.saves, p.cells, p.touched)'
    BY <2>1, <2>2, StaysCoherent
  <2>. QED
    BY <1>3, <2>3 DEF PutOf, Coherent, Current, Effective
<1>. QED
  BY <1>1, <1>2, <1>3 DEF EditedOf, LoadOf, PutOf

\* What another action replaces.
LEMMA CoherenceStep == TypeOK /\ Coherence /\ [Next]_vars => Coherence'
<1>. SUFFICES ASSUME TypeOK, Coherence, [Next]_vars, NEW y \in Screens
              PROVE  EditedOf(y)' /\ (\A j \in Slots : LoadOf(y, j)') /\ PutOf(y)'
  BY DEF Coherence, EditedOf, LoadOf, PutOf
<1>. USE DEF vars, server, screen, history
<1>1. ASSUME NEW x \in Screens, NEW i \in Slots,
             Reload(x, i) \/ Saved(x, i) \/ \E s \in Scopes : SelectAssociation(x, i, s)
      PROVE  EditedOf(y)' /\ (\A j \in Slots : LoadOf(y, j)') /\ PutOf(y)'
  <2>1. /\ edited'[y] = edited[y] /\ origin'[y] = origin[y] /\ touched'[y] = touched[y]
        /\ put'[y] \in {put[y], NoCall}
    BY <1>1 DEF Reload, Saved, SelectAssociation, TypeOK
  <2>2. \E s \in Scopes, b \in BOOLEAN : StartLoad(x, i, s, b)
    BY <1>1 DEF Reload, Saved, SelectAssociation, TypeOK
  <2>3. \A j \in Slots : load'[y][j] = load[y][j] \/ load'[y][j].state = "sent"
    BY <2>2 DEF StartLoad, TypeOK
  <2>. QED
    BY <2>1, <2>3, Kept DEF LoadOf, PutOf
<1>2. ASSUME NEW x \in Screens, NEW i \in Slots, ServeLoad(x, i)
      PROVE  EditedOf(y)' /\ (\A j \in Slots : LoadOf(y, j)') /\ PutOf(y)'
  <2>1. /\ edited'[y] = edited[y] /\ origin'[y] = origin[y] /\ touched'[y] = touched[y]
        /\ put'[y] = put[y] /\ stored' = stored /\ saves' = saves
        /\ \A j \in Slots : (x # y \/ i # j) => load'[y][j] = load[y][j]
    BY <1>2 DEF ServeLoad, TypeOK
  <2>2. /\ load'[x][i].scope = load[x][i].scope
        /\ load'[x][i].cells = Effective(load[x][i].scope) /\ load'[x][i].saves = saves
    BY <1>2 DEF ServeLoad, TypeOK
  <2>3. \A a \in Scopes : saves[a] <= saves[a]
    BY DEF TypeOK, Counts
  <2>4. LoadOf(x, i)'
    BY <2>1, <2>2, <2>3 DEF LoadOf, Coherent, Current, Effective
  <2>. QED
    BY <2>1, <2>4, Kept
<1>3. ASSUME NEW x \in Screens, NEW i \in Slots, Loaded(x, i)
      PROVE  EditedOf(y)' /\ (\A j \in Slots : LoadOf(y, j)') /\ PutOf(y)'
  <2>1. /\ x # y => edited'[y] = edited[y] /\ origin'[y] = origin[y] /\ touched'[y] = touched[y]
        /\ put'[y] = put[y] /\ stored' = stored /\ saves' = saves
        /\ \A j \in Slots : load'[y][j] \in {load[y][j], NoCall}
    BY <1>3 DEF Loaded, EndLoad, TypeOK
  <2>2. Coherent(load[x][i].scope, load[x][i].saves, load[x][i].cells, {})
    BY <1>3 DEF Loaded, Coherence
  <2>3. /\ edited'[x] = load[x][i].cells /\ touched'[x] = {}
        /\ origin'[x].scope = load[x][i].scope /\ origin'[x].saves = load[x][i].saves
    BY <1>3 DEF Loaded, TypeOK
  <2>4. EditedOf(x)'
    BY <2>1, <2>2, <2>3 DEF EditedOf, Coherent, Current, Effective
  <2>. QED
    BY <2>1, <2>4, Kept DEF LoadOf, NoCall
<1>4. ASSUME NEW x \in Screens, NEW i \in Slots, LoadFails(x, i)
      PROVE  EditedOf(y)' /\ (\A j \in Slots : LoadOf(y, j)') /\ PutOf(y)'
  <2>1. /\ edited'[y] = edited[y] /\ origin'[y] = origin[y] /\ touched'[y] = touched[y]
        /\ put'[y] = put[y]
        /\ \A j \in Slots : load'[y][j] \in {load[y][j], NoCall}
    BY <1>4 DEF LoadFails, EndLoad, TypeOK
  <2>. QED
    BY <2>1, Kept DEF LoadOf, NoCall
<1>5. ASSUME NEW x \in Screens, NEW c \in Cells, NEW g \in Grants, UpdatePermission(x, c, g)
      PROVE  EditedOf(y)' /\ (\A j \in Slots : LoadOf(y, j)') /\ PutOf(y)'
  <2>1. /\ x # y => edited'[y] = edited[y] /\ touched'[y] = touched[y]
        /\ origin' = origin /\ put' = put /\ load' = load /\ stored' = stored /\ saves' = saves
    BY <1>5 DEF UpdatePermission, TypeOK
  <2>2. Coherent(origin[x].scope, origin[x].saves, edited[x], touched[x])
    BY <1>5 DEF UpdatePermission, Shown, Coherence
  <2>3. edited[x] \in Table
    BY <1>5 DEF UpdatePermission, Shown, TypeOK
  <2>4. touched'[x] = touched[x] \cup {c} /\ \A d \in Cells \ {c} : edited'[x][d] = edited[x][d]
    BY <1>5, <2>3 DEF UpdatePermission, TypeOK, Table
  <2>5. EditedOf(x)'
    BY <2>1, <2>2, <2>4 DEF EditedOf, Coherent, Current, Effective
  <2>. QED
    BY <2>1, <2>5, Kept
<1>6. ASSUME NEW x \in Screens, Save(x)
      PROVE  EditedOf(y)' /\ (\A j \in Slots : LoadOf(y, j)') /\ PutOf(y)'
  <2>1. /\ edited' = edited /\ touched' = touched /\ origin' = origin /\ load' = load
        /\ stored' = stored /\ saves' = saves
        /\ x # y => put'[y] = put[y]
    BY <1>6 DEF Save, TypeOK
  <2>2. Coherent(origin[x].scope, origin[x].saves, edited[x], touched[x])
    BY <1>6 DEF Save, Coherence
  <2>3. put'[x].origin = origin[x] /\ put'[x].cells = edited[x] /\ put'[x].touched = touched[x]
    BY <1>6 DEF Save, TypeOK
  <2>4. PutOf(x)'
    BY <2>1, <2>2, <2>3 DEF PutOf, Coherent, Current, Effective
  <2>. QED
    BY <2>1, <2>4, Kept
<1>7. ASSUME NEW x \in Screens, ServePut(x) \/ SaveFails(x)
      PROVE  EditedOf(y)' /\ (\A j \in Slots : LoadOf(y, j)') /\ PutOf(y)'
  <2>1. /\ edited' = edited /\ touched' = touched /\ origin' = origin /\ load' = load
        /\ x # y => put'[y] = put[y]
    BY <1>7 DEF ServePut, SaveFails, TypeOK
  <2>2. CASE SaveFails(x)
    <3>1. PutOf(x)'
      BY <2>2 DEF SaveFails, PutOf, TypeOK
    <3>. QED
      BY <2>1, <3>1, Kept
  <2>3. CASE ServePut(x)
    <3>1. put[x] \in Put /\ put[x] # NoCall
      BY <2>3, CallTypes DEF ServePut, NoCall
    <3>2. /\ put'[x].origin = put[x].origin /\ put'[x].cells = put[x].cells
          /\ put'[x].touched = put[x].touched
      BY <2>3, <3>1 DEF ServePut, Put, TypeOK
    <3>3. Coherent(put[x].origin.scope, put[x].origin.saves, put[x].cells, put[x].touched)
      BY <3>1 DEF Coherence
    <3>4. \A p : p = put[x] => Coherent(p.origin.scope, p.origin.saves, p.cells, p.touched)'
      BY <3>1, <3>3, StaysCoherent DEF Put, Origin
    <3>5. PutOf(x)'
      BY <3>2, <3>4 DEF PutOf, Coherent, Current, Effective
    <3>. QED
      BY <2>1, <3>5, Kept
  <2>. QED
    BY <1>7, <2>2, <2>3
<1>8. CASE UNCHANGED vars
  BY <1>8, Kept
<1>. QED
  BY <1>1, <1>2, <1>3, <1>4, <1>5, <1>6, <1>7, <1>8, StepOf

\* A save keeps what is wanted of a cell: it was edited, or the table was read after all
\* other saves of the scope and of the defaults.
LEMMA SettingStep == TypeOK /\ Coherence /\ SettingStays /\ [Next]_vars => SettingStays'
<1>. SUFFICES ASSUME TypeOK, Coherence, SettingStays, [Next]_vars PROVE SettingStays'
  OBVIOUS
<1>1. CASE UNCHANGED server
  BY <1>1 DEF server, SettingStays
<1>2. ASSUME NEW x \in Screens, ServePut(x), NEW s \in Scopes, NEW c \in Cells,
             wanted'[s][c] # None
      PROVE  stored'[s][c] = wanted'[s][c]
  <2>. DEFINE p == put[x]
  <2>1. p \in Put /\ p # NoCall
    BY <1>2, CallTypes DEF ServePut, NoCall
  <2>2. p.scope \in Scopes
    BY <2>1 DEF Put
  <2>3. CASE s # p.scope
    <3>1. wanted'[s] = wanted[s] /\ stored'[s] = stored[s]
      BY <1>2, <2>2, <2>3 DEF ServePut, TypeOK
    <3>. QED
      BY <1>2, <3>1 DEF SettingStays
  <2>4. CASE s = p.scope
    <3>1. /\ stored'[s][c] = p.cells[c]
          /\ wanted'[s][c] = IF c \in p.touched THEN p.cells[c]
                             ELSE IF Fresh(p) THEN wanted[s][c] ELSE None
      BY <1>2, <2>2, <2>4 DEF ServePut, TypeOK
    <3>2. ASSUME c \notin p.touched, Fresh(p), wanted[s][c] # None PROVE p.cells[c] = wanted[s][c]
      <4>1. Coherent(p.origin.scope, p.origin.saves, p.cells, p.touched)
        BY <2>1 DEF Coherence
      <4>2. p.origin.scope = s /\ Current(s, p.origin.saves)
        BY <3>2, <2>4 DEF Fresh, Current
      <4>3. p.cells[c] = Effective(s)[c]
        BY <3>2, <4>1, <4>2 DEF Coherent
      <4>4. stored[s][c] = wanted[s][c]
        BY <3>2 DEF SettingStays
      <4>. QED
        BY <3>2, <4>3, <4>4 DEF Effective
    <3>. QED
      BY <1>2, <3>1, <3>2
  <2>. QED
    BY <2>3, <2>4
<1>. QED
  BY <1>1, <1>2, Served DEF SettingStays

-----------------------------------------------------------------------------
(* The theorems *)

LEMMA InvHolds == Spec => []IInv
<1>1. IInv /\ [Next]_vars => IInv'
  BY TypeStep, OneLoadStep, CoherenceStep, SettingStep DEF IInv
<1>. QED
  BY InitInv, <1>1, PTL DEF Spec

\* Every variable of PermissionNotifier and of the server keeps its type.
THEOREM ScreenTyped == Spec => []TypeOK
<1>1. IInv => TypeOK
  BY DEF IInv
<1>. QED
  BY <1>1, InvHolds, PTL

\* The table PermissionScreen shows is that of the association its selector shows, unless
\* the last load failed or overlapped with another one, however many
\* loads are under way and in whatever order they end.
THEOREM SelectedShown == Spec => []ShowsSelected
<1>1. IInv => ShowsSelected
  BY DEF IInv, OneLoad, ShowsSelected, Shown, Underway
<1>. QED
  BY <1>1, InvHolds, PTL

\* What an admin has set and saved stays until an admin sets that cell again, or somebody
\* saves a table that was loaded before, or for another association.
THEOREM SettingsStay == Spec => []SettingStays
<1>1. IInv => SettingStays
  BY DEF IInv
<1>. QED
  BY <1>1, InvHolds, PTL
=============================================================================
