-------------------------- MODULE PermissionScreen --------------------------
(***************************************************************************)
(* The permission screen of system admins (frontend features/permission:   *)
(* PermissionNotifier and PermissionScreen).  A screen loads the matrix of *)
(* a scope, lets cells of it be edited, and saves the whole matrix.  Loads *)
(* and saves are HTTP calls: several may be under way, and their answers   *)
(* come in any order or not at all.                                        *)
(*                                                                         *)
(* The server is the matrix that Permissions models, read and written in   *)
(* one step each; rows of system_admin, which it never changes, are left   *)
(* out.                                                                    *)
(***************************************************************************)
EXTENDS Naturals, FiniteSets

CONSTANTS
  Screens,   \* open screens, of different admins
  Assocs,
  Cells,     \* pairs of a role and a feature
  Grants,    \* contents of a cell
  Initial,   \* default contents of every cell
  MaxLoads,  \* bound: loads a screen has under way
  MaxActs,   \* bound: what admins do
  None

ASSUME Matrix ==
  /\ None \notin Assocs \cup Grants
  /\ Initial \in Grants
  /\ MaxLoads \in Nat /\ MaxActs \in Nat

Scopes == Assocs \cup {None}  \* None: the default rows

VARIABLES
  stored,     \* stored[s][c]: contents of the row, or None
  selected,   \* selected[x]: _selectedAssociationId
  edited,     \* edited[x]: _editedPermissions, None before the first load
  isLoading, isSubmitting,
  load,       \* load[x][i]: the loads under way
  put,        \* put[x]: the save under way
  acts,       \* counter of the bound
  saves,      \* history: saves[s]: saves of scope s that took effect
  origin,     \* history: origin[x]: scope and saves the edited cells were loaded from
  touched,    \* history: touched[x]: cells edited since the last load
  suspect,    \* history: screens whose last load failed or overlapped with another one
  wanted      \* history: wanted[s][c]: what an admin last set the cell to and saved

screen  == <<selected, edited, isLoading, isSubmitting>>
history == <<origin, touched, suspect>>
server  == <<stored, saves, wanted>>
vars    == <<server, screen, load, put, acts, history>>

NoCall  == [state |-> "none"]
Slots   == 1..MaxLoads
Nowhere == [scope |-> None, saves |-> [s \in Scopes |-> 0]]

Init ==
  /\ stored = [s \in Scopes |-> [c \in Cells |-> IF s = None THEN Initial ELSE None]]
  /\ selected = [x \in Screens |-> None]
  /\ edited = [x \in Screens |-> None]
  /\ isLoading = [x \in Screens |-> FALSE]
  /\ isSubmitting = [x \in Screens |-> FALSE]
  /\ load = [x \in Screens |-> [i \in Slots |-> NoCall]]
  /\ put = [x \in Screens |-> NoCall]
  /\ acts = 0
  /\ saves = [s \in Scopes |-> 0]
  /\ origin = [x \in Screens |-> Nowhere]
  /\ touched = [x \in Screens |-> {}]
  /\ suspect = {}
  /\ wanted = [s \in Scopes |-> [c \in Cells |-> None]]

\* An admin does something.
Act == acts < MaxActs /\ acts' = acts + 1

Underway(x) == {i \in Slots : load[x][i] # NoCall}

-----------------------------------------------------------------------------
(* load *)

\* Calls getMatrix for scope s in slot i; ofSave when save waits for it.
StartLoad(x, i, s, ofSave) ==
  /\ load[x][i] = NoCall
  /\ load' = [load EXCEPT ![x][i] = [state |-> "sent", scope |-> s, ofSave |-> ofSave]]
  /\ isLoading' = [isLoading EXCEPT ![x] = TRUE]
  /\ suspect' = IF Underway(x) = {} THEN suspect \ {x} ELSE suspect \cup {x}

\* Faulty: the rows of the scope, without the default ones.
EffectiveWithoutDefault(s) == stored[s]

\* Faulty: the default row comes first.
EffectiveFaulty(s) == stored[None]

\* The row of the scope, or the default one.
Effective(s) == [c \in Cells |-> IF stored[s][c] # None THEN stored[s][c] ELSE stored[None][c]]

\* GET /permissions
ServeLoad(x, i) ==
  /\ load[x][i].state = "sent"
  /\ load' = [load EXCEPT ![x][i] =
                [state |-> "served", scope |-> load[x][i].scope, ofSave |-> load[x][i].ofSave,
                 cells |-> Effective(load[x][i].scope), saves |-> saves]]
  /\ UNCHANGED <<server, screen, put, acts, history>>

\* The end of a load, of the save that waits for it as well.
EndLoad(x, i) ==
  /\ load' = [load EXCEPT ![x][i] = NoCall]
  /\ isLoading' = [isLoading EXCEPT ![x] = FALSE]
  /\ isSubmitting' = [isSubmitting EXCEPT ![x] = @ /\ ~load[x][i].ofSave]
  /\ UNCHANGED <<server, selected, put, acts>>

\* The answer replaces the matrix and the edited cells, whatever is selected by now.
Loaded(x, i) ==
  /\ load[x][i].state = "served"
  /\ EndLoad(x, i)
  /\ edited' = [edited EXCEPT ![x] = load[x][i].cells]
  /\ origin' = [origin EXCEPT ![x] = [scope |-> load[x][i].scope, saves |-> load[x][i].saves]]
  /\ touched' = [touched EXCEPT ![x] = {}]
  /\ UNCHANGED suspect

\* One of the two requests fails: the matrix and the edited cells stay as they are.
LoadFails(x, i) ==
  /\ load[x][i] # NoCall
  /\ EndLoad(x, i)
  /\ suspect' = suspect \cup {x}
  /\ UNCHANGED <<edited, origin, touched>>

\* initState and the button that loads again.
Reload(x, i) ==
  /\ Act
  /\ StartLoad(x, i, selected[x], FALSE)
  /\ UNCHANGED <<server, selected, edited, isSubmitting, put, origin, touched>>

\* Faulty: the matrix of the association shown so far is loaded.
SelectAssociationFaulty(x, i, s) ==
  /\ Act
  /\ selected' = [selected EXCEPT ![x] = s]
  /\ StartLoad(x, i, selected[x], FALSE)
  /\ UNCHANGED <<server, edited, isSubmitting, put, origin, touched>>

\* The selector is always enabled.
SelectAssociation(x, i, s) ==
  /\ Act
  /\ selected' = [selected EXCEPT ![x] = s]
  /\ StartLoad(x, i, s, FALSE)
  /\ UNCHANGED <<server, edited, isSubmitting, put, origin, touched>>

-----------------------------------------------------------------------------
(* updatePermission and save *)

\* The table is shown.
Shown(x) == edited[x] # None /\ ~isLoading[x]

UpdatePermission(x, c, g) ==
  /\ Act
  /\ Shown(x)
  /\ edited' = [edited EXCEPT ![x][c] = g]
  /\ touched' = [touched EXCEPT ![x] = @ \cup {c}]
  /\ UNCHANGED <<server, selected, isLoading, isSubmitting, load, put, origin, suspect>>

\* The button is disabled while a save is under way, but not during a load.  Before the
\* first load it saves nothing, which is left out.
Save(x) ==
  /\ Act
  /\ ~isSubmitting[x] /\ edited[x] # None
  /\ isSubmitting' = [isSubmitting EXCEPT ![x] = TRUE]
  /\ put' = [put EXCEPT ![x] =
               [state |-> "sent", scope |-> selected[x], cells |-> edited[x],
                origin |-> origin[x], touched |-> touched[x]]]
  /\ UNCHANGED <<server, selected, edited, isLoading, load, history>>

\* The cells of p were loaded for its scope, and nobody has saved there since.
Fresh(p) ==
  /\ p.origin.scope = p.scope
  /\ \A s \in {p.scope, None} : p.origin.saves[s] = saves[s]

\* PUT /permissions: every cell becomes a row of the scope.
ServePut(x) ==
  /\ put[x].state = "sent"
  /\ LET p == put[x] IN
       /\ stored' = [stored EXCEPT ![p.scope] = p.cells]
       /\ saves' = [saves EXCEPT ![p.scope] = @ + 1]
       /\ wanted' = [wanted EXCEPT ![p.scope] =
            [c \in Cells |-> IF c \in p.touched THEN p.cells[c]
                             ELSE IF Fresh(p) THEN wanted[p.scope][c] ELSE None]]
  /\ put' = [put EXCEPT ![x].state = "served"]
  /\ UNCHANGED <<screen, load, acts, history>>

\* save goes on with a load of what is selected by now.
Saved(x, i) ==
  /\ put[x].state = "served"
  /\ put' = [put EXCEPT ![x] = NoCall]
  /\ StartLoad(x, i, selected[x], TRUE)
  /\ UNCHANGED <<server, selected, edited, isSubmitting, acts, origin, touched>>

\* The save fails or times out, before or after the server has taken it.
SaveFails(x) ==
  /\ put[x] # NoCall
  /\ put' = [put EXCEPT ![x] = NoCall]
  /\ isSubmitting' = [isSubmitting EXCEPT ![x] = FALSE]
  /\ UNCHANGED <<server, selected, edited, isLoading, load, acts, history>>

-----------------------------------------------------------------------------

Next ==
  \E x \in Screens :
    \/ \E i \in Slots :
         \/ Reload(x, i) \/ ServeLoad(x, i) \/ Loaded(x, i) \/ LoadFails(x, i)
         \/ Saved(x, i)
         \/ \E s \in Scopes : SelectAssociation(x, i, s)
    \/ \E c \in Cells, g \in Grants : UpdatePermission(x, c, g)
    \/ Save(x) \/ ServePut(x) \/ SaveFails(x)

Spec == Init /\ [][Next]_vars

-----------------------------------------------------------------------------
(* Correctness *)

Table  == [Cells -> Grants]
Counts == [Scopes -> Nat]
Origin == [scope : Scopes, saves : Counts]
Load   == [state : {"sent"}, scope : Scopes, ofSave : BOOLEAN]
            \cup [state : {"served"}, scope : Scopes, ofSave : BOOLEAN, cells : Table,
                  saves : Counts]
Put    == [state : {"sent", "served"}, scope : Scopes, cells : Table, origin : Origin,
           touched : SUBSET Cells]

\* The type of every variable.
TypeOK ==
  /\ stored \in [Scopes -> [Cells -> Grants \cup {None}]] /\ stored[None] \in Table
  /\ selected \in [Screens -> Scopes]
  /\ edited \in [Screens -> Table \cup {None}]
  /\ isLoading \in [Screens -> BOOLEAN] /\ isSubmitting \in [Screens -> BOOLEAN]
  /\ load \in [Screens -> [Slots -> Load \cup {NoCall}]]
  /\ put \in [Screens -> Put \cup {NoCall}]
  /\ acts \in 0..MaxActs
  /\ saves \in Counts
  /\ origin \in [Screens -> Origin]
  /\ touched \in [Screens -> SUBSET Cells]
  /\ suspect \subseteq Screens
  /\ wanted \in [Scopes -> [Cells -> Grants \cup {None}]]

\* The table that is shown is that of the selected association, unless the last load
\* failed or overlapped with another one.
ShowsSelected ==
  \A x \in Screens \ suspect : Shown(x) => origin[x].scope = selected[x]

\* What an admin set and saved stays until an admin sets the cell again, or a screen
\* saves a table that it had loaded before, or for another association.
SettingStays ==
  \A s \in Scopes, c \in Cells : wanted[s][c] # None => stored[s][c] = wanted[s][c]

=============================================================================
