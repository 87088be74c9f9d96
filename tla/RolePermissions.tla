-------------------------- MODULE RolePermissions ---------------------------
(***************************************************************************)
(* Roles and what they may do (modules/access-control, the permissions     *)
(* guard and the parts of the start-up and the seed that write the same    *)
(* rows).  Administrators create and rename roles and save permission      *)
(* forms; a form is one transaction that upserts a row for each of its     *)
(* modules in the order of the client.  An uncommitted row is in `rows`    *)
(* already, locked: what it was before is kept by the handler in `old`.    *)
(***************************************************************************)
EXTENDS Naturals, Sequences, FiniteSets, SequencesExt

CONSTANTS Handlers,          \* the handlers that may run at a time
          RoleRows,          \* rows of roles
          Bases,             \* normalized codes that are asked for
          SeedBase,          \* the code of a role the seed and the start-up know
          Modules,           \* rows of app_modules
          DashboardModules,  \* the ones of the admin dashboard
          ElevatedModules,   \* dashboard modules whose default is to write too
          Forms,             \* what an administrator may tick for one module
          MaxSuffix          \* bound: the suffix of a code

ASSUME RoleAssumption ==
  /\ SeedBase \in Bases
  /\ ElevatedModules \subseteq DashboardModules
  /\ DashboardModules \subseteq Modules /\ IsFiniteSet(Modules)
  /\ Forms \subseteq [read : BOOLEAN, write : BOOLEAN, edit : BOOLEAN, delete : BOOLEAN]
  /\ MaxSuffix \in Nat \ {0}

VARIABLES code,     \* <<base, suffix>> of each role, NoCode when there is none
          rows,     \* role_module_access
          request,  \* what each handler is at and has read or written
          saved     \* history: the forms that were saved last, by role and module

roleVars == <<code, rows, request, saved>>

NoCode == <<"none", 0>>
Codes == {NoCode} \cup (Bases \X (1..MaxSuffix))
NoForm == [none |-> TRUE]

\* A row is the set of the flags it grants.
AccessFlags == {"read", "write", "edit", "delete", "list", "view", "create"}
NoRow == {"no row"}

Unoccupied == [at |-> "idle"]
Reached(r, step) == request[r].at = step
MovesTo(r, record) == request' = [request EXCEPT ![r] = record]
Finishes(r) == MovesTo(r, Unoccupied)

-----------------------------------------------------------------------------
(* The flags of a row.  Half of them are what older clients know. *)

RowOf(form) ==
  {flag \in {"read", "write", "edit", "delete"} : form[flag]}
    \cup (IF form.read THEN {"list", "view"} ELSE {})
    \cup (IF form.write THEN {"create"} ELSE {})

DefaultRow(m) == IF m \in ElevatedModules THEN AccessFlags ELSE {"read", "list", "view"}

SeedAccess(before) == (before \cap AccessFlags) \cup {"list", "view", "create"}

\* PermissionsGuard.isAllowed: the flags that allow an action.
\* Mutant: edit and delete by their own flags only.
AllowingStrictly(action) ==
  CASE action = "read"  -> {"read", "list", "view"}
    [] action = "write" -> {"write", "create"}
    [] OTHER            -> {action}

Allowing(action) ==
  CASE action = "read" -> {"read", "list", "view"}
    [] OTHER           -> {action, "create"}

IsAllowed(row, action) == row \cap Allowing(action) # {}

Actions == {"read", "write", "edit", "delete"}

\* getRolePermissions: what the permission page shows as ticked.
Shown(row) ==
  {action \in Actions :
     \/ action = "read" /\ ({"read", "list", "view"} \cap row # {})
     \/ action = "write" /\ ({"write", "create"} \cap row # {})
     \/ action = "edit" /\ ({"edit", "create"} \cap row # {})
     \/ action = "delete" /\ ({"delete", "create"} \cap row # {})}

\* mapRoleSummary counts the modules of a role.
Counted(row) == row \cap AccessFlags # {}

-----------------------------------------------------------------------------
RolesInit ==
  /\ code = [role \in RoleRows |-> NoCode]
  /\ rows = [role \in RoleRows |-> [m \in Modules |-> NoRow]]
  /\ request = [r \in Handlers |-> Unoccupied]
  /\ saved = [role \in RoleRows |-> [m \in Modules |-> NoForm]]

RoleExists(role) == code[role] # NoCode

\* The rows that a transaction has written and not committed.
\* Mutant: every upsert commits on its own.
LockedByNobody(role) == {}

Locked(role) ==
  UNION {DOMAIN request[r].old : r \in {q \in Handlers : Reached(q, "upsert") /\ request[q].role = role}}

\* What other readers see of a row: its value before the transaction that holds it.
Committed(role, m) ==
  LET holders == {r \in Handlers : /\ Reached(r, "upsert") /\ request[r].role = role
                                   /\ m \in DOMAIN request[r].old}
  IN IF holders = {} THEN rows[role][m] ELSE request[CHOOSE r \in holders : TRUE].old[m]

-----------------------------------------------------------------------------
(* Codes: candidates are tried one by one, the free one is written later. *)

BeginCreate(r) ==
  /\ Reached(r, "idle")
  /\ \E role \in RoleRows, base \in Bases :
       /\ ~RoleExists(role)
       /\ MovesTo(r, [at |-> "resolve", role |-> role, new |-> TRUE, base |-> base, suffix |-> 1])
  /\ UNCHANGED <<code, rows, saved>>

BeginRename(r) ==
  /\ Reached(r, "idle")
  /\ \E role \in RoleRows, base \in Bases :
       /\ RoleExists(role)
       /\ MovesTo(r, [at |-> "resolve", role |-> role, new |-> FALSE, base |-> base, suffix |-> 1])
  /\ UNCHANGED <<code, rows, saved>>

Candidate(r) == <<request[r].base, request[r].suffix>>
Taken(candidate, except) == \E role \in RoleRows \ except : code[role] = candidate

CandidateTaken(r) ==
  Taken(Candidate(r), IF request[r].new THEN {} ELSE {request[r].role})

ResolveCode(r) ==
  /\ Reached(r, "resolve")
  /\ IF CandidateTaken(r)
     THEN /\ request[r].suffix < MaxSuffix
          /\ MovesTo(r, [request[r] EXCEPT !.suffix = @ + 1])
     ELSE MovesTo(r, [request[r] EXCEPT !.at = "write"])
  /\ UNCHANGED <<code, rows, saved>>

\* Two creations may have picked one row of the model for their new role.
Vacant(r) == IF RoleExists(request[r].role) THEN {s \in RoleRows : ~RoleExists(s)} ELSE {request[r].role}

WriteRole(r) ==
  /\ Reached(r, "write")
  /\ ~CandidateTaken(r)
  /\ \E role \in IF request[r].new THEN Vacant(r) ELSE {request[r].role} :
       code' = [code EXCEPT ![role] = Candidate(r)]
  /\ Finishes(r)
  /\ UNCHANGED <<rows, saved>>

\* The unique index refuses the code: the client is told that it exists.
RefuseRole(r) ==
  /\ Reached(r, "write")
  /\ CandidateTaken(r)
  /\ Finishes(r)
  /\ UNCHANGED <<code, rows, saved>>

-----------------------------------------------------------------------------
(* A permission form is saved. *)

Orders == UNION {SetToSeqs(chosen) : chosen \in (SUBSET Modules) \ {{}}}

BeginSave(r) ==
  /\ Reached(r, "idle")
  /\ \E role \in RoleRows, order \in Orders, form \in [Modules -> Forms] :
       /\ RoleExists(role)
       /\ \A m \in Modules : ~Contains(order, m) => form[m] = CHOOSE f \in Forms : TRUE
       /\ MovesTo(r, [at |-> "upsert", role |-> role, todo |-> order, form |-> form,
                      old |-> [m \in {} |-> NoRow]])
  /\ UNCHANGED <<code, rows, saved>>

Keeping(old, m, row) == [n \in DOMAIN old \cup {m} |-> IF n = m THEN row ELSE old[n]]

Upsert(r) ==
  LET role == request[r].role  m == Head(request[r].todo) IN
  /\ Reached(r, "upsert")
  /\ request[r].todo # <<>>
  /\ m \notin Locked(role)
  /\ rows' = [rows EXCEPT ![role][m] = RowOf(request[r].form[m])]
  /\ MovesTo(r, [request[r] EXCEPT !.todo = Tail(@), !.old = Keeping(@, m, rows[role][m])])
  /\ UNCHANGED <<code, saved>>

CommitSave(r) ==
  LET role == request[r].role IN
  /\ Reached(r, "upsert")
  /\ request[r].todo = <<>>
  /\ saved' = [saved EXCEPT ![role] =
       [m \in Modules |-> IF m \in DOMAIN request[r].old THEN request[r].form[m] ELSE @[m]]]
  /\ Finishes(r)
  /\ UNCHANGED <<code, rows>>

Restored(old, now) == [m \in Modules |-> IF m \in DOMAIN old THEN old[m] ELSE now[m]]

\* A handler fails, dies, or is picked to break a deadlock: its rows are restored.
HandlerFails(r) ==
  /\ ~Reached(r, "idle")
  /\ rows' = IF Reached(r, "upsert") THEN [rows EXCEPT ![request[r].role] = Restored(request[r].old, @)] ELSE rows
  /\ Finishes(r)
  /\ UNCHANGED <<code, saved>>

-----------------------------------------------------------------------------
(* The start-up and the seed, at any time. *)

Default(role, m) == IF rows[role][m] = NoRow THEN DefaultRow(m) ELSE rows[role][m]

\* ensureDefaultDashboardPermissions, one upsert for a role it knows by its code.
StartUp ==
  /\ \E role \in RoleRows, m \in DashboardModules :
       /\ code[role] = <<SeedBase, 1>>
       /\ m \notin Locked(role)
       /\ rows' = [rows EXCEPT ![role][m] = Default(role, m)]
  /\ UNCHANGED <<code, request, saved>>

\* The seed creates the roles it knows (their codes may have been changed) ...
SeedRole ==
  /\ ~Taken(<<SeedBase, 1>>, {})
  /\ \E role \in RoleRows :
       /\ ~RoleExists(role)
       /\ code' = [code EXCEPT ![role] = <<SeedBase, 1>>]
  /\ UNCHANGED <<rows, request, saved>>

\* ... and lists, views and creates again what an administrator may have withdrawn.
SeedPermission ==
  /\ \E role \in RoleRows, m \in Modules \ DashboardModules :
       /\ code[role] = <<SeedBase, 1>>
       /\ m \notin Locked(role)
       /\ rows' = [rows EXCEPT ![role][m] = SeedAccess(@)]
       /\ saved' = [saved EXCEPT ![role][m] = NoForm]
  /\ UNCHANGED <<code, request>>

-----------------------------------------------------------------------------
HandlerStep(r) ==
  \/ BeginCreate(r) \/ BeginRename(r)
  \/ ResolveCode(r) \/ WriteRole(r) \/ RefuseRole(r)
  \/ BeginSave(r) \/ Upsert(r) \/ CommitSave(r) \/ HandlerFails(r)

RolesNext == (\E r \in Handlers : HandlerStep(r)) \/ StartUp \/ SeedRole \/ SeedPermission

RolesSpec == RolesInit /\ [][RolesNext]_roleVars

-----------------------------------------------------------------------------
(* Properties *)

\* Until the seed runs, the guard decides by the forms that were saved last, as a
\* whole: by no mixture of two saves, no default of a start-up, no flag that an
\* older save left behind.  The right to write brings edit and delete with it.
SavedStands ==
  \A role \in RoleRows, m \in Modules :
    LET form == saved[role][m]  row == Committed(role, m)
    IN form # NoForm =>
         /\ IsAllowed(row, "read") = form.read
         /\ IsAllowed(row, "write") = form.write
         /\ IsAllowed(row, "edit") = (form.edit \/ form.write)
         /\ IsAllowed(row, "delete") = (form.delete \/ form.write)

\* The permission page shows what the guard enforces, and the list of roles counts
\* the modules that have something to show, whoever wrote the row.
ShownIsEnforced ==
  \A role \in RoleRows, m \in Modules :
    LET row == Committed(role, m)
    IN /\ \A action \in Actions : action \in Shown(row) <=> IsAllowed(row, action)
       /\ Counted(row) <=> (\E action \in Actions : IsAllowed(row, action))
=============================================================================
