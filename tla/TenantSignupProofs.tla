-------------------------- MODULE TenantSignupProofs --------------------------
(***************************************************************************)
(* Theorems about TenantSignup, for any number of signups, logins, workers *)
(* and schemas, any routing, any migration target and any number of        *)
(* failing statements and crashes.                                         *)
(***************************************************************************)
EXTENDS TenantSignup, TLAPS

(* Type correctness *)

\* Where an exception takes a call is a step a call may be at.
LEMMA OnErrorType ==
    ASSUME NEW c \in Calls
    PROVE  /\ OnError(c) \in {"stuck", "drop", "refused"}
           /\ OnError(c) = "drop" => c \in Signups
BY DEF OnError

\* Init satisfies the types.
LEMMA TypeInit == Init => TypeOK
BY CallsAssumption, RoutingAssumption, BoundsAssumption
   DEF Init, TypeOK, Running, Ended, InTry, Rollback, Provisioning, Calls

\* Every action keeps the types.
LEMMA TypeStep == TypeOK /\ [Next]_vars => TypeOK'
<1> SUFFICES ASSUME TypeOK, [Next]_vars PROVE TypeOK'
  OBVIOUS
<1> USE CallsAssumption, RoutingAssumption, BoundsAssumption, OnErrorType
<1> USE DEF TypeOK, Goto, Running, Ended, InTry, Rollback, Provisioning, Calls,
            db, conns, budget
<1>1. ASSUME NEW c \in Calls, Initialize(c) PROVE TypeOK'
  BY <1>1 DEF Initialize
<1>2. ASSUME NEW c \in Calls, PlanMigrations(c) PROVE TypeOK'
  BY <1>2 DEF PlanMigrations
<1>3. ASSUME NEW c \in Calls, RunMigrations(c) PROVE TypeOK'
  <2>1. Home(c) \in SchemaNames /\ MigrationSchema[Home(c)] \in SchemaNames
    BY DEF Home
  <2>2. pc' \in [Calls -> {"idle"} \cup Running \cup Ended]
    BY <1>3 DEF RunMigrations
  <2>3. tables' \subseteq SchemaNames /\ migrated' \subseteq SchemaNames
    BY <1>3, <2>1 DEF RunMigrations
  <2>4. \A d \in Calls : pc'[d] \in {"owner", "query", "destroying"} => ds'[d] # NoDS
    BY <1>3 DEF RunMigrations
  <2> QED
    BY <1>3, <2>2, <2>3, <2>4 DEF RunMigrations
<1>4. ASSUME NEW c \in Calls, StoreDataSource(c) PROVE TypeOK'
  BY <1>4 DEF StoreDataSource
<1>5. ASSUME NEW r \in Signups, FindExisting(r) PROVE TypeOK'
  BY <1>5 DEF FindExisting
<1>6. ASSUME NEW r \in Signups, InsertTenant(r) PROVE TypeOK'
  BY <1>6 DEF InsertTenant
<1>7. ASSUME NEW r \in Signups, CreateSchema(r) PROVE TypeOK'
  <2>1. Home(r) \in SchemaNames
    BY DEF Home
  <2> QED
    BY <1>7, <2>1 DEF CreateSchema
<1>8. ASSUME NEW r \in Signups, SaveOwner(r) PROVE TypeOK'
  <2>1. ds[r] # NoDS => Home(ds[r]) \in SchemaNames
    BY DEF Home
  <2>2. ds[r] # NoDS
    BY <1>8 DEF SaveOwner
  <2> QED
    BY <1>8, <2>1, <2>2 DEF SaveOwner
<1>9. ASSUME NEW r \in Signups, DropSchema(r) PROVE TypeOK'
  BY <1>9 DEF DropSchema
<1>10. ASSUME NEW r \in Signups, DeleteTenant(r) PROVE TypeOK'
  BY <1>10 DEF DeleteTenant
<1>11. ASSUME NEW r \in Signups, BeginDisconnect(r) PROVE TypeOK'
  <2>1. cache[WorkerOf[r]][SlugOf[r]] \in Calls \cup {NoDS}
    OBVIOUS
  <2>2. pc' \in [Calls -> {"idle"} \cup Running \cup Ended]
    BY <1>11 DEF BeginDisconnect
  <2>3. /\ ds' \in [Calls -> Calls \cup {NoDS}]
        /\ \A d \in Calls : pc'[d] \in {"owner", "query", "destroying"} => ds'[d] # NoDS
    <3>1. CASE UNCHANGED ds /\ pc'[r] \in {"stuck", "rolledback"}
      BY <1>11, <3>1 DEF BeginDisconnect
    <3>2. CASE ~(UNCHANGED ds /\ pc'[r] \in {"stuck", "rolledback"})
      <4> DEFINE d == cache[WorkerOf[r]][SlugOf[r]]
      <4>1. d \in open /\ ds' = [ds EXCEPT ![r] = d]
        BY <1>11, <3>2 DEF BeginDisconnect
      <4>2. d \in Calls /\ d # NoDS /\ pc' = [pc EXCEPT ![r] = "destroying"]
        BY <1>11, <3>2, <4>1 DEF BeginDisconnect
      <4> HIDE DEF d
      <4> QED
        BY <4>1, <4>2
    <3> QED
      BY <3>1, <3>2
  <2> QED
    BY <1>11, <2>2, <2>3 DEF BeginDisconnect
<1>12. ASSUME NEW r \in Signups, EndDisconnect(r) PROVE TypeOK'
  BY <1>12 DEF EndDisconnect
<1>13. ASSUME NEW q \in Logins, ResolveTenant(q) PROVE TypeOK'
  BY <1>13 DEF ResolveTenant
<1>14. ASSUME NEW q \in Logins, GetDataSource(q) PROVE TypeOK'
  <2>1. cache[WorkerOf[q]][SlugOf[q]] \in Calls \cup {NoDS}
    OBVIOUS
  <2>2. pc' \in [Calls -> {"idle"} \cup Running \cup Ended]
        /\ ds' \in [Calls -> Calls \cup {NoDS}]
    BY <1>14, <2>1 DEF GetDataSource
  <2>3. \A d \in Calls : pc'[d] \in {"owner", "query", "destroying"} => ds'[d] # NoDS
    BY <1>14, <2>1 DEF GetDataSource
  <2> QED
    BY <1>14, <2>1, <2>2, <2>3 DEF GetDataSource
<1>15. ASSUME NEW q \in Logins, QueryUsers(q) PROVE TypeOK'
  BY <1>15 DEF QueryUsers
<1>16. ASSUME NEW c \in Calls, StatementFails(c) PROVE TypeOK'
  BY <1>16 DEF StatementFails
<1>17. ASSUME NEW r \in Signups, InsertAnswerLost(r) PROVE TypeOK'
  BY <1>17 DEF InsertAnswerLost
<1>18. ASSUME NEW w \in Workers, Crash(w) PROVE TypeOK'
  BY <1>18 DEF Crash
<1>19. CASE UNCHANGED vars
  BY <1>19 DEF vars
<1> QED
  BY <1>1, <1>2, <1>3, <1>4, <1>5, <1>6, <1>7, <1>8, <1>9, <1>10, <1>11, <1>12,
     <1>13, <1>14, <1>15, <1>16, <1>17, <1>18, <1>19
     DEF Next, Provision, Signup, Login

\* The types hold in every reachable state: no handler of signup, login or
\* provision() goes on with a DataSource it was not given.
THEOREM TypeCorrect == Spec => []TypeOK
<1>1. TypeOK /\ [Next]_vars => TypeOK'
  BY TypeStep
<1> QED
  BY TypeInit, <1>1, PTL DEF Spec

-----------------------------------------------------------------------------
(* Tenant isolation and the connection maps *)

\* A call at one of these steps has not been handed a DataSource yet.
PreStore == {"idle", "insert", "create", "lookup"} \cup Provisioning

\* provision() has returned the DataSource that call d built.
HandedOut(d) == d \in Calls /\ pc[d] \notin PreStore /\ ds[d] # NoDS

\* d was built for schema s in worker w.
BuiltFor(d, w, s) == SlugOf[d] = s /\ WorkerOf[d] = w

\* The strengthening that makes TenantIsolation and CachedIsOpen inductive and
\* that PoolDropsOutOnlyToRival rests on: a DataSource gets into a map or a variable only
\* after provision() returned it, and is open until then.
ConnInv ==
    /\ \A w \in Workers, s \in Slugs : cache[w][s] # NoDS =>
          HandedOut(cache[w][s]) /\ BuiltFor(cache[w][s], w, s)
    /\ \A c \in Calls : ds[c] # NoDS =>
          HandedOut(ds[c]) /\ BuiltFor(ds[c], WorkerOf[c], SlugOf[c])
    /\ \A c \in Calls : pc[c] \in PreStore => ds[c] = NoDS
    /\ \A c \in Calls : pc[c] \in {"plan", "migrate", "store"} => c \in open

\* A DataSource that was handed out stays so, whatever happens to its pool.
LEMMA HandedOutStable ==
    ASSUME TypeOK, [Next]_vars, NEW d \in Calls, HandedOut(d)
    PROVE  HandedOut(d)'
<1> USE CallsAssumption, OnErrorType
<1> USE DEF HandedOut, PreStore, TypeOK, Goto, Provisioning, db, conns, budget,
            Calls
<1>1. ASSUME NEW c \in Calls, Provision(c) PROVE HandedOut(d)'
  BY <1>1 DEF Provision, Initialize, PlanMigrations, RunMigrations, StoreDataSource
<1>2. ASSUME NEW r \in Signups, Signup(r) PROVE HandedOut(d)'
  <2>1. CASE FindExisting(r) \/ InsertTenant(r) \/ CreateSchema(r) \/ SaveOwner(r)
    BY <2>1 DEF FindExisting, InsertTenant, CreateSchema, SaveOwner
  <2>2. CASE DropSchema(r) \/ DeleteTenant(r) \/ EndDisconnect(r)
    BY <2>2 DEF DropSchema, DeleteTenant, EndDisconnect
  <2>3. CASE BeginDisconnect(r)
    BY <2>3 DEF BeginDisconnect
  <2> QED
    BY <1>2, <2>1, <2>2, <2>3 DEF Signup
<1>3. ASSUME NEW q \in Logins, Login(q) PROVE HandedOut(d)'
  BY <1>3 DEF Login, ResolveTenant, GetDataSource, QueryUsers
<1>4. ASSUME NEW c \in Calls, StatementFails(c) PROVE HandedOut(d)'
  BY <1>4 DEF StatementFails
<1>5. ASSUME NEW r \in Signups, InsertAnswerLost(r) PROVE HandedOut(d)'
  BY <1>5 DEF InsertAnswerLost
<1>6. ASSUME NEW w \in Workers, Crash(w) PROVE HandedOut(d)'
  BY <1>6 DEF Crash
<1>7. CASE UNCHANGED vars
  BY <1>7 DEF vars
<1> QED
  BY <1>1, <1>2, <1>3, <1>4, <1>5, <1>6, <1>7 DEF Next

\* What ConnInv says of one map entry and of one call, for the step proofs.
CachedOK(w, s) ==
    cache[w][s] # NoDS => HandedOut(cache[w][s]) /\ BuiltFor(cache[w][s], w, s)
HeldOK(c) ==
    /\ ds[c] # NoDS => HandedOut(ds[c]) /\ BuiltFor(ds[c], WorkerOf[c], SlugOf[c])
    /\ pc[c] \in PreStore => ds[c] = NoDS
    /\ pc[c] \in {"plan", "migrate", "store"} => c \in open

\* Init satisfies the strengthening.
LEMMA ConnInit == Init => ConnInv
BY CallsAssumption, RoutingAssumption
   DEF Init, ConnInv, HandedOut, PreStore, Provisioning, Calls

\* The strengthening is inductive.
LEMMA ConnStep == TypeOK /\ ConnInv /\ [Next]_vars => ConnInv'
<1> SUFFICES ASSUME TypeOK, ConnInv, [Next]_vars PROVE ConnInv'
  OBVIOUS
<1> USE CallsAssumption, RoutingAssumption, OnErrorType
<1>s. \A d \in Calls : HandedOut(d) => HandedOut(d)'
  BY HandedOutStable
<1>t. TypeOK /\ TypeOK'
  BY TypeStep
\* The steps that leave the maps, the variables and the pools alone.
<1>u. ASSUME UNCHANGED conns,
             \A c \in Calls : pc'[c] \in PreStore => pc[c] \in PreStore,
             \A c \in Calls : pc'[c] \in {"plan", "migrate", "store"} =>
                                pc[c] \in {"plan", "migrate", "store"}
      PROVE  ConnInv'
  BY <1>s, <1>t, <1>u DEF ConnInv, BuiltFor, conns, TypeOK
<1>1. ASSUME NEW c \in Calls, Initialize(c) PROVE ConnInv'
  BY <1>1, <1>s, <1>t
     DEF Initialize, ConnInv, BuiltFor, Goto, TypeOK, PreStore, Provisioning
<1>2. ASSUME NEW c \in Calls, PlanMigrations(c) PROVE ConnInv'
  BY <1>2, <1>u DEF PlanMigrations, Goto, TypeOK, PreStore, Provisioning
<1>3. ASSUME NEW c \in Calls, RunMigrations(c) PROVE ConnInv'
  BY <1>3, <1>u DEF RunMigrations, Goto, TypeOK, PreStore, Provisioning
<1>4. ASSUME NEW c \in Calls, StoreDataSource(c) PROVE ConnInv'
  <2>1. HandedOut(c)' /\ ds' = [ds EXCEPT ![c] = c]
    BY <1>4 DEF StoreDataSource, HandedOut, Goto, TypeOK, PreStore, Provisioning
  <2>2. ASSUME NEW w \in Workers, NEW s \in Slugs PROVE CachedOK(w, s)'
    BY <1>4, <1>s, <2>1 DEF StoreDataSource, CachedOK, BuiltFor, ConnInv, TypeOK
  <2>3. ASSUME NEW e \in Calls PROVE HeldOK(e)'
    BY <1>4, <1>s, <2>1
       DEF StoreDataSource, HeldOK, BuiltFor, ConnInv, Goto, TypeOK, PreStore,
           Provisioning
  <2> QED
    BY <2>2, <2>3 DEF ConnInv, CachedOK, HeldOK
<1>5. ASSUME NEW r \in Signups, FindExisting(r) PROVE ConnInv'
  BY <1>5, <1>u DEF FindExisting, Goto, TypeOK, PreStore, Provisioning, Calls
<1>6. ASSUME NEW r \in Signups, InsertTenant(r) PROVE ConnInv'
  BY <1>6, <1>u DEF InsertTenant, Goto, TypeOK, PreStore, Provisioning, Calls
<1>7. ASSUME NEW r \in Signups, CreateSchema(r) PROVE ConnInv'
  BY <1>7, <1>u DEF CreateSchema, Goto, TypeOK, PreStore, Provisioning, Calls
<1>8. ASSUME NEW r \in Signups, SaveOwner(r) PROVE ConnInv'
  BY <1>8, <1>u DEF SaveOwner, Goto, TypeOK, PreStore, Provisioning, Calls
<1>9. ASSUME NEW r \in Signups, DropSchema(r) PROVE ConnInv'
  BY <1>9, <1>u DEF DropSchema, Goto, TypeOK, PreStore, Provisioning, Calls
<1>10. ASSUME NEW r \in Signups, DeleteTenant(r) PROVE ConnInv'
  BY <1>10, <1>u DEF DeleteTenant, Goto, TypeOK, PreStore, Provisioning, Calls
<1>11. ASSUME NEW r \in Signups, BeginDisconnect(r) PROVE ConnInv'
  <2>d DEFINE d == cache[WorkerOf[r]][SlugOf[r]]
  <2>1. CASE d \in open /\ ~Closing(d)
    <3>1. d # NoDS /\ HandedOut(d) /\ BuiltFor(d, WorkerOf[r], SlugOf[r])
      BY <2>1 DEF ConnInv, TypeOK, Calls
    <3>2. /\ ds' = [ds EXCEPT ![r] = d] /\ UNCHANGED <<cache, open>>
          /\ pc' = [pc EXCEPT ![r] = "destroying"]
      BY <1>11, <2>1 DEF BeginDisconnect, Goto
    <3>3. ASSUME NEW w \in Workers, NEW s \in Slugs PROVE CachedOK(w, s)'
      BY <1>s, <3>2 DEF CachedOK, BuiltFor, ConnInv, TypeOK
    <3>4. ASSUME NEW e \in Calls PROVE HeldOK(e)'
      <4> HIDE DEF d
      <4> QED
        BY <1>s, <3>1, <3>2
           DEF HeldOK, BuiltFor, HandedOut, ConnInv, TypeOK, PreStore, Provisioning,
               Calls
    <3> QED
      BY <3>3, <3>4 DEF ConnInv, CachedOK, HeldOK
  <2>2. CASE ~(d \in open /\ ~Closing(d))
    BY <1>11, <2>2, <1>u
       DEF BeginDisconnect, Goto, TypeOK, PreStore, Provisioning, Calls, conns
  <2> QED
    BY <2>1, <2>2
<1>12. ASSUME NEW r \in Signups, EndDisconnect(r) PROVE ConnInv'
  <2>1. pc[r] = "destroying" /\ HandedOut(ds[r])
    BY <1>12 DEF EndDisconnect, ConnInv, TypeOK, Calls
  <2>2. ASSUME NEW w \in Workers, NEW s \in Slugs PROVE CachedOK(w, s)'
    BY <1>12, <1>s DEF EndDisconnect, CachedOK, BuiltFor, ConnInv, TypeOK
  <2>3. ASSUME NEW e \in Calls PROVE HeldOK(e)'
    BY <1>12, <1>s, <2>1
       DEF EndDisconnect, HeldOK, HandedOut, BuiltFor, ConnInv, Goto, TypeOK,
           PreStore, Provisioning, Calls
  <2> QED
    BY <2>2, <2>3 DEF ConnInv, CachedOK, HeldOK
<1>13. ASSUME NEW q \in Logins, ResolveTenant(q) PROVE ConnInv'
  BY <1>13, <1>u DEF ResolveTenant, Goto, TypeOK, PreStore, Provisioning, Calls
<1>14. ASSUME NEW q \in Logins, GetDataSource(q) PROVE ConnInv'
  <2>d DEFINE d == cache[WorkerOf[q]][SlugOf[q]]
  <2>1. CASE d # NoDS
    <3>1. HandedOut(d) /\ BuiltFor(d, WorkerOf[q], SlugOf[q])
      BY <2>1 DEF ConnInv, Calls
    <3>2. /\ ds' = [ds EXCEPT ![q] = d] /\ UNCHANGED <<cache, open>>
          /\ pc' = [pc EXCEPT ![q] = "query"]
      BY <1>14, <2>1 DEF GetDataSource, Goto
    <3>3. ASSUME NEW w \in Workers, NEW s \in Slugs PROVE CachedOK(w, s)'
      BY <1>s, <3>2 DEF CachedOK, BuiltFor, ConnInv, TypeOK
    <3>4. ASSUME NEW e \in Calls PROVE HeldOK(e)'
      <4> HIDE DEF d
      <4> QED
        BY <1>s, <3>1, <3>2
           DEF HeldOK, BuiltFor, HandedOut, ConnInv, TypeOK, PreStore, Provisioning,
               Calls
    <3> QED
      BY <3>3, <3>4 DEF ConnInv, CachedOK, HeldOK
  <2>2. CASE d = NoDS
    BY <1>14, <2>2, <1>u
       DEF GetDataSource, Goto, TypeOK, PreStore, Provisioning, Calls, conns
  <2> QED
    BY <2>1, <2>2
<1>15. ASSUME NEW q \in Logins, QueryUsers(q) PROVE ConnInv'
  BY <1>15, <1>u DEF QueryUsers, Goto, TypeOK, PreStore, Provisioning, Calls
<1>16. ASSUME NEW c \in Calls, StatementFails(c) PROVE ConnInv'
  BY <1>16, <1>u DEF StatementFails, Goto, TypeOK, PreStore, Provisioning
<1>17. ASSUME NEW r \in Signups, InsertAnswerLost(r) PROVE ConnInv'
  BY <1>17, <1>u DEF InsertAnswerLost, Goto, TypeOK, PreStore, Provisioning, Calls
<1>18. ASSUME NEW w \in Workers, Crash(w) PROVE ConnInv'
  <2>1. ASSUME NEW x \in Workers, NEW s \in Slugs PROVE CachedOK(x, s)'
    BY <1>18, <1>s DEF Crash, CachedOK, BuiltFor, ConnInv, TypeOK
  <2>2. ASSUME NEW e \in Calls PROVE HeldOK(e)'
    BY <1>18, <1>s
       DEF Crash, HeldOK, BuiltFor, ConnInv, TypeOK, PreStore, Provisioning, Calls,
           Running, InTry
  <2> QED
    BY <2>1, <2>2 DEF ConnInv, CachedOK, HeldOK
<1>19. CASE UNCHANGED vars
  BY <1>19, <1>u DEF vars
<1> QED
  BY <1>1, <1>2, <1>3, <1>4, <1>5, <1>6, <1>7, <1>8, <1>9, <1>10, <1>11, <1>12,
     <1>13, <1>14, <1>15, <1>16, <1>17, <1>18, <1>19
     DEF Next, Provision, Signup, Login

\* Only SaveOwner adds users rows.
LEMMA OwnersGrow ==
    ASSUME [Next]_vars, NEW row \in owners' \ owners
    PROVE  \E r \in Signups : SaveOwner(r) /\ row = <<r, Home(ds[r])>>
<1> USE DEF db, conns, budget
<1>1. ASSUME NEW c \in Calls, Provision(c) \/ StatementFails(c) PROVE FALSE
  BY <1>1 DEF Provision, Initialize, PlanMigrations, RunMigrations, StoreDataSource,
              StatementFails
<1>2. ASSUME NEW r \in Signups, Signup(r) PROVE SaveOwner(r)
  BY <1>2 DEF Signup, FindExisting, InsertTenant, CreateSchema, DropSchema,
              DeleteTenant, BeginDisconnect, EndDisconnect
<1>3. ASSUME NEW r \in Signups, InsertAnswerLost(r) PROVE FALSE
  BY <1>3 DEF InsertAnswerLost
<1>4. ASSUME NEW q \in Logins, Login(q) PROVE FALSE
  BY <1>4 DEF Login, ResolveTenant, GetDataSource, QueryUsers
<1>5. ASSUME NEW w \in Workers, Crash(w) PROVE FALSE
  BY <1>5 DEF Crash
<1>6. CASE UNCHANGED vars
  BY <1>6 DEF vars
<1>7. PICK r \in Signups : SaveOwner(r)
  BY <1>1, <1>2, <1>3, <1>4, <1>5, <1>6 DEF Next
<1> QED
  BY <1>7 DEF SaveOwner

\* Nobody holds a DataSource at first.
LEMMA IsolationInit == Init => TenantIsolation
BY CallsAssumption DEF Init, TenantIsolation, Calls

\* Isolation follows from the strengthening, step by step.
LEMMA IsolationStep ==
    TypeOK /\ ConnInv /\ ConnInv' /\ TypeOK' /\ TenantIsolation /\ [Next]_vars
        => TenantIsolation'
<1> SUFFICES ASSUME TypeOK, ConnInv, ConnInv', TypeOK', TenantIsolation, [Next]_vars
             PROVE  TenantIsolation'
  OBVIOUS
<1>1. ASSUME NEW c \in Calls, ds'[c] # NoDS
      PROVE  SlugOf[ds'[c]] = SlugOf[c] /\ WorkerOf[ds'[c]] = WorkerOf[c]
  BY <1>1 DEF ConnInv, BuiltFor
<1>2. ASSUME NEW row \in owners' PROVE row[2] = Home(row[1])
  <2>1. CASE row \in owners
    BY <2>1 DEF TenantIsolation
  <2>2. CASE row \notin owners
    <3>1. PICK r \in Signups : SaveOwner(r) /\ row = <<r, Home(ds[r])>>
      BY <2>2, OwnersGrow
    <3>2. ds[r] # NoDS
      BY <3>1 DEF SaveOwner, TypeOK, Calls
    <3>3. Home(ds[r]) = Home(r)
      BY <3>2 DEF TenantIsolation, Calls, Home
    <3> QED
      BY <3>1, <3>3
  <2> QED
    BY <2>1, <2>2
<1> QED
  BY <1>1, <1>2 DEF TenantIsolation

\* A DataSource found in a map is open, in every reachable state.
LEMMA CachedIsOpenStep ==
    TypeOK /\ ConnInv /\ CachedIsOpen /\ [Next]_vars => CachedIsOpen'
<1> SUFFICES ASSUME TypeOK, ConnInv, CachedIsOpen, [Next]_vars,
                    NEW w \in Workers, NEW s \in Slugs, cache'[w][s] # NoDS
             PROVE  cache'[w][s] \in open'
  BY DEF CachedIsOpen
<1> USE RoutingAssumption
<1> USE DEF db, conns, budget, CachedIsOpen, TypeOK
<1>1. ASSUME NEW c \in Calls, Provision(c) \/ StatementFails(c)
      PROVE  cache'[w][s] \in open'
  <2>1. CASE Initialize(c) \/ PlanMigrations(c) \/ RunMigrations(c) \/ StatementFails(c)
    BY <2>1 DEF Initialize, PlanMigrations, RunMigrations, StatementFails
  <2>2. CASE StoreDataSource(c)
    BY <2>2 DEF StoreDataSource, ConnInv
  <2> QED
    BY <1>1, <2>1, <2>2 DEF Provision
<1>2. ASSUME NEW r \in Signups, Signup(r) \/ InsertAnswerLost(r)
      PROVE  cache'[w][s] \in open'
  <2>1. CASE EndDisconnect(r)
    <3>1. BuiltFor(ds[r], WorkerOf[r], SlugOf[r])
      BY <2>1 DEF EndDisconnect, ConnInv, Calls
    <3>2. CASE w = WorkerOf[r] /\ s = SlugOf[r]
      BY <2>1, <3>2 DEF EndDisconnect
    <3>3. CASE ~(w = WorkerOf[r] /\ s = SlugOf[r])
      <4>1. cache'[w][s] = cache[w][s]
        BY <2>1, <3>3 DEF EndDisconnect
      <4>2. BuiltFor(cache[w][s], w, s)
        BY <4>1 DEF ConnInv
      <4> QED
        BY <2>1, <3>1, <3>3, <4>1, <4>2 DEF EndDisconnect, BuiltFor
    <3> QED
      BY <3>2, <3>3
  <2>2. CASE ~EndDisconnect(r)
    BY <1>2, <2>2 DEF Signup, FindExisting, InsertTenant, CreateSchema, SaveOwner,
                      DropSchema, DeleteTenant, BeginDisconnect, InsertAnswerLost
  <2> QED
    BY <2>1, <2>2
<1>3. ASSUME NEW q \in Logins, Login(q) PROVE cache'[w][s] \in open'
  BY <1>3 DEF Login, ResolveTenant, GetDataSource, QueryUsers
<1>4. ASSUME NEW x \in Workers, Crash(x) PROVE cache'[w][s] \in open'
  BY <1>4 DEF Crash, ConnInv, BuiltFor
<1>5. CASE UNCHANGED vars
  BY <1>5 DEF vars
<1> QED
  BY <1>1, <1>2, <1>3, <1>4, <1>5 DEF Next

ConnAll == TypeOK /\ ConnInv /\ TenantIsolation /\ CachedIsOpen

\* The induction that carries the four parts of ConnAll.
LEMMA ConnAllInvariant == Spec => []ConnAll
<1>1. Init => ConnAll
  BY TypeInit, ConnInit, IsolationInit, RoutingAssumption DEF ConnAll, Init, CachedIsOpen
<1>2. ConnAll /\ [Next]_vars => ConnAll'
  BY TypeStep, ConnStep, IsolationStep, CachedIsOpenStep DEF ConnAll
<1> QED
  BY <1>1, <1>2, PTL DEF Spec

\* Every call works on a DataSource of its own tenant and process, and every
\* users row is in its own tenant's schema (getDataSource, provision).
THEOREM IsolationHolds == Spec => []TenantIsolation
<1>1. ConnAll => TenantIsolation
  BY DEF ConnAll
<1> QED
  BY ConnAllInvariant, <1>1, PTL

\* deleteConnection never leaves a destroyed pool in the map.
THEOREM CachedIsOpenHolds == Spec => []CachedIsOpen
<1>1. ConnAll => CachedIsOpen
  BY DEF ConnAll
<1> QED
  BY ConnAllInvariant, <1>1, PTL

-----------------------------------------------------------------------------
(* The rows of the tenants table *)

\* A signup that has its row and has not begun to give it up.
HasRow == {"create", "owner", "created"} \cup Provisioning

\* r knows of its row and has not come to delete it.
Keeps(r) == r \in saved /\ pc[r] \in HasRow \cup {"drop", "delete"}

\* The strengthening behind the refinement: whose row is in the table, step by
\* step, for as long as there is a table, and the unique constraints.
RowInv ==
    /\ \A r \in Signups : pc[r] \in {"idle", "insert"} => r \notin tenants \cup saved
    /\ \A r \in Signups : pc[r] \in HasRow => r \in saved
    /\ \A r \in Signups : registry /\ Keeps(r) => r \in tenants
    /\ ~registry => tenants = {}
    /\ \A r, q \in tenants : r # q => SlugOf[r] # SlugOf[q] /\ EmailOf[r] # EmailOf[q]
    /\ \A r, q \in Signups :
          r # q /\ Keeps(r) /\ Keeps(q) => SlugOf[r] # SlugOf[q] /\ EmailOf[r] # EmailOf[q]

\* Init satisfies the invariant of the rows.
LEMMA RowInit == Init => RowInv
BY DEF Init, RowInv, Keeps, HasRow, Provisioning, Calls

\* The invariant of the rows is inductive.
LEMMA RowStep == TypeOK /\ RowInv /\ [Next]_vars => RowInv'
<1> SUFFICES ASSUME TypeOK, RowInv, [Next]_vars PROVE RowInv'
  OBVIOUS
<1> USE CallsAssumption, OnErrorType
<1> USE DEF db, conns, budget, TypeOK, RowInv, Keeps, HasRow, Provisioning, Goto, Calls
\* Steps that touch neither the table nor the local variables.
<1>u. ASSUME UNCHANGED <<registry, tenants, saved>>,
             \A r \in Signups : pc'[r] \in {"idle", "insert"} => r \notin tenants \cup saved,
             \A r \in Signups : pc'[r] \in HasRow => pc[r] \in HasRow,
             \A r \in saved : pc'[r] \in {"drop", "delete"} =>
                               pc[r] \in HasRow \cup {"drop", "delete"}
      PROVE  RowInv'
  BY <1>u
<1>1. ASSUME NEW c \in Calls, Provision(c) PROVE RowInv'
  BY <1>1, <1>u
     DEF Provision, Initialize, PlanMigrations, RunMigrations, StoreDataSource
<1>2. ASSUME NEW r \in Signups, FindExisting(r) PROVE RowInv'
  BY <1>2, <1>u DEF FindExisting
<1>3. ASSUME NEW r \in Signups, InsertTenant(r) PROVE RowInv'
  BY <1>3 DEF InsertTenant, UniqueViolation
<1>4. ASSUME NEW r \in Signups, CreateSchema(r) \/ SaveOwner(r) \/ DropSchema(r)
      PROVE  RowInv'
  <2>1. CASE CreateSchema(r) \/ SaveOwner(r)
    BY <1>u, <2>1 DEF CreateSchema, SaveOwner
  <2>2. CASE DropSchema(r)
    BY <2>2 DEF DropSchema
  <2> QED
    BY <1>4, <2>1, <2>2
<1>5. ASSUME NEW r \in Signups, DeleteTenant(r) PROVE RowInv'
  BY <1>5 DEF DeleteTenant, RowsToDelete
<1>6. ASSUME NEW r \in Signups, BeginDisconnect(r) \/ EndDisconnect(r) PROVE RowInv'
  BY <1>6, <1>u DEF BeginDisconnect, EndDisconnect
<1>7. ASSUME NEW q \in Logins, Login(q) PROVE RowInv'
  BY <1>7, <1>u DEF Login, ResolveTenant, GetDataSource, QueryUsers
<1>8. ASSUME NEW c \in Calls, StatementFails(c) PROVE RowInv'
  BY <1>8 DEF StatementFails, OnError, Rollback, InTry
<1>9. ASSUME NEW r \in Signups, InsertAnswerLost(r) PROVE RowInv'
  BY <1>9 DEF InsertAnswerLost, UniqueViolation
<1>10. ASSUME NEW w \in Workers, Crash(w) PROVE RowInv'
  BY <1>10, <1>u DEF Crash
<1>11. CASE UNCHANGED vars
  BY <1>11, <1>u DEF vars
<1> QED
  BY <1>1, <1>2, <1>3, <1>4, <1>5, <1>6, <1>7, <1>8, <1>9, <1>10, <1>11
     DEF Next, Signup

\* The invariant of the rows holds in every reachable state.
LEMMA RowInvariant == Spec => [](TypeOK /\ RowInv)
<1>1. Init => TypeOK /\ RowInv
  BY TypeInit, RowInit
<1>2. TypeOK /\ RowInv /\ [Next]_vars => TypeOK' /\ RowInv'
  BY TypeStep, RowStep
<1> QED
  BY <1>1, <1>2, PTL DEF Spec

-----------------------------------------------------------------------------
(* signup implements TenantRegistry *)

\* Initial states map to initial states of TenantRegistry.
LEMMA RegistryInit == Init => Registry!Init
BY DEF Init, Registry!Init, Calls

\* Every step maps to a step of TenantRegistry or to a stutter.
LEMMA RegistryStep ==
    TypeOK /\ RowInv /\ [Next]_vars => [Registry!Next]_(Registry!vars)
<1> SUFFICES ASSUME TypeOK, RowInv, [Next]_vars
             PROVE  [Registry!Next]_(Registry!vars)
  OBVIOUS
<1> USE CallsAssumption, OnErrorType
<1> USE DEF db, conns, budget, TypeOK, Goto, Calls
<1>d DEFINE Confirmed == {r \in Signups : pc[r] = "created"}
\* Steps that answer no signup and change no row.
<1>u. ASSUME UNCHANGED <<registry, tenants>>,
             \A r \in Signups : pc'[r] = "created" <=> pc[r] = "created"
      PROVE  UNCHANGED Registry!vars
  BY <1>u DEF Registry!vars
<1>1. ASSUME NEW c \in Calls, Provision(c) PROVE UNCHANGED Registry!vars
  BY <1>1, <1>u
     DEF Provision, Initialize, PlanMigrations, RunMigrations, StoreDataSource
<1>2. ASSUME NEW r \in Signups, FindExisting(r) \/ CreateSchema(r)
      PROVE  UNCHANGED Registry!vars
  BY <1>2, <1>u DEF FindExisting, CreateSchema
<1>11. ASSUME NEW r \in Signups, DropSchema(r) PROVE [Registry!Next]_(Registry!vars)
  <2>1. Confirmed' = Confirmed /\ r \notin Confirmed
    BY <1>11 DEF DropSchema
  <2>2. CASE Home(r) = Public
    <3>1. registry' = FALSE /\ tenants' = {}
      BY <1>11, <2>2 DEF DropSchema
    <3>2. Registry!Wipe(r)
      BY <2>1, <2>2, <3>1 DEF Registry!Wipe
    <3> QED
      BY <3>2 DEF Registry!Next
  <2>3. CASE Home(r) # Public
    BY <1>11, <2>1, <2>3 DEF DropSchema, Registry!vars
  <2> QED
    BY <2>2, <2>3
<1>3. ASSUME NEW r \in Signups, BeginDisconnect(r) \/ EndDisconnect(r)
      PROVE  UNCHANGED Registry!vars
  BY <1>3, <1>u DEF BeginDisconnect, EndDisconnect
<1>4. ASSUME NEW r \in Signups, InsertTenant(r) \/ InsertAnswerLost(r)
      PROVE  [Registry!Next]_(Registry!vars)
  <2>1. r \notin tenants /\ Confirmed' = Confirmed
    BY <1>4 DEF InsertTenant, InsertAnswerLost, RowInv
  <2>2. CASE ~registry \/ UniqueViolation(r)
    BY <1>4, <2>1, <2>2 DEF InsertTenant, InsertAnswerLost, Registry!vars
  <2>3. CASE registry /\ ~UniqueViolation(r)
    <3>1. tenants' = tenants \cup {r} /\ UNCHANGED registry
      BY <1>4, <2>3 DEF InsertTenant, InsertAnswerLost
    <3>2. \A q \in tenants : ~Registry!Clash(r, q)
      BY <2>3 DEF UniqueViolation, Registry!Clash
    <3>3. Registry!Reserve(r)
      BY <2>1, <2>3, <3>1, <3>2 DEF Registry!Reserve
    <3> QED
      BY <3>3 DEF Registry!Next
  <2> QED
    BY <2>2, <2>3
<1>5. ASSUME NEW r \in Signups, SaveOwner(r) PROVE [Registry!Next]_(Registry!vars)
  <2>1. CASE pc'[r] = "created"
    <3>1. r \notin Confirmed /\ (registry => r \in tenants)
      BY <1>5 DEF SaveOwner, RowInv, Keeps, HasRow
    <3>2. Confirmed' = Confirmed \cup {r} /\ UNCHANGED <<registry, tenants>>
      BY <1>5, <2>1 DEF SaveOwner
    <3>3. Registry!Confirm(r)
      BY <3>1, <3>2 DEF Registry!Confirm
    <3> QED
      BY <3>3 DEF Registry!Next
  <2>2. CASE pc'[r] # "created"
    BY <1>5, <2>2, <1>u DEF SaveOwner
  <2> QED
    BY <2>1, <2>2
<1>6. ASSUME NEW r \in Signups, DeleteTenant(r) PROVE [Registry!Next]_(Registry!vars)
  <2>1. Confirmed' = Confirmed /\ r \notin Confirmed /\ UNCHANGED registry
    BY <1>6 DEF DeleteTenant
  <2>2. CASE r \in saved /\ registry
    <3>1. r \in tenants /\ tenants' = tenants \ {r}
      BY <1>6, <2>2 DEF DeleteTenant, RowsToDelete, RowInv, Keeps
    <3>2. Registry!Release(r)
      BY <2>1, <3>1 DEF Registry!Release
    <3> QED
      BY <3>2 DEF Registry!Next
  <2>3. CASE ~(r \in saved /\ registry)
    <3>1. UNCHANGED tenants
      BY <1>6, <2>3 DEF DeleteTenant, RowsToDelete, RowInv
    <3> QED
      BY <2>1, <3>1 DEF Registry!vars
  <2> QED
    BY <2>2, <2>3
<1>7. ASSUME NEW q \in Logins, Login(q) PROVE UNCHANGED Registry!vars
  BY <1>7, <1>u DEF Login, ResolveTenant, GetDataSource, QueryUsers
<1>8. ASSUME NEW c \in Calls, StatementFails(c) PROVE UNCHANGED Registry!vars
  BY <1>8, <1>u DEF StatementFails
<1>9. ASSUME NEW w \in Workers, Crash(w) PROVE UNCHANGED Registry!vars
  BY <1>9, <1>u DEF Crash, Running, InTry, Rollback, Provisioning
<1>10. CASE UNCHANGED vars
  BY <1>10, <1>u DEF vars
<1> QED
  BY <1>1, <1>2, <1>3, <1>4, <1>5, <1>6, <1>7, <1>8, <1>9, <1>10, <1>11 DEF Next, Signup

\* Rows never clash, only the signup that inserted a row withdraws it, and a
\* row of a signup that was answered 201 stays, until a signup for the slug
\* "public" is rolled back (signup, UNIQUE constraints, DROP SCHEMA).
THEOREM RefinesRegistry == Spec => ImplementsRegistry
<1>1. Init => Registry!Init
  BY RegistryInit
<1>2. TypeOK /\ RowInv /\ [Next]_vars => [Registry!Next]_(Registry!vars)
  BY RegistryStep
<1> QED
  BY <1>1, <1>2, RowInvariant, PTL DEF Spec, ImplementsRegistry, Registry!Spec

-----------------------------------------------------------------------------
(* Owners *)

\* Only DropSchema removes schemas, tables or users rows.
LEMMA DataShrinks ==
    ASSUME [Next]_vars
    PROVE  \/ schemas \subseteq schemas' /\ tables \subseteq tables' /\ owners \subseteq owners'
           \/ \E r \in Signups : DropSchema(r)
<1> USE DEF db, conns, budget
<1>1. ASSUME NEW c \in Calls, Provision(c) \/ StatementFails(c)
      PROVE  schemas \subseteq schemas' /\ tables \subseteq tables' /\ owners \subseteq owners'
  BY <1>1 DEF Provision, Initialize, PlanMigrations, RunMigrations, StoreDataSource,
              StatementFails
<1>2. ASSUME NEW r \in Signups, Signup(r) \/ InsertAnswerLost(r), ~DropSchema(r)
      PROVE  schemas \subseteq schemas' /\ tables \subseteq tables' /\ owners \subseteq owners'
  BY <1>2 DEF Signup, FindExisting, InsertTenant, CreateSchema, SaveOwner,
              DeleteTenant, BeginDisconnect, EndDisconnect, InsertAnswerLost
<1>3. ASSUME NEW l \in Logins, Login(l)
      PROVE  schemas \subseteq schemas' /\ tables \subseteq tables' /\ owners \subseteq owners'
  BY <1>3 DEF Login, ResolveTenant, GetDataSource, QueryUsers
<1>4. ASSUME NEW w \in Workers, Crash(w)
      PROVE  schemas \subseteq schemas' /\ tables \subseteq tables' /\ owners \subseteq owners'
  BY <1>4 DEF Crash
<1>5. CASE UNCHANGED vars
  BY <1>5 DEF vars
<1> QED
  BY <1>1, <1>2, <1>3, <1>4, <1>5 DEF Next

\* The argument: a created signup had its row; a rival for its slug that got one
\* too would have clashed with it, so one that drops the schema has none.
LEMMA OwnerLostStep ==
    ASSUME TypeOK, RowInv, TenantIsolation, [Next]_vars,
           NEW r \in Signups, pc[r] = "created", OwnerRow(r) \in owners \ owners'
    PROVE  \E q \in Signups \ {r} :
              /\ Home(q) = Home(r) /\ pc[q] = "drop"
              /\ SlugOf[q] = SlugOf[r] => q \notin saved
<1>1. PICK q \in Signups : DropSchema(q)
  BY DataShrinks
<1>2. Home(q) = Home(r) /\ pc[q] = "drop" /\ q # r
  BY <1>1 DEF DropSchema, OwnerRow
<1>3. Keeps(r)
  BY DEF RowInv, HasRow, Keeps
<1>4. q \in saved => Keeps(q)
  BY <1>2 DEF Keeps
<1> QED
  BY <1>2, <1>3, <1>4 DEF RowInv

\* Both invariants together.
LEMMA RowsAndConnections == Spec => [](ConnAll /\ RowInv)
BY ConnAllInvariant, RowInvariant, PTL

\* An owner row of a created tenant goes only with the DROP SCHEMA of a signup
\* for its schema, which got no row if it is for its slug (catch block of signup).
THEOREM OwnerLossHolds == Spec => OwnerLostOnlyToRival
<1>1. ConnAll /\ RowInv /\ [Next]_vars =>
        [\A r \in Signups :
            (pc[r] = "created" /\ OwnerRow(r) \in owners \ owners') =>
                \E q \in Signups \ {r} :
                    /\ Home(q) = Home(r) /\ pc[q] = "drop"
                    /\ SlugOf[q] = SlugOf[r] => q \notin saved]_vars
  BY OwnerLostStep DEF ConnAll
<1> QED
  BY <1>1, RowsAndConnections, PTL DEF Spec, OwnerLostOnlyToRival

\* r is the only signup for its schema.
Unrivalled(r) == \A q \in Signups \ {r} : Home(q) # Home(r)

TablesHaveSchemas == tables \subseteq schemas

\* Tables are created in schemas that exist, and go with them.
LEMMA TablesStep == TablesHaveSchemas /\ [Next]_vars => TablesHaveSchemas'
<1> SUFFICES ASSUME TablesHaveSchemas, [Next]_vars PROVE TablesHaveSchemas'
  OBVIOUS
<1> USE DEF TablesHaveSchemas, db, conns, budget
<1>1. ASSUME NEW c \in Calls, Provision(c) \/ StatementFails(c) PROVE TablesHaveSchemas'
  BY <1>1 DEF Provision, Initialize, PlanMigrations, RunMigrations, StoreDataSource,
              StatementFails
<1>2. ASSUME NEW r \in Signups, Signup(r) \/ InsertAnswerLost(r) PROVE TablesHaveSchemas'
  BY <1>2 DEF Signup, FindExisting, InsertTenant, CreateSchema, SaveOwner, DropSchema,
              DeleteTenant, BeginDisconnect, EndDisconnect, InsertAnswerLost
<1>3. ASSUME NEW q \in Logins, Login(q) PROVE TablesHaveSchemas'
  BY <1>3 DEF Login, ResolveTenant, GetDataSource, QueryUsers
<1>4. ASSUME NEW w \in Workers, Crash(w) PROVE TablesHaveSchemas'
  BY <1>4 DEF Crash
<1>5. CASE UNCHANGED vars
  BY <1>5 DEF vars
<1> QED
  BY <1>1, <1>2, <1>3, <1>4, <1>5 DEF Next

\* Only SaveOwner answers 201.
LEMMA CreatedBySaveOwner ==
    ASSUME TypeOK, [Next]_vars, NEW r \in Signups, pc'[r] = "created", pc[r] # "created"
    PROVE  SaveOwner(r)
<1> USE CallsAssumption, OnErrorType
<1> USE DEF TypeOK, Goto, Calls, db, conns, budget
<1>1. ASSUME NEW c \in Calls, Provision(c) \/ StatementFails(c) PROVE FALSE
  BY <1>1 DEF Provision, Initialize, PlanMigrations, RunMigrations, StoreDataSource,
              StatementFails
<1>2. ASSUME NEW q \in Signups, Signup(q) \/ InsertAnswerLost(q) PROVE SaveOwner(r)
  BY <1>2 DEF Signup, FindExisting, InsertTenant, CreateSchema, SaveOwner, DropSchema,
              DeleteTenant, BeginDisconnect, EndDisconnect, InsertAnswerLost
<1>3. ASSUME NEW q \in Logins, Login(q) PROVE FALSE
  BY <1>3 DEF Login, ResolveTenant, GetDataSource, QueryUsers
<1>4. ASSUME NEW w \in Workers, Crash(w) PROVE FALSE
  BY <1>4 DEF Crash, Running, InTry, Rollback, Provisioning
<1>5. CASE UNCHANGED vars
  BY <1>5 DEF vars
<1> QED
  BY <1>1, <1>2, <1>3, <1>4, <1>5 DEF Next

\* Every DROP SCHEMA is of a signup for the schema, and there is no second one.
LEMMA UnrivalledStep ==
    ConnAll /\ TablesHaveSchemas /\ UnrivalledKeepsOwner /\ [Next]_vars
        => UnrivalledKeepsOwner'
<1> SUFFICES ASSUME ConnAll, TablesHaveSchemas, UnrivalledKeepsOwner, [Next]_vars,
                    NEW r \in Signups, pc'[r] = "created", Unrivalled(r)
             PROVE  OwnerRow(r) \in owners' /\ Home(r) \in schemas' \cap tables'
  BY DEF UnrivalledKeepsOwner, Unrivalled, OwnerRow
<1>1. CASE pc[r] = "created"
  <2>1. OwnerRow(r) \in owners /\ Home(r) \in schemas \cap tables
    BY <1>1 DEF UnrivalledKeepsOwner, Unrivalled
  <2>2. ASSUME NEW q \in Signups, DropSchema(q) PROVE Home(q) # Home(r)
    BY <1>1, <2>2 DEF DropSchema, Unrivalled
  <2> QED
    BY <2>1, <2>2, DataShrinks DEF DropSchema, OwnerRow
<1>2. CASE pc[r] # "created"
  <2>1. SaveOwner(r)
    BY <1>2, CreatedBySaveOwner DEF ConnAll
  <2>2. Home(ds[r]) = Home(r)
    BY <2>1 DEF SaveOwner, ConnAll, TypeOK, TenantIsolation, Calls, Home
  <2>3. Home(r) \in tables /\ OwnerRow(r) \in owners'
        /\ UNCHANGED <<schemas, tables>>
    BY <2>1, <2>2, CallsAssumption DEF SaveOwner, OwnerRow, Goto, ConnAll, TypeOK, Calls
  <2> QED
    BY <2>3 DEF TablesHaveSchemas
<1> QED
  BY <1>1, <1>2

\* Without a rival for its schema, a tenant that was answered 201 keeps its owner.
THEOREM UnrivalledHolds == Spec => []UnrivalledKeepsOwner
<1>1. Init => TablesHaveSchemas /\ UnrivalledKeepsOwner
  BY DEF Init, TablesHaveSchemas, UnrivalledKeepsOwner, Calls
<1>2. ConnAll /\ (TablesHaveSchemas /\ UnrivalledKeepsOwner) /\ [Next]_vars
        => (TablesHaveSchemas /\ UnrivalledKeepsOwner)'
  BY TablesStep, UnrivalledStep
<1> QED
  BY <1>1, <1>2, ConnAllInvariant, PTL DEF Spec

\* The positive half of CreatedKeepsOwner: where no two signups are for one
\* schema, every signup that was answered 201 has its owner.
THEOREM DistinctSchemasKeepOwners ==
    (\A r, q \in Signups : r # q => Home(r) # Home(q)) => (Spec => []CreatedKeepsOwner)
<1> SUFFICES ASSUME \A r, q \in Signups : r # q => Home(r) # Home(q)
             PROVE  Spec => []CreatedKeepsOwner
  OBVIOUS
<1>1. UnrivalledKeepsOwner => CreatedKeepsOwner
  BY DEF UnrivalledKeepsOwner, CreatedKeepsOwner
<1> QED
  BY <1>1, UnrivalledHolds, PTL

-----------------------------------------------------------------------------
(* Compensation *)

\* Where a signup may be while its row is in the table: it goes on with it, or
\* the catch block has not come to the delete yet.
Pursued(r) == pc[r] \in HasRow \cup {"drop", "delete"}

\* A row that its signup knows of is pursued, or the signup was lost or stuck; one
\* that it does not know of lost its answer.
Compensated ==
    /\ ~registry => tenants = {}
    /\ \A r \in tenants :
          \/ r \in saved /\ Pursued(r)
          \/ pc[r] = "lost" /\ crashes > 0
          \/ (pc[r] = "stuck" \/ r \notin saved) /\ faults > 0

\* Every step keeps Compensated.
LEMMA CompensatedStep == TypeOK /\ Compensated /\ [Next]_vars => Compensated'
<1> SUFFICES ASSUME TypeOK, Compensated, [Next]_vars PROVE Compensated'
  OBVIOUS
<1> USE CallsAssumption, BoundsAssumption
<1> USE DEF TypeOK, Compensated, Pursued, HasRow, Provisioning, Goto, Calls,
            db, conns, budget
<1>1. ASSUME NEW c \in Calls, Provision(c) PROVE Compensated'
  BY <1>1 DEF Provision, Initialize, PlanMigrations, RunMigrations, StoreDataSource,
              OnError, InTry, Rollback
<1>2. ASSUME NEW q \in Signups, Signup(q) PROVE Compensated'
  <2>1. CASE FindExisting(q) \/ InsertTenant(q) \/ CreateSchema(q) \/ SaveOwner(q)
    BY <2>1 DEF FindExisting, InsertTenant, CreateSchema, SaveOwner
  <2>2. CASE DropSchema(q) \/ DeleteTenant(q)
    BY <2>2 DEF DropSchema, DeleteTenant, RowsToDelete
  <2>3. CASE BeginDisconnect(q) \/ EndDisconnect(q)
    BY <2>3 DEF BeginDisconnect, EndDisconnect
  <2> QED
    BY <1>2, <2>1, <2>2, <2>3 DEF Signup
<1>3. ASSUME NEW q \in Logins, Login(q) PROVE Compensated'
  BY <1>3 DEF Login, ResolveTenant, GetDataSource, QueryUsers
<1>4. ASSUME NEW c \in Calls, StatementFails(c) PROVE Compensated'
  BY <1>4 DEF StatementFails, OnError, InTry, Rollback
<1>5. ASSUME NEW q \in Signups, InsertAnswerLost(q) PROVE Compensated'
  BY <1>5 DEF InsertAnswerLost
<1>6. ASSUME NEW w \in Workers, Crash(w) PROVE Compensated'
  BY <1>6 DEF Crash
<1>7. CASE UNCHANGED vars
  BY <1>7 DEF vars
<1> QED
  BY <1>1, <1>2, <1>3, <1>4, <1>5, <1>6, <1>7 DEF Next

\* A signup that failed leaves a row only to a crash, to a catch block that failed
\* itself, or to a lost answer (catch block of signup).
THEOREM LeftRowHasCauseHolds == Spec => []LeftRowHasCause
<1>1. Init => TypeOK /\ Compensated
  BY TypeInit DEF Init, Compensated
<1>2. TypeOK /\ Compensated /\ [Next]_vars => TypeOK' /\ Compensated'
  BY TypeStep, CompensatedStep
<1>3. Compensated => LeftRowHasCause
  BY DEF Compensated, Pursued, LeftRowHasCause, HasRow, Provisioning, Ended
<1> QED
  BY <1>1, <1>2, <1>3, PTL DEF Spec

-----------------------------------------------------------------------------
(* Pools *)

\* A key changes hands when a pool is stored and when a rollback deletes it; a
\* crash closes every pool of its map.
LEMMA DropsOutStep ==
    ASSUME TypeOK, [Next]_vars, NEW d \in open \cap open',
           cache[WorkerOf[d]][SlugOf[d]] = d, cache'[WorkerOf[d]][SlugOf[d]] # d
    PROVE  \/ \E e \in Calls \ {d} :
                 /\ SlugOf[e] = SlugOf[d] /\ WorkerOf[e] = WorkerOf[d]
                 /\ pc[e] = "store" /\ cache'[WorkerOf[d]][SlugOf[d]] = e
           \/ \E r \in Signups :
                 /\ SlugOf[r] = SlugOf[d] /\ WorkerOf[r] = WorkerOf[d]
                 /\ pc[r] = "destroying" /\ ds[r] # d
<1> USE RoutingAssumption
<1> USE DEF db, conns, budget, TypeOK
<1>d. d \in Calls
  OBVIOUS
<1>1. ASSUME NEW c \in Calls, Provision(c) PROVE StoreDataSource(c)
  BY <1>1 DEF Provision, Initialize, PlanMigrations, RunMigrations
<1>2. ASSUME NEW c \in Calls, StoreDataSource(c)
      PROVE  \E e \in Calls \ {d} :
                 /\ SlugOf[e] = SlugOf[d] /\ WorkerOf[e] = WorkerOf[d]
                 /\ pc[e] = "store" /\ cache'[WorkerOf[d]][SlugOf[d]] = e
  <2>1. SlugOf[c] = SlugOf[d] /\ WorkerOf[c] = WorkerOf[d]
    BY <1>2, <1>d DEF StoreDataSource
  <2>2. pc[c] = "store" /\ cache'[WorkerOf[d]][SlugOf[d]] = c
    BY <1>2, <1>d, <2>1 DEF StoreDataSource
  <2> QED
    BY <2>1, <2>2
<1>3. ASSUME NEW r \in Signups, Signup(r) PROVE EndDisconnect(r)
  BY <1>3 DEF Signup, FindExisting, InsertTenant, CreateSchema, SaveOwner, DropSchema,
              DeleteTenant, BeginDisconnect
<1>4. ASSUME NEW r \in Signups, EndDisconnect(r)
      PROVE  /\ SlugOf[r] = SlugOf[d] /\ WorkerOf[r] = WorkerOf[d]
             /\ pc[r] = "destroying" /\ ds[r] # d
  BY <1>4, <1>d DEF EndDisconnect, Calls
<1>5. ASSUME NEW w \in Workers, Crash(w) PROVE FALSE
  BY <1>5, <1>d DEF Crash
<1>6. ASSUME NEW c \in Calls, StatementFails(c) PROVE FALSE
  BY <1>6 DEF StatementFails
<1>7. ASSUME NEW r \in Signups, InsertAnswerLost(r) PROVE FALSE
  BY <1>7 DEF InsertAnswerLost
<1>8. ASSUME NEW q \in Logins, Login(q) PROVE FALSE
  BY <1>8 DEF Login, ResolveTenant, GetDataSource, QueryUsers
<1>9. CASE UNCHANGED vars
  BY <1>9 DEF vars
<1> QED
  BY <1>1, <1>2, <1>3, <1>4, <1>5, <1>6, <1>7, <1>8, <1>9 DEF Next

\* An open pool drops out of its map only to another pool for its slug, or to a
\* rollback that destroyed another one (provision, deleteConnection).
THEOREM PoolDropsOutHolds == Spec => PoolDropsOutOnlyToRival
<1>1. TypeOK /\ [Next]_vars =>
        [\A d \in open \cap open' :
            LET key == cache[WorkerOf[d]][SlugOf[d]]
                same(c) == SlugOf[c] = SlugOf[d] /\ WorkerOf[c] = WorkerOf[d]
            IN  key = d /\ key' # d =>
                    \/ \E e \in Calls \ {d} : same(e) /\ pc[e] = "store" /\ key' = e
                    \/ \E r \in Signups :
                          same(r) /\ pc[r] = "destroying" /\ ds[r] # d]_vars
  BY DropsOutStep
<1> QED
  BY <1>1, TypeCorrect, PTL DEF Spec, PoolDropsOutOnlyToRival

-----------------------------------------------------------------------------
(* Undisturbed signups *)

\* What RollbackHasReason counts as a reason: once there, it stays.
Disturbed(r) ==
    \/ MigrationSchema[Home(r)] # Home(r)
    \/ \E q \in Calls \ {r} :
          pc[q] # "idle" /\ Home(r) \in {Home(q), MigrationSchema[Home(q)]}
    \/ \E q \in saved \ {r} : EmailOf[q] = EmailOf[r]
    \/ ~registry

\* What a signup that nothing disturbs finds at each of its steps: a schema with
\* nobody else's tables or rows in it, and a pool nobody closes.
Smooth(r) ==
    /\ pc[r] \notin Rollback \cup {"conflict", "rolledback", "stuck"}
    /\ pc[r] \in Provisioning \cup {"owner"} => Home(r) \in schemas
    /\ pc[r] \in {"idle", "insert", "create", "init", "plan", "migrate"} =>
          Home(r) \notin tables \cup migrated
    /\ pc[r] \in {"store", "owner"} => Home(r) \in tables
    /\ pc[r] # "created" => \A row \in owners : row[2] # Home(r)
    /\ pc[r] = "owner" => ds[r] \in open

UndisturbedInv ==
    faults = 0 => tenants \subseteq saved /\ \A r \in Signups : Disturbed(r) \/ Smooth(r)

\* Calls do not become idle again, signups keep what they assigned, and failures
\* are counted.
LEMMA HistoryGrows ==
    ASSUME TypeOK, [Next]_vars
    PROVE  /\ \A q \in Calls : pc[q] # "idle" => pc'[q] # "idle"
           /\ saved \subseteq saved'
           /\ faults' = 0 => faults = 0
           /\ registry' => registry
<1> USE CallsAssumption, BoundsAssumption, OnErrorType
<1> USE DEF TypeOK, Goto, Calls, db, conns, budget
<1>d DEFINE Grows == /\ \A q \in Calls : pc[q] # "idle" => pc'[q] # "idle"
                     /\ saved \subseteq saved'
                     /\ faults' = 0 => faults = 0
                     /\ registry' => registry
<1>1. ASSUME NEW c \in Calls, Provision(c) PROVE Grows
  BY <1>1 DEF Provision, Initialize, PlanMigrations, RunMigrations, StoreDataSource
<1>2. ASSUME NEW c \in Calls, StatementFails(c) PROVE Grows
  BY <1>2 DEF StatementFails
<1>3. ASSUME NEW r \in Signups, Signup(r) PROVE Grows
  <2>1. CASE FindExisting(r) \/ InsertTenant(r) \/ CreateSchema(r) \/ SaveOwner(r)
    BY <2>1 DEF FindExisting, InsertTenant, CreateSchema, SaveOwner
  <2>2. CASE DropSchema(r) \/ DeleteTenant(r) \/ BeginDisconnect(r) \/ EndDisconnect(r)
    BY <2>2 DEF DropSchema, DeleteTenant, BeginDisconnect, EndDisconnect
  <2> QED
    BY <1>3, <2>1, <2>2 DEF Signup
<1>4. ASSUME NEW r \in Signups, InsertAnswerLost(r) PROVE Grows
  BY <1>4 DEF InsertAnswerLost
<1>5. ASSUME NEW q \in Logins, Login(q) PROVE Grows
  BY <1>5 DEF Login, ResolveTenant, GetDataSource, QueryUsers
<1>6. ASSUME NEW w \in Workers, Crash(w) PROVE Grows
  BY <1>6 DEF Crash
<1>7. CASE UNCHANGED vars
  BY <1>7 DEF vars
<1> QED
  BY <1>1, <1>2, <1>3, <1>4, <1>5, <1>6, <1>7 DEF Next

\* A signup that is undisturbed after a step was undisturbed before it.
LEMMA DisturbedStable ==
    ASSUME TypeOK, [Next]_vars, NEW r \in Signups, Disturbed(r)
    PROVE  Disturbed(r)'
BY HistoryGrows DEF Disturbed

\* In an undisturbed signup's schema nobody else is at work.
LEMMA NobodyElse ==
    ASSUME NEW r \in Signups, ~Disturbed(r), NEW q \in Calls \ {r}, pc[q] # "idle"
    PROVE  Home(q) # Home(r) /\ MigrationSchema[Home(q)] # Home(r)
BY DEF Disturbed

\* The pool it holds is its own, and no rollback is closing it.
LEMMA OwnPool ==
    ASSUME TypeOK, ConnInv, NEW r \in Signups, ~Disturbed(r), pc[r] = "owner"
    PROVE  ds[r] = r /\ ~Closing(r)
<1> USE CallsAssumption DEF Calls
<1>1. ds[r] # NoDS
  BY DEF TypeOK
<1>2. HandedOut(ds[r]) /\ Home(ds[r]) = Home(r)
  BY <1>1 DEF ConnInv, BuiltFor, Home
<1>3. ds[r] = r
  BY <1>2, NobodyElse DEF HandedOut, PreStore
<1>4. ASSUME NEW q \in Calls, pc[q] = "destroying", ds[q] = r PROVE FALSE
  <2>1. Home(r) = Home(q)
    BY <1>4 DEF ConnInv, BuiltFor, Home
  <2> QED
    BY <1>4, <2>1, NobodyElse
<1> QED
  BY <1>3, <1>4 DEF Closing

\* What another call does leaves an undisturbed signup's schema, rows and pool
\* alone.
LEMMA OthersStep ==
    ASSUME TypeOK, ConnInv, [Next]_vars, NEW r \in Signups, ~Disturbed(r)', Smooth(r),
           pc'[r] = pc[r], ds'[r] = ds[r],
           Home(r) \in schemas' <=> Home(r) \in schemas,
           Home(r) \in tables' <=> Home(r) \in tables,
           Home(r) \in migrated' <=> Home(r) \in migrated,
           \A row \in owners' : row[2] = Home(r) => row \in owners,
           r \in open => r \in open'
    PROVE  Smooth(r)'
<1>1. pc[r] = "owner" => ds[r] = r
  BY DisturbedStable, OwnPool
<1> QED
  BY <1>1 DEF Smooth

\* Every step of Next keeps an undisturbed signup smooth.
LEMMA SmoothStep ==
    ASSUME TypeOK, ConnInv, TenantIsolation, RowInv, [Next]_vars,
           tenants \subseteq saved, faults' = 0,
           NEW r \in Signups, ~Disturbed(r)', Smooth(r)
    PROVE  Smooth(r)'
<1> USE CallsAssumption, RoutingAssumption, BoundsAssumption
<1> USE DEF db, conns, budget, Goto, Calls
<1>n. ~Disturbed(r)
  BY DisturbedStable
<1>m. MigrationSchema[Home(r)] = Home(r)
  BY <1>n DEF Disturbed
<1>q. ASSUME NEW q \in Calls \ {r}, pc'[q] # "idle"
      PROVE  Home(q) # Home(r) /\ MigrationSchema[Home(q)] # Home(r)
  BY <1>q DEF Disturbed
<1>o. pc[r] = "owner" => ds[r] = r /\ ~Closing(r)
  BY <1>n, OwnPool
\* Steps that leave the schema, its rows and the pools alone.
<1>u. ASSUME pc'[r] = pc[r], ds'[r] = ds[r], UNCHANGED <<db, open>> PROVE Smooth(r)'
  BY <1>u, OthersStep
\* The steps of provision().
<1>1. ASSUME NEW c \in Calls \ {r}, Provision(c) PROVE Smooth(r)'
  <2>1. pc'[c] # "idle" /\ pc'[r] = pc[r] /\ ds'[r] = ds[r]
    BY <1>1, OnErrorType
       DEF Provision, Initialize, PlanMigrations, RunMigrations, StoreDataSource, TypeOK
  <2>2. Home(c) # Home(r) /\ MigrationSchema[Home(c)] # Home(r)
    BY <1>q, <2>1
  <2>3. /\ UNCHANGED <<schemas, owners>> /\ open \subseteq open'
        /\ tables' \in {tables, tables \cup {MigrationSchema[Home(c)]}}
        /\ migrated' \in {migrated, migrated \cup {Home(c)}}
    BY <1>1 DEF Provision, Initialize, PlanMigrations, RunMigrations, StoreDataSource
  <2> QED
    BY <2>1, <2>2, <2>3, OthersStep
<1>2. CASE Initialize(r)
  BY <1>2 DEF Initialize, Smooth, TypeOK, Rollback, Provisioning
<1>3. CASE PlanMigrations(r)
  BY <1>3 DEF PlanMigrations, Smooth, TypeOK, Rollback, Provisioning
<1>4. CASE RunMigrations(r)
  <2>1. Home(r) \in schemas /\ Home(r) \notin tables
    BY <1>4 DEF RunMigrations, Smooth, Provisioning
  <2>2. tables' = tables \cup {Home(r)} /\ pc' = [pc EXCEPT ![r] = "store"]
        /\ UNCHANGED <<schemas, owners>>
    BY <1>4, <1>m, <2>1 DEF RunMigrations
  <2> QED
    BY <1>4, <2>1, <2>2 DEF RunMigrations, Smooth, TypeOK, Rollback, Provisioning
<1>5. CASE StoreDataSource(r)
  BY <1>5 DEF StoreDataSource, Smooth, TypeOK, Rollback, Provisioning, ConnInv
\* The steps of signup.
<1>6. ASSUME NEW q \in Signups \ {r}, Signup(q) PROVE Smooth(r)'
  <2>1. pc'[q] # "idle" /\ pc'[r] = pc[r] /\ ds'[r] = ds[r]
    BY <1>6 DEF Signup, FindExisting, InsertTenant, CreateSchema, SaveOwner, DropSchema,
                DeleteTenant, BeginDisconnect, EndDisconnect, TypeOK
  <2>2. Home(q) # Home(r)
    BY <1>q, <2>1
  <2>3. CASE FindExisting(q) \/ InsertTenant(q) \/ DeleteTenant(q) \/ BeginDisconnect(q)
    BY <2>1, <2>3, OthersStep
       DEF FindExisting, InsertTenant, DeleteTenant, BeginDisconnect
  <2>4. CASE CreateSchema(q) \/ DropSchema(q)
    BY <2>1, <2>2, <2>4, OthersStep DEF CreateSchema, DropSchema
  <2>5. CASE SaveOwner(q)
    <3>1. Home(ds[q]) = Home(q)
      BY <2>5 DEF SaveOwner, TypeOK, TenantIsolation, Home
    <3>2. UNCHANGED <<schemas, tables, migrated, open>>
          /\ owners' \in {owners, owners \cup {<<q, Home(q)>>}}
      BY <2>5, <3>1 DEF SaveOwner
    <3> QED
      BY <2>1, <2>2, <3>2, OthersStep
  <2>6. CASE EndDisconnect(q)
    <3>1. Home(ds[q]) = Home(q)
      BY <2>6 DEF EndDisconnect, TypeOK, TenantIsolation, Home
    <3>2. r \in open => r \in open'
      BY <2>2, <2>6, <3>1 DEF EndDisconnect
    <3> QED
      BY <2>1, <2>6, <3>2, OthersStep DEF EndDisconnect
  <2> QED
    BY <1>6, <2>3, <2>4, <2>5, <2>6 DEF Signup
<1>7. CASE FindExisting(r)
  <2>1. registry /\ ~SlugTaken(r)
    BY <1>7, <1>n DEF FindExisting, SlugTaken, Disturbed, RowInv, TypeOK, Home
  <2> QED
    BY <1>7, <2>1 DEF FindExisting, Smooth, TypeOK, Rollback, Provisioning
<1>8. CASE InsertTenant(r)
  <2>1. registry /\ ~UniqueViolation(r)
    BY <1>8, <1>n DEF InsertTenant, UniqueViolation, Disturbed, RowInv, TypeOK, Home
  <2> QED
    BY <1>8, <2>1 DEF InsertTenant, Smooth, TypeOK, Rollback, Provisioning
<1>9. CASE CreateSchema(r)
  BY <1>9 DEF CreateSchema, Smooth, TypeOK, Rollback, Provisioning
<1>10. CASE SaveOwner(r)
  <2>1. ds[r] = r /\ Usable(r) /\ Home(r) \in tables
        /\ \A row \in owners : row[2] # Home(r)
    BY <1>10, <1>o DEF SaveOwner, Smooth, Usable
  <2>2. pc' = [pc EXCEPT ![r] = "created"]
    BY <1>10, <2>1 DEF SaveOwner
  <2> QED
    BY <2>2 DEF Smooth, TypeOK, Rollback, Provisioning
<1>11. CASE DropSchema(r) \/ DeleteTenant(r) \/ BeginDisconnect(r) \/ EndDisconnect(r)
  BY <1>11 DEF DropSchema, DeleteTenant, BeginDisconnect, EndDisconnect, Smooth, Rollback
\* The steps of a login and of the environment.
<1>12. ASSUME NEW q \in Logins, Login(q) PROVE Smooth(r)'
  BY <1>12, <1>u DEF Login, ResolveTenant, GetDataSource, QueryUsers, TypeOK
<1>13. ASSUME NEW c \in Calls, StatementFails(c) PROVE FALSE
  BY <1>n, <1>13 DEF StatementFails, Disturbed, TypeOK
<1>14. ASSUME NEW q \in Signups, InsertAnswerLost(q) PROVE FALSE
  BY <1>14 DEF InsertAnswerLost, TypeOK
<1>15. ASSUME NEW w \in Workers, Crash(w) PROVE Smooth(r)'
  <2>1. CASE pc'[r] = "lost"
    <3>1. pc[r] # "created"
      BY <1>15, <2>1 DEF Crash, Running, InTry, Rollback, Provisioning
    <3>2. UNCHANGED owners /\ \A row \in owners : row[2] # Home(r)
      BY <1>15, <3>1 DEF Crash, Smooth
    <3> QED
      BY <2>1, <3>2 DEF Smooth, Rollback, Provisioning
  <2>2. CASE pc'[r] # "lost"
    <3>1. pc'[r] = pc[r]
      BY <1>15, <2>2 DEF Crash
    <3>2. pc[r] = "owner" => ds[r] \in open'
      BY <1>15, <1>o, <2>2 DEF Crash, Smooth, Running, InTry
    <3> QED
      BY <1>15, <3>1, <3>2 DEF Crash, Smooth
  <2> QED
    BY <2>1, <2>2
<1>16. CASE UNCHANGED vars
  BY <1>16, <1>u DEF vars
<1> QED
  BY <1>1, <1>2, <1>3, <1>4, <1>5, <1>6, <1>7, <1>8, <1>9, <1>10, <1>11, <1>12, <1>13,
     <1>14, <1>15, <1>16 DEF Next, Provision, Signup

\* A row enters the table with its signup's knowledge, or its answer is lost.
LEMMA TenantsGrow ==
    ASSUME [Next]_vars, NEW q \in tenants' \ tenants
    PROVE  q \in saved' \/ (q \in Signups /\ InsertAnswerLost(q))
<1> USE DEF db, conns, budget
<1>1. ASSUME NEW c \in Calls, Provision(c) \/ StatementFails(c) PROVE FALSE
  BY <1>1 DEF Provision, Initialize, PlanMigrations, RunMigrations, StoreDataSource,
              StatementFails
<1>2. ASSUME NEW r \in Signups, Signup(r) PROVE q \in saved'
  BY <1>2 DEF Signup, FindExisting, InsertTenant, CreateSchema, SaveOwner, DropSchema,
              DeleteTenant, BeginDisconnect, EndDisconnect
<1>3. ASSUME NEW r \in Signups, InsertAnswerLost(r) PROVE q = r
  BY <1>3 DEF InsertAnswerLost
<1>4. ASSUME NEW l \in Logins, Login(l) PROVE FALSE
  BY <1>4 DEF Login, ResolveTenant, GetDataSource, QueryUsers
<1>5. ASSUME NEW w \in Workers, Crash(w) PROVE FALSE
  BY <1>5 DEF Crash
<1>6. CASE UNCHANGED vars
  BY <1>6 DEF vars
<1> QED
  BY <1>1, <1>2, <1>3, <1>4, <1>5, <1>6 DEF Next

\* UndisturbedInv holds at first and after every step.
LEMMA UndisturbedCorrect == Spec => []UndisturbedInv
<1>1. Init => UndisturbedInv
  BY RoutingAssumption, CallsAssumption
     DEF Init, UndisturbedInv, Smooth, Rollback, Provisioning, Calls
<1>2. ConnAll /\ RowInv /\ UndisturbedInv /\ [Next]_vars => UndisturbedInv'
  <2> SUFFICES ASSUME ConnAll, RowInv, UndisturbedInv, [Next]_vars, faults' = 0
               PROVE  /\ tenants' \subseteq saved'
                      /\ \A r \in Signups : Disturbed(r)' \/ Smooth(r)'
    BY DEF UndisturbedInv
  <2>1. faults = 0 /\ saved \subseteq saved'
    BY HistoryGrows DEF ConnAll
  <2>2. ASSUME NEW q \in tenants' \ tenants PROVE q \in saved'
    <3>1. ~InsertAnswerLost(q)
      BY <2>1 DEF InsertAnswerLost, ConnAll, TypeOK
    <3> QED
      BY <2>2, <3>1, TenantsGrow
  <2>3. tenants' \subseteq saved'
    BY <2>1, <2>2 DEF UndisturbedInv
  <2>4. ASSUME NEW r \in Signups, ~Disturbed(r)' PROVE Smooth(r)'
    <3>1. Smooth(r) /\ tenants \subseteq saved
      BY <2>1, <2>4, DisturbedStable DEF UndisturbedInv, ConnAll
    <3> QED
      BY <2>4, <3>1, SmoothStep DEF ConnAll
  <2> QED
    BY <2>3, <2>4
<1> QED
  BY <1>1, <1>2, RowsAndConnections, PTL DEF Spec

\* No signup is turned away or rolled back without a reason: a failing statement, a
\* migration for another schema, another call at work in its schema, or the
\* owner's e-mail taken (signup, provision, the migrations of a tenant).
THEOREM RollbackHasReasonHolds == Spec => []RollbackHasReason
<1>1. UndisturbedInv => RollbackHasReason
  BY DEF UndisturbedInv, RollbackHasReason, Disturbed, Smooth
<1> QED
  BY <1>1, UndisturbedCorrect, PTL

\* Only the rollback of a signup for "public" takes the tenants table away.
LEMMA RegistryStays ==
    (\A r \in Signups : Home(r) # Public) => (Spec => []registry)
<1> SUFFICES ASSUME \A r \in Signups : Home(r) # Public PROVE Spec => []registry
  OBVIOUS
<1>1. Init => registry
  BY DEF Init
<1>2. registry /\ [Next]_vars => registry'
  <2> SUFFICES ASSUME registry, [Next]_vars PROVE registry'
    OBVIOUS
  <2> USE DEF db, conns, budget
  <2>1. ASSUME NEW c \in Calls, Provision(c) \/ StatementFails(c) PROVE registry'
    BY <2>1 DEF Provision, Initialize, PlanMigrations, RunMigrations, StoreDataSource,
                StatementFails
  <2>2. ASSUME NEW r \in Signups, DropSchema(r) PROVE registry'
    BY <2>2 DEF DropSchema
  <2>3. ASSUME NEW r \in Signups, Signup(r) \/ InsertAnswerLost(r), ~DropSchema(r)
        PROVE  registry'
    BY <2>3 DEF Signup, FindExisting, InsertTenant, CreateSchema, SaveOwner,
                DeleteTenant, BeginDisconnect, EndDisconnect, InsertAnswerLost
  <2>4. ASSUME NEW q \in Logins, Login(q) PROVE registry'
    BY <2>4 DEF Login, ResolveTenant, GetDataSource, QueryUsers
  <2>5. ASSUME NEW w \in Workers, Crash(w) PROVE registry'
    BY <2>5 DEF Crash
  <2>6. CASE UNCHANGED vars
    BY <2>6 DEF vars
  <2> QED
    BY <2>1, <2>2, <2>3, <2>4, <2>5, <2>6 DEF Next
<1> QED
  BY <1>1, <1>2, PTL DEF Spec

\* The positive half of RollbackHasCause: with a migration that creates its tables
\* in the schema it is run for, no signup for "public", and no login for the schema
\* of a signup, only a signup for the same schema or e-mail gets one rolled back
\* that nothing fails.
THEOREM TemplatedRollbackHasCause ==
    /\ \A s \in SchemaNames : MigrationSchema[s] = s
    /\ \A q \in Logins, r \in Signups : Home(q) # Home(r)
    /\ \A r \in Signups : Home(r) # Public
    => (Spec => []RollbackHasCause)
<1> SUFFICES ASSUME \A s \in SchemaNames : MigrationSchema[s] = s,
                    \A q \in Logins, r \in Signups : Home(q) # Home(r),
                    \A r \in Signups : Home(r) # Public
             PROVE  Spec => []RollbackHasCause
  OBVIOUS
<1>1. TypeOK /\ RollbackHasReason /\ registry => RollbackHasCause
  <2> SUFFICES ASSUME TypeOK, RollbackHasReason, registry,
                      NEW r \in Signups, pc[r] = "rolledback", faults = 0
               PROVE  \E q \in Signups \ {r} :
                          Home(q) = Home(r) \/ EmailOf[q] = EmailOf[r]
    BY DEF RollbackHasCause
  <2>1. \A q \in Calls : MigrationSchema[Home(q)] = Home(q)
    BY RoutingAssumption DEF Home
  <2>2. \/ \E q \in Calls \ {r} : Home(q) = Home(r)
        \/ \E q \in saved \ {r} : EmailOf[q] = EmailOf[r]
    BY <2>1 DEF RollbackHasReason, Calls
  <2> QED
    BY <2>2 DEF TypeOK, Calls
<1> QED
  BY <1>1, TypeCorrect, RollbackHasReasonHolds, RegistryStays, PTL

-----------------------------------------------------------------------------
(* Progress *)

\* How far a call that is at a step has come.
Rank(step) ==
    CASE step = "idle" -> 0
      [] step \in {"insert", "lookup"} -> 1
      [] step = "create" -> 2
      [] step = "init" -> 3
      [] step = "plan" -> 4
      [] step = "migrate" -> 5
      [] step = "store" -> 6
      [] step \in {"owner", "query"} -> 7
      [] step = "drop" -> 8
      [] step = "delete" -> 9
      [] step = "disconnect" -> 10
      [] step = "destroying" -> 11
      [] step \in Ended -> 12

\* Call c stays where it is or comes further.
Advances(c) == pc'[c] = pc[c] \/ Rank(pc'[c]) > Rank(pc[c])

\* The ranks, one by one.
LEMMA RankOf ==
    /\ Rank("idle") = 0 /\ Rank("insert") = 1 /\ Rank("lookup") = 1 /\ Rank("create") = 2
    /\ Rank("init") = 3 /\ Rank("plan") = 4 /\ Rank("migrate") = 5 /\ Rank("store") = 6
    /\ Rank("owner") = 7 /\ Rank("query") = 7
    /\ Rank("drop") = 8 /\ Rank("delete") = 9 /\ Rank("disconnect") = 10
    /\ Rank("destroying") = 11 /\ \A step \in Ended : Rank(step) = 12
BY DEF Rank, Ended

\* An exception takes a call to the catch block or to the end; so does a crash.
LEMMA ErrorAdvances ==
    ASSUME NEW c \in Calls, pc[c] \in Running
    PROVE  Rank(OnError(c)) > Rank(pc[c]) /\ Rank("lost") > Rank(pc[c])
BY RankOf DEF OnError, Running, InTry, Rollback, Provisioning, Ended

\* No step of signup, of login, of provision() or of the environment takes a call
\* back: each is taken at most once, so a call takes at most twelve.  It is the
\* variant behind CallsEnd.
THEOREM CallsAdvance == Spec => [][\A c \in Calls : Advances(c)]_vars
<1>1. TypeOK /\ [Next]_vars => [\A c \in Calls : Advances(c)]_vars
  <2> SUFFICES ASSUME TypeOK, Next, NEW e \in Calls PROVE Advances(e)
    OBVIOUS
  <2> USE CallsAssumption, RankOf DEF Goto, Calls
  \* One call goes to a later step.
  <2>g. ASSUME NEW c \in Calls, NEW step, pc' = [pc EXCEPT ![c] = step],
               Rank(step) > Rank(pc[c])
        PROVE  Advances(e)
    BY <2>g DEF Advances, TypeOK
  <2>1. ASSUME NEW c \in Calls, Initialize(c) \/ StoreDataSource(c) PROVE Advances(e)
    BY <2>1 DEF Initialize, StoreDataSource, Advances, TypeOK
  <2>2. ASSUME NEW c \in Calls, PlanMigrations(c) \/ RunMigrations(c) PROVE Advances(e)
    <3>1. Rank(OnError(c)) > Rank(pc[c])
      BY <2>2, ErrorAdvances DEF PlanMigrations, RunMigrations, Running, InTry, Provisioning
    <3>2. PICK step \in {OnError(c), "migrate", "store"} :
            pc' = [pc EXCEPT ![c] = step] /\ (step = "migrate" => pc[c] = "plan")
      <4> HIDE RankOf, CallsAssumption DEF Calls
      <4>1. CASE PlanMigrations(c)
        BY <4>1 DEF PlanMigrations
      <4>2. CASE RunMigrations(c)
        <5>1. \/ pc' = [pc EXCEPT ![c] = "store"]
              \/ pc' = [pc EXCEPT ![c] = OnError(c)] /\ OnError(c) # "migrate"
          BY <4>2, OnErrorType DEF RunMigrations
        <5> QED
          BY <5>1
      <4> QED
        BY <2>2, <4>1, <4>2
    <3>3. Rank(step) > Rank(pc[c])
      BY <2>2, <3>1, <3>2 DEF PlanMigrations, RunMigrations
    <3> QED
      BY <2>g, <3>2, <3>3
  <2>3. ASSUME NEW r \in Signups, FindExisting(r) \/ InsertTenant(r) \/ CreateSchema(r)
        PROVE  Advances(e)
    BY <2>3 DEF FindExisting, InsertTenant, CreateSchema, Advances, TypeOK, Ended
  <2>4. ASSUME NEW r \in Signups, SaveOwner(r) PROVE Advances(e)
    BY <2>4 DEF SaveOwner, Advances, TypeOK, Ended
  <2>5. ASSUME NEW r \in Signups, DropSchema(r) \/ DeleteTenant(r) PROVE Advances(e)
    BY <2>5 DEF DropSchema, DeleteTenant, Advances, TypeOK, Ended
  <2>6. ASSUME NEW r \in Signups, BeginDisconnect(r) \/ EndDisconnect(r)
        PROVE  Advances(e)
    BY <2>6 DEF BeginDisconnect, EndDisconnect, Advances, TypeOK, Ended
  <2>7. ASSUME NEW q \in Logins, Login(q) PROVE Advances(e)
    BY <2>7 DEF Login, ResolveTenant, GetDataSource, QueryUsers, Advances, TypeOK, Ended
  <2>8. ASSUME NEW c \in Calls, StatementFails(c) PROVE Advances(e)
    <3>1. Rank(OnError(c)) > Rank(pc[c])
      BY <2>8, ErrorAdvances DEF StatementFails, Running, InTry, Rollback, Provisioning
    <3> QED
      BY <2>8, <2>g, <3>1 DEF StatementFails
  <2>9. ASSUME NEW r \in Signups, InsertAnswerLost(r) PROVE Advances(e)
    BY <2>9 DEF InsertAnswerLost, Advances, TypeOK
  <2>10. ASSUME NEW w \in Workers, Crash(w) PROVE Advances(e)
    BY <2>10, ErrorAdvances DEF Crash, Advances
  <2> QED
    BY <2>1, <2>2, <2>3, <2>4, <2>5, <2>6, <2>7, <2>8, <2>9, <2>10
       DEF Next, Provision, Signup
<1> QED
  BY <1>1, TypeCorrect, PTL DEF Spec
=============================================================================
