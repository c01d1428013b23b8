------------------------ MODULE KconfigCache_proofs ------------------------
(***************************************************************************)
(* No assignment leaves a stale value in the cache, first for every way to *)
(* evaluate, provided the dependents registered by _build_dep cover what   *)
(* the computations read (DependentsCoverReads) and visibilities are       *)
(* cached first (VisibilityFirst): what _rec_invalidate relies on.  Then   *)
(* that the evaluation of KconfigEval is such a way in every well-formed   *)
(* instance (TheEvaluation), whose values therefore are never stale.  Last *)
(* what holds of the values: nothing is on without leave, and what can be  *)
(* assigned is respected.                                                  *)
(***************************************************************************)
EXTENDS KconfigValues, WellFoundedInduction, TLAPS

(* User entries are not cache entries: their attributes differ. *)
LEMMA Disjoint ==
    ASSUME NEW k, NEW e \in CacheEntries(k)
    PROVE  e \notin UserEntries(k)
BY DEF CacheEntries, UserEntries

(* What is asked for is a cached attribute. *)
LEMMA AskedIsCached ==
    ASSUME TypeOK, NEW e \in K.asked
    PROVE  e \in CacheEntries(K)
BY KconfigsAssumption DEF TypeOK, K

(* The item of every entry is a symbol or choice. *)
LEMMA ItemsOfEntries ==
    ASSUME NEW e \in UserEntries(K) \cup CacheEntries(K)
    PROVE  ItemOf(e) \in Items
BY DEF UserEntries, CacheEntries, Items, ItemOf

(* What _rec_invalidate reaches is closed: the dependents with a cached    *)
(* visibility of what it reaches are reached.                              *)
LEMMA ReachedIsClosed ==
    ASSUME NEW z \in Items, NEW i \in Reached(z), NEW d \in Items,
           d \in K.dependents[i], <<"vis", d>> \in DOMAIN cache
    PROVE  d \in Reached(z)
<1> DEFINE next == [j \in Items |-> K.dependents[j] \cap Cached]
           closed == {S \in SUBSET Cached :
                        \A j \in S \cup {z} : next[j] \subseteq S}
<1>1. d \in Cached
  BY DEF Cached
<1>2. i \in Items
  BY DEF Reached, Cached
<1>3. d \in next[i]
  BY <1>1, <1>2
<1>4. ASSUME NEW S \in closed PROVE d \in S
  <2>1. i \in S \cup {z}
    BY DEF Reached
  <2> QED BY <2>1, <1>3, <1>4
<1> QED BY <1>1, <1>4 DEF Reached

(* An entry that survives an invalidation has read no entry of the item it *)
(* started from, and the cached entries it has read survive with it.       *)
LEMMA SurvivorsKeepReads ==
    ASSUME TypeOK, ReadsRegistered, NEW z \in Items, RecInvalidate(z),
           NEW e \in DOMAIN cache', NEW r \in cache[e].r
    PROVE  /\ e \in DOMAIN cache /\ cache'[e] = cache[e]
           /\ ItemOf(r) # z
           /\ ItemOf(e) # z
           /\ ItemOf(e) \in K.dependents[z] => FALSE
           /\ r \in DOMAIN cache => r \in DOMAIN cache' /\ cache'[r] = cache[r]
<1>1. /\ e \in DOMAIN cache /\ cache'[e] = cache[e]
      /\ ItemOf(e) \notin Invalidated(z)
  BY DEF RecInvalidate
<1>2. ItemOf(e) \in Items /\ ItemOf(r) \in Items
  BY <1>1, ItemsOfEntries DEF TypeOK
<1>3. ItemOf(e) \notin Reached(z) /\ Modules \notin Reached(z)
  BY <1>1, <1>2 DEF Invalidated
<1>4. <<"vis", ItemOf(e)>> \in DOMAIN cache
  BY <1>1 DEF ReadsRegistered, VisibilityFirst
<1>5. z \in Reached(z)
  BY DEF Reached
<1>6. ItemOf(r) \notin Reached(z)
  <2> SUFFICES ASSUME ItemOf(r) \in Reached(z) PROVE FALSE
    OBVIOUS
  <2>1. \/ ItemOf(r) = ItemOf(e)
        \/ ItemOf(r) = Modules
        \/ ItemOf(e) \in K.dependents[ItemOf(r)]
    BY <1>1 DEF ReadsRegistered, DependentsCoverReads
  <2>2. CASE ItemOf(e) \in K.dependents[ItemOf(r)]
    BY <2>2, <1>2, <1>3, <1>4, ReachedIsClosed
  <2> QED BY <2>1, <2>2, <1>3
<1>7. ItemOf(e) \notin K.dependents[z]
  BY <1>2, <1>3, <1>4, <1>5, ReachedIsClosed
<1>8. ASSUME r \in DOMAIN cache
      PROVE  r \in DOMAIN cache' /\ cache'[r] = cache[r]
  BY <1>6, <1>8, <1>3 DEF RecInvalidate, Invalidated
<1> QED BY <1>1, <1>3, <1>5, <1>6, <1>7, <1>8

(* One entry of CacheCoherent, and: the entries its value was computed     *)
(* from are as they were.                                                  *)
Coherent(e) ==
    /\ cache[e].r \subseteq Visible
    /\ Eval(K, e, View(cache[e].r)).v = cache[e].v

Untouched(e) == \A r \in cache[e].r : r \in Visible' /\ Held(r)' = Held(r)

Survives(e) == e \in DOMAIN cache /\ cache'[e] = cache[e] /\ Untouched(e)

(* What survives is computed from what it was computed from before. *)
LEMMA SurvivorsSeeTheSame ==
    ASSUME kc' = kc, NEW e \in DOMAIN cache', Survives(e)
    PROVE  K' = K /\ View(cache[e].r)' = View(cache[e].r) /\ cache'[e] = cache[e]
BY DEF K, View, Untouched, Survives

(* A computation disturbs no cached value: what it adds was not there to   *)
(* be read.                                                                *)
LEMMA FillKeeps ==
    ASSUME TypeOK, CacheCoherent, NEW e \in K.asked, Fill(e)
    PROVE  /\ kc' = kc /\ user' = user /\ e \notin Visible
           /\ \A x \in DOMAIN cache' : x # e => Survives(x)
           /\ \E R \in SUBSET Visible :
                 /\ R = Eval(K, e, View(Visible)).r
                 /\ DOMAIN cache' = DOMAIN cache \cup {e}
                 /\ cache'[e] = [v |-> Eval(K, e, View(R)).v, r |-> R]
                 /\ View(R)' = View(R)
<1>1. PICK R : /\ R \subseteq Visible
               /\ R = Eval(K, e, View(Visible)).r
               /\ cache' = [x \in DOMAIN cache \cup {e} |->
                              IF x = e
                              THEN [v |-> Eval(K, e, View(R)).v, r |-> R]
                              ELSE cache[x]]
  BY DEF Fill
<1>2. e \notin DOMAIN cache /\ kc' = kc /\ user' = user /\ K' = K
  BY DEF Fill, K
<1>3. e \notin Visible
  BY <1>2, AskedIsCached, Disjoint DEF Visible
<1>4. \A r \in Visible : r \in Visible' /\ Held(r)' = Held(r)
  BY <1>1, <1>2, <1>3 DEF Visible, Held
<1>5. ASSUME NEW x \in DOMAIN cache', x # e PROVE Survives(x)
  BY <1>1, <1>4, <1>5 DEF Untouched, CacheCoherent, Survives
<1>6. View(R)' = View(R)
  BY <1>1, <1>4 DEF View
<1> QED BY <1>1, <1>2, <1>3, <1>5, <1>6

(* An assignment that changes only user entries of z, or a user value read *)
(* only for an item registered with z, and invalidates from z.             *)
LEMMA InvalidationKeeps ==
    ASSUME TypeOK, ReadsRegistered, CacheCoherent, NEW z \in Items, RecInvalidate(z),
           kc' = kc, DOMAIN user' = DOMAIN user,
           NEW s, \A e \in DOMAIN cache : <<"user", s>> \in cache[e].r
                    => s = z \/ s \in K.dependents[z],
           \A r \in DOMAIN user : r # <<"user", s>> /\ ItemOf(r) # z
                                  => user'[r] = user[r]
    PROVE  \A e \in DOMAIN cache' : Survives(e)
<1>1. K' = K
  BY DEF K
<1>2. ASSUME NEW e \in DOMAIN cache' PROVE Survives(e)
  <2>1. e \in DOMAIN cache /\ cache'[e] = cache[e]
    BY DEF RecInvalidate
  <2>2. ASSUME NEW r \in cache[e].r PROVE r \in Visible' /\ Held(r)' = Held(r)
    <3>1. r \in Visible
      BY <2>1 DEF CacheCoherent
    <3>2. CASE r \in DOMAIN cache
      BY <3>2, SurvivorsKeepReads DEF Visible, Held
    <3>3. CASE r \notin DOMAIN cache
      <4>1. r \in UserEntries(K) /\ r \notin DOMAIN cache'
        BY <3>1, <3>3 DEF Visible, RecInvalidate
      <4>2. ItemOf(r) # z /\ ItemOf(e) # z /\ ItemOf(e) \notin K.dependents[z]
        BY SurvivorsKeepReads
      <4>3. r # <<"user", s>>
        <5> SUFFICES ASSUME r = <<"user", s>> PROVE FALSE
          OBVIOUS
        <5>1. ItemOf(e) = s
          BY <2>1 DEF ReadsRegistered, DependentsCoverReads, AttrOf, ItemOf
        <5> QED BY <5>1, <2>1, <4>2
      <4>4. user'[r] = user[r]
        BY <4>1, <4>2, <4>3 DEF TypeOK
      <4> QED BY <4>1, <4>4, <1>1, <3>3 DEF Visible, Held
    <3> QED BY <3>2, <3>3
  <2> QED BY <2>1, <2>2 DEF Untouched, Survives
<1> QED BY <1>2

(* Where there is no prompt nobody has read the user value. *)
LEMMA PromptlessKeeps ==
    ASSUME TypeOK, ReadsRegistered, CacheCoherent, NEW s, s \notin K.prompted,
           cache' = cache, kc' = kc, DOMAIN user' = DOMAIN user,
           \A r \in DOMAIN user : r # <<"user", s>> => user'[r] = user[r]
    PROVE  \A e \in DOMAIN cache' : Survives(e)
<1>1. K' = K
  BY DEF K
<1>2. ASSUME NEW e \in DOMAIN cache PROVE Survives(e)
  <2>1. ASSUME NEW r \in cache[e].r PROVE r \in Visible' /\ Held(r)' = Held(r)
    <3>1. r # <<"user", s>>
      BY DEF ReadsRegistered, DependentsCoverReads, AttrOf, ItemOf
    <3>2. r \in Visible
      BY DEF CacheCoherent
    <3> QED BY <3>1, <3>2, <1>1 DEF Visible, Held, TypeOK
  <2> QED BY <2>1 DEF Untouched, Survives
<1> QED BY <1>2

(* A user value that changes with _rec_invalidate_if_has_prompt. *)
LEMMA IfHasPromptKeeps ==
    ASSUME TypeOK, ReadsRegistered, CacheCoherent, NEW s \in K.syms, NEW v,
           RecInvalidateIfHasPrompt(s), kc' = kc,
           user' = [user EXCEPT ![<<"user", s>>] = v]
    PROVE  \A e \in DOMAIN cache' : Survives(e)
<1>1. s \in Items
  BY DEF Items
<1>2. \A r \in DOMAIN user : r # <<"user", s>> => user'[r] = user[r]
  OBVIOUS
<1>3. DOMAIN user' = DOMAIN user
  OBVIOUS
<1>4. CASE s \in K.prompted
  <2>1. RecInvalidate(s)
    BY <1>4 DEF RecInvalidateIfHasPrompt
  <2> QED BY <2>1, <1>1, <1>2, <1>3, InvalidationKeeps
<1>5. CASE s \notin K.prompted
  <2>1. cache' = cache
    BY <1>5 DEF RecInvalidateIfHasPrompt
  <2> QED BY <2>1, <1>5, <1>2, <1>3, PromptlessKeeps
<1> QED BY <1>4, <1>5

(* A mode or selection that changes with the choice's _rec_invalidate. *)
LEMMA ChoiceKeeps ==
    ASSUME TypeOK, ReadsRegistered, CacheCoherent, NEW c \in K.choices,
           RecInvalidate(c), kc' = kc, DOMAIN user' = DOMAIN user,
           \A r \in DOMAIN user : ItemOf(r) # c => user'[r] = user[r]
    PROVE  \A e \in DOMAIN cache' : Survives(e)
<1>1. c \in Items
  BY DEF Items
<1>2. \A e \in DOMAIN cache : <<"user", c>> \in cache[e].r
                              => c = c \/ c \in K.dependents[c]
  OBVIOUS
<1>3. \A r \in DOMAIN user : r # <<"user", c>> /\ ItemOf(r) # c
                             => user'[r] = user[r]
  OBVIOUS
<1> QED BY <1>1, <1>2, <1>3, InvalidationKeeps

(* So after any step a cached entry is the one that was just computed, or  *)
(* one that was there before with all it was computed from.                *)
LEMMA StepKeeps ==
    ASSUME TypeOK, ReadsRegistered, CacheCoherent, [Next]_vars
    PROVE  /\ kc' = kc
           /\ \/ \E e \in K.asked : Fill(e)
              \/ \A e \in DOMAIN cache' : Survives(e)
<1>1. ASSUME NEW e \in K.asked, Fill(e) PROVE kc' = kc
  BY <1>1 DEF Fill
<1>2. ASSUME NEW s \in K.syms, NEW v \in K.inputs[s], SetValue(s, v)
      PROVE  kc' = kc /\ \A e \in DOMAIN cache' : Survives(e)
  <2> DEFINE c == K.choiceOf[s]
  <2>1. CASE c # NoItem /\ v = 2
    <3>1. /\ user' = [user EXCEPT ![<<"user", s>>] = v,
                                  ![<<"pick", c>>] = s]
          /\ RecInvalidate(c) /\ kc' = kc
      BY <1>2, <2>1 DEF SetValue
    <3>2. c \in Items
      BY <2>1, KconfigsAssumption DEF TypeOK, K, Items
    <3>3. \A e \in DOMAIN cache :
             <<"user", s>> \in cache[e].r => s = c \/ s \in K.dependents[c]
      BY <2>1 DEF ReadsRegistered, DependentsCoverReads, AttrOf, ItemOf
    <3>4. \A r \in DOMAIN user : r # <<"user", s>> /\ ItemOf(r) # c
                                 => user'[r] = user[r]
      BY <3>1 DEF ItemOf
    <3>5. DOMAIN user' = DOMAIN user
      BY <3>1
    <3> QED BY <3>1, <3>2, <3>3, <3>4, <3>5, InvalidationKeeps
  <2>2. CASE ~(c # NoItem /\ v = 2)
    <3>1. /\ user' = [user EXCEPT ![<<"user", s>>] = v]
          /\ RecInvalidateIfHasPrompt(s) /\ kc' = kc
      BY <1>2, <2>2 DEF SetValue
    <3> QED BY <3>1, IfHasPromptKeeps
  <2> QED BY <2>1, <2>2
<1>3. ASSUME NEW s \in K.syms, UnsetValue(s)
      PROVE  kc' = kc /\ \A e \in DOMAIN cache' : Survives(e)
  BY <1>3, IfHasPromptKeeps DEF UnsetValue
<1>4. ASSUME NEW c \in K.choices, NEW v \in K.inputs[c], SetMode(c, v)
      PROVE  kc' = kc /\ \A e \in DOMAIN cache' : Survives(e)
  <2>1. \A r \in DOMAIN user : ItemOf(r) # c => user'[r] = user[r]
    BY <1>4 DEF SetMode, ItemOf
  <2> QED BY <1>4, <2>1, ChoiceKeeps DEF SetMode
<1>5. ASSUME NEW c \in K.choices, UnsetChoice(c)
      PROVE  kc' = kc /\ \A e \in DOMAIN cache' : Survives(e)
  <2>1. \A r \in DOMAIN user : ItemOf(r) # c => user'[r] = user[r]
    BY <1>5 DEF UnsetChoice, ItemOf
  <2> QED BY <1>5, <2>1, ChoiceKeeps DEF UnsetChoice
<1>6. CASE UNCHANGED vars
  <2>1. K' = K
    BY <1>6 DEF vars, K
  <2> QED BY <1>6, <2>1 DEF vars, Untouched, Survives, Visible, Held, CacheCoherent
<1> QED BY <1>1, <1>2, <1>3, <1>4, <1>5, <1>6 DEF Next

(* The variables keep their shape, for every Kconfig instance. *)
THEOREM TypeCorrect == Spec => []TypeOK
<1>1. Init => TypeOK
  BY DEF Init, TypeOK
<1>2. TypeOK /\ [Next]_vars => TypeOK'
  <2> SUFFICES ASSUME TypeOK, [Next]_vars PROVE TypeOK'
    OBVIOUS
  <2>1. ASSUME NEW e \in K.asked, Fill(e) PROVE TypeOK'
    <3>1. PICK R : /\ R \subseteq Visible
                   /\ cache' = [x \in DOMAIN cache \cup {e} |->
                                  IF x = e
                                  THEN [v |-> Eval(K, e, View(R)).v, r |-> R]
                                  ELSE cache[x]]
      BY <2>1 DEF Fill
    <3>2. e \in CacheEntries(K)
      BY AskedIsCached
    <3>3. R \subseteq UserEntries(K) \cup CacheEntries(K)
      BY <3>1 DEF Visible, TypeOK
    <3>4. kc' = kc /\ user' = user
      BY <2>1 DEF Fill
    <3> QED BY <3>1, <3>2, <3>3, <3>4 DEF TypeOK, K
  <2>2. ASSUME kc' = kc, DOMAIN user' = DOMAIN user,
               \/ cache' = cache
               \/ \E z : RecInvalidate(z)
        PROVE  TypeOK'
    BY <2>2 DEF TypeOK, K, RecInvalidate
  <2>3. ASSUME NEW s \in K.syms, NEW v \in K.inputs[s], SetValue(s, v)
        PROVE  TypeOK'
    BY <2>2, <2>3 DEF SetValue, RecInvalidateIfHasPrompt
  <2>4. ASSUME NEW s \in K.syms, UnsetValue(s) PROVE TypeOK'
    BY <2>2, <2>4 DEF UnsetValue, RecInvalidateIfHasPrompt
  <2>5. ASSUME NEW c \in K.choices, NEW v \in K.inputs[c], SetMode(c, v)
        PROVE  TypeOK'
    BY <2>2, <2>5 DEF SetMode
  <2>6. ASSUME NEW c \in K.choices, UnsetChoice(c) PROVE TypeOK'
    BY <2>2, <2>6 DEF UnsetChoice
  <2>7. CASE UNCHANGED vars
    BY <2>7, <2>2 DEF vars
  <2> QED BY <2>1, <2>3, <2>4, <2>5, <2>6, <2>7 DEF Next
<1> QED BY <1>1, <1>2, PTL DEF Spec

(* Where the registered dependents cover what is read, and visibilities    *)
(* are cached first, no sequence of lookups and assignments leaves a value *)
(* in the cache that its computation would not give now.                   *)
THEOREM NoStaleValue == Spec /\ []ReadsRegistered => []CacheCoherent
<1>1. Init => CacheCoherent
  BY DEF Init, CacheCoherent
<1>2. TypeOK /\ ReadsRegistered /\ CacheCoherent /\ [Next]_vars => CacheCoherent'
  <2> SUFFICES ASSUME TypeOK, ReadsRegistered, CacheCoherent, [Next]_vars
               PROVE  CacheCoherent'
    OBVIOUS
  <2>1. ASSUME NEW x \in DOMAIN cache', Survives(x) PROVE Coherent(x)'
    BY <2>1, StepKeeps, SurvivorsSeeTheSame DEF Coherent, CacheCoherent, Untouched, Survives
  <2>2. ASSUME NEW e \in K.asked, Fill(e) PROVE CacheCoherent'
    <3>1. PICK R \in SUBSET Visible :
             /\ DOMAIN cache' = DOMAIN cache \cup {e}
             /\ cache'[e] = [v |-> Eval(K, e, View(R)).v, r |-> R]
             /\ View(R)' = View(R)
      BY <2>2, FillKeeps
    <3>2. K' = K /\ R \subseteq Visible'
      BY <2>2, <3>1 DEF Fill, K, Visible
    <3>3. Coherent(e)'
      BY <3>1, <3>2 DEF Coherent
    <3>4. \A x \in DOMAIN cache' : x # e => Survives(x)
      BY <2>2, FillKeeps
    <3> QED BY <2>1, <3>3, <3>4 DEF Coherent, CacheCoherent
  <2> QED BY <2>1, <2>2, StepKeeps DEF Coherent, CacheCoherent
<1> QED BY <1>1, <1>2, TypeCorrect, PTL DEF Spec

-----------------------------------------------------------------------------
(* What a computation reports to have read is all that its result depends  *)
(* on.                                                                     *)
Same(a, b, R) ==
    /\ R \subseteq DOMAIN a /\ R \subseteq DOMAIN b
    /\ \A r \in R : a[r] = b[r]

ReadsDetermine ==
    \A n \in DOMAIN Kconfigs : LET k == Kconfigs[n] IN
    \A e \in CacheEntries(k) : \A a, b :
        Same(a, b, Eval(k, e, a).r) => Eval(k, e, b) = Eval(k, e, a)

(* The cache was filled in some order, computations after what they read;  *)
(* each has read no more than is recorded of it.                           *)
WellRead ==
    \A S \in SUBSET DOMAIN cache : S # {} => \E e \in S : cache[e].r \cap S = {}

RecordsReads ==
    \A e \in DOMAIN cache : Eval(K, e, View(cache[e].r)).r \subseteq cache[e].r

UserRight == user \in UserValues(K)

LEMMA FillWellRead ==
    ASSUME TypeOK, CacheCoherent, WellRead, NEW e \in K.asked, Fill(e)
    PROVE  WellRead'
<1>1. PICK R \in SUBSET Visible :
         /\ DOMAIN cache' = DOMAIN cache \cup {e}
         /\ cache'[e] = [v |-> Eval(K, e, View(R)).v, r |-> R]
  BY FillKeeps
<1>2. e \notin Visible /\ \A x \in DOMAIN cache' : x # e => Survives(x)
  BY FillKeeps
<1> SUFFICES ASSUME NEW S \in SUBSET DOMAIN cache', S # {}
             PROVE  \E x \in S : cache'[x].r \cap S = {}
  BY DEF WellRead
<1>3. CASE S \subseteq {e}
  BY <1>1, <1>2, <1>3
<1>4. CASE ~(S \subseteq {e})
  <2>1. PICK x \in S \ {e} : cache[x].r \cap (S \ {e}) = {}
    BY <1>1, <1>4 DEF WellRead
  <2>2. x \in DOMAIN cache /\ cache'[x] = cache[x] /\ e \notin cache[x].r
    BY <1>1, <1>2, <2>1 DEF Survives, CacheCoherent
  <2> QED BY <2>1, <2>2
<1> QED BY <1>3, <1>4

LEMMA StepWellRead ==
    ASSUME TypeOK, ReadsRegistered, CacheCoherent, WellRead, [Next]_vars
    PROVE  WellRead'
<1>1. ASSUME \A x \in DOMAIN cache' : Survives(x) PROVE WellRead'
  BY <1>1 DEF WellRead, Survives
<1> QED BY <1>1, FillWellRead, StepKeeps

LEMMA StepRecordsReads ==
    ASSUME ReadsDetermine, TypeOK, ReadsRegistered, CacheCoherent, RecordsReads, [Next]_vars
    PROVE  RecordsReads'
<1>1. ASSUME NEW x \in DOMAIN cache', Survives(x)
      PROVE  (Eval(K, x, View(cache[x].r)).r \subseteq cache[x].r)'
  BY <1>1, StepKeeps, SurvivorsSeeTheSame DEF RecordsReads, Survives
<1>2. ASSUME NEW e \in K.asked, Fill(e) PROVE RecordsReads'
  <2>1. PICK R \in SUBSET Visible :
           /\ R = Eval(K, e, View(Visible)).r
           /\ DOMAIN cache' = DOMAIN cache \cup {e}
           /\ cache'[e] = [v |-> Eval(K, e, View(R)).v, r |-> R]
           /\ View(R)' = View(R)
    BY <1>2, FillKeeps
  <2>2. Same(View(Visible), View(R), R)
    BY DEF Same, View
  <2>3. Eval(K, e, View(R)) = Eval(K, e, View(Visible))
    <3>1. kc \in DOMAIN Kconfigs /\ e \in CacheEntries(K)
      BY AskedIsCached DEF TypeOK
    <3> QED BY <2>1, <2>2, <3>1 DEF ReadsDetermine, K
  <2>4. K' = K
    BY <1>2 DEF Fill, K
  <2>5. (Eval(K, e, View(cache[e].r)).r \subseteq cache[e].r)'
    BY <2>1, <2>3, <2>4
  <2>6. \A x \in DOMAIN cache' : x # e => Survives(x)
    BY <1>2, FillKeeps
  <2> QED BY <1>1, <2>5, <2>6 DEF RecordsReads
<1> QED BY <1>1, <1>2, StepKeeps DEF RecordsReads

(* The first value of the cache that differed from the fresh one would     *)
(* have been computed from values that do not, and so would not differ.    *)
LEMMA CoherentIsFresh ==
    ASSUME ReadsDetermine, FreshSolves, TypeOK, CacheCoherent, WellRead, RecordsReads,
           UserRight
    PROVE  ValuesAreFresh
<1> DEFINE fresh == Fresh(K, user)
           wrong == {e \in DOMAIN cache : cache[e].v # fresh[e]}
<1>1. Solves(K, user, fresh) /\ kc \in DOMAIN Kconfigs
  BY DEF FreshSolves, UserRight, TypeOK, K
<1>2. ASSUME wrong # {} PROVE FALSE
  <2>1. PICK e \in wrong : cache[e].r \cap wrong = {}
    BY <1>2 DEF WellRead
  <2> DEFINE R == cache[e].r
             seen == View(R)
  <2>2. \A r \in R : r \in DOMAIN fresh /\ Held(r) = fresh[r]
    BY <1>1, <2>1 DEF CacheCoherent, Visible, Solves, Held, TypeOK
  <2>3. Same(seen, fresh, Eval(K, e, seen).r)
    BY <2>1, <2>2 DEF Same, View, RecordsReads
  <2>4. e \in CacheEntries(K)
    BY DEF TypeOK
  <2>5. Eval(K, e, fresh) = Eval(K, e, seen)
    BY <1>1, <2>3, <2>4 DEF ReadsDetermine, K
  <2> QED
    BY <1>1, <2>4, <2>5 DEF Solves, CacheCoherent
<1> QED BY <1>2 DEF ValuesAreFresh

(* Only values of the inputs are assigned, and a choice's selection is one *)
(* of its symbols.                                                         *)
UserFits(u, k) ==
    /\ DOMAIN u = UserEntries(k)
    /\ \A s \in k.syms : u[<<"user", s>>] \in k.inputs[s] \cup {Unset}
    /\ \A c \in k.choices :
          /\ u[<<"mode", c>>] \in k.inputs[c] \cup {Unset}
          /\ \/ u[<<"pick", c>>] = NoItem
             \/ u[<<"pick", c>>] \in k.syms /\ k.choiceOf[u[<<"pick", c>>]] = c

LEMMA FittingValues ==
    ASSUME NEW k, NEW u, u = [r \in UserEntries(k) |-> u[r]], UserFits(u, k)
    PROVE  u \in UserValues(k)
<1> DEFINE values == [s \in k.syms |-> u[<<"user", s>>]]
           modes == [c \in k.choices |-> u[<<"mode", c>>]]
           picks == [c \in k.choices |-> u[<<"pick", c>>]]
<1>1. ASSUME NEW S, NEW f, f = [i \in S |-> f[i]],
             \A i \in S : f[i] \in k.inputs[i] \cup {Unset}
      PROVE  f \in Assigned(k, S)
  <2>1. \A i \in S : f[i] \in (UNION {k.inputs[j] : j \in S}) \cup {Unset}
    BY <1>1
  <2> QED BY <1>1, <2>1 DEF Assigned
<1>2. values \in Assigned(k, k.syms) /\ modes \in Assigned(k, k.choices)
  <2>1. \A i \in k.syms : values[i] \in k.inputs[i] \cup {Unset}
    BY DEF UserFits
  <2>2. \A i \in k.choices : modes[i] \in k.inputs[i] \cup {Unset}
    BY DEF UserFits
  <2>3. values = [i \in k.syms |-> values[i]] /\ modes = [i \in k.choices |-> modes[i]]
    OBVIOUS
  <2> HIDE DEF values, modes
  <2> QED BY <1>1, <2>1, <2>2, <2>3
<1>3. picks \in Picks(k)
  BY DEF Picks, UserFits
<1>4. ASSUME NEW r \in UserEntries(k) PROVE u[r] = Combined(k, values, modes, picks)[r]
  <2>1. CASE r \in {"user"} \X k.syms
    <3>1. r = <<"user", ItemOf(r)>> /\ AttrOf(r) = "user" /\ ItemOf(r) \in k.syms
      BY <2>1 DEF ItemOf, AttrOf
    <3> QED BY <3>1 DEF Combined
  <2>2. CASE r \in {"mode", "pick"} \X k.choices
    <3>1. r = <<AttrOf(r), ItemOf(r)>> /\ AttrOf(r) \in {"mode", "pick"} /\ ItemOf(r) \in k.choices
      BY <2>2 DEF ItemOf, AttrOf
    <3>2. CASE AttrOf(r) = "mode"
      BY <3>1, <3>2 DEF Combined
    <3>3. CASE AttrOf(r) = "pick"
      BY <3>1, <3>3 DEF Combined
    <3> QED BY <3>1, <3>2, <3>3
  <2> QED BY <2>1, <2>2 DEF UserEntries
<1>5. u = Combined(k, values, modes, picks)
  <2> HIDE DEF values, modes, picks
  <2> QED BY <1>4, Zenon DEF Combined
<1> HIDE DEF values, modes, picks
<1> QED BY <1>2, <1>3, <1>5 DEF UserValues

UserShape == user = [r \in UserEntries(K) |-> user[r]] /\ UserFits(user, K)

LEMMA StepUserShape ==
    ASSUME TypeOK, UserShape, [Next]_vars
    PROVE  UserShape'
<1>1. ASSUME kc' = kc, user' = user PROVE UserShape'
  BY <1>1 DEF UserShape, K
<1>2. ASSUME NEW e \in K.asked, Fill(e) PROVE UserShape'
  BY <1>1, <1>2 DEF Fill
<1>3. ASSUME NEW s \in K.syms, NEW v \in K.inputs[s] \cup {Unset}, kc' = kc,
             user' = [user EXCEPT ![<<"user", s>>] = v]
      PROVE  UserShape'
  <2>1. K' = K
    BY <1>3 DEF K
  <2>2. user' = [r \in UserEntries(K) |-> user'[r]]
    BY <1>3 DEF UserShape
  <2>3. UserFits(user', K)
    BY <1>3 DEF UserShape, UserFits, UserEntries
  <2> QED BY <2>1, <2>2, <2>3 DEF UserShape
<1>4. ASSUME NEW s \in K.syms, NEW v \in K.inputs[s], SetValue(s, v) PROVE UserShape'
  <2> DEFINE c == K.choiceOf[s]
             set == [user EXCEPT ![<<"user", s>>] = v]
  <2>1. CASE c # NoItem /\ v = 2
    <3>1. user' = [set EXCEPT ![<<"pick", c>>] = s] /\ kc' = kc
      BY <1>4, <2>1 DEF SetValue
    <3>2. K' = K
      BY <3>1 DEF K
    <3>3. UserFits(set, K) /\ set = [r \in UserEntries(K) |-> set[r]]
      BY <1>4 DEF UserShape, UserFits, UserEntries
    <3> HIDE DEF set
    <3>4. UserFits(user', K)
      BY <1>4, <3>1, <3>3 DEF UserFits, UserEntries
    <3>5. user' = [r \in UserEntries(K) |-> user'[r]]
      BY <3>1, <3>3
    <3> QED BY <3>2, <3>4, <3>5 DEF UserShape
  <2>2. CASE ~(c # NoItem /\ v = 2)
    BY <1>3, <1>4, <2>2 DEF SetValue
  <2> QED BY <2>1, <2>2
<1>5. ASSUME NEW s \in K.syms, UnsetValue(s) PROVE UserShape'
  BY <1>3, <1>5 DEF UnsetValue
<1>6. ASSUME NEW c \in K.choices, kc' = kc, NEW v \in K.inputs[c] \cup {Unset},
             \/ user' = [user EXCEPT ![<<"mode", c>>] = v]
             \/ user' = [user EXCEPT ![<<"mode", c>>] = v, ![<<"pick", c>>] = NoItem]
      PROVE  UserShape'
  <2>1. K' = K
    BY <1>6 DEF K
  <2>2. user' = [r \in UserEntries(K) |-> user'[r]]
    BY <1>6 DEF UserShape
  <2>3. /\ DOMAIN user' = UserEntries(K)
        /\ \A s \in K.syms : user'[<<"user", s>>] = user[<<"user", s>>]
        /\ \A d \in K.choices :
              /\ user'[<<"mode", d>>] \in {v, user[<<"mode", d>>]}
              /\ d # c => user'[<<"mode", d>>] = user[<<"mode", d>>]
              /\ user'[<<"pick", d>>] \in {NoItem, user[<<"pick", d>>]}
    <3>1. DOMAIN user = UserEntries(K)
      BY DEF TypeOK
    <3>2. CASE user' = [user EXCEPT ![<<"mode", c>>] = v]
      BY <3>1, <3>2 DEF UserEntries
    <3>3. CASE user' = [user EXCEPT ![<<"mode", c>>] = v, ![<<"pick", c>>] = NoItem]
      BY <3>1, <3>3 DEF UserEntries
    <3> QED BY <1>6, <3>2, <3>3
  <2>4. UserFits(user', K)
    BY <1>6, <2>3 DEF UserShape, UserFits
  <2> QED BY <2>1, <2>2, <2>4 DEF UserShape
<1>7. ASSUME NEW c \in K.choices, NEW v \in K.inputs[c], SetMode(c, v) PROVE UserShape'
  BY <1>6, <1>7 DEF SetMode
<1>8. ASSUME NEW c \in K.choices, UnsetChoice(c) PROVE UserShape'
  BY <1>6, <1>8 DEF UnsetChoice
<1>9. CASE UNCHANGED vars
  BY <1>1, <1>9 DEF vars
<1> QED BY <1>2, <1>4, <1>5, <1>7, <1>8, <1>9 DEF Next

(* So the user values always fit the instance. *)
LEMMA UserKeepsShape == Spec => []UserShape
<1>1. Init => UserShape
  <2> SUFFICES ASSUME Init PROVE UserShape
    OBVIOUS
  <2>1. UserFits(user, K)
    BY DEF Init, UserFits, UserEntries, AttrOf
  <2> QED BY <2>1 DEF Init, UserShape
<1>2. TypeOK /\ UserShape /\ [Next]_vars => UserShape'
  BY StepUserShape
<1> QED BY <1>1, <1>2, TypeCorrect, PTL DEF Spec

(* Where an evaluation depends only on what it reports to read, and the    *)
(* dependents cover it, every cached value is the one the user values      *)
(* alone determine: the order of lookups and assignments, and what was     *)
(* left in the cache by them, never shows in a value.                      *)
THEOREM FreshValues ==
    ASSUME ReadsDetermine, FreshSolves
    PROVE  Spec /\ []ReadsRegistered => []ValuesAreFresh
<1> DEFINE Inv == WellRead /\ RecordsReads
<1>1. Init => Inv
  BY DEF Init, WellRead, RecordsReads
<1>2. TypeOK /\ ReadsRegistered /\ CacheCoherent /\ Inv /\ [Next]_vars => Inv'
  BY StepWellRead, StepRecordsReads
<1>3. TypeOK /\ CacheCoherent /\ Inv /\ UserShape => ValuesAreFresh
  BY CoherentIsFresh, FittingValues DEF UserShape, UserRight
<1> QED BY <1>1, <1>2, <1>3, TypeCorrect, UserKeepsShape, NoStaleValue, PTL DEF Spec

-----------------------------------------------------------------------------
(* The evaluation the code has.  ExprValue and ExprItems are any operators *)
(* that satisfy the equations of expr_value and expr_items on the finite   *)
(* expressions in DOMAIN depth (KconfigExpr defines them by these).        *)
Equations(depth) ==
    /\ Finite(depth)
    /\ \A e \in DOMAIN depth :
          /\ ExprItems(e) = ItemsStep(e)
          /\ \A k, view : ExprValue(k, e, view) = ExprStep(k, e, view)

(* The choice of a symbol or expression is asked for its mode, its         *)
(* visibility and, through its type, for MODULES.                          *)
LEMMA TypeReads ==
    ASSUME NEW k, NEW view, NEW r \in TypeByModules(k, view).r
    PROVE  r = <<"tri", Modules>>
BY DEF TypeByModules, TypeUnder, Also, Ret, Read

LEMMA ChoiceTriReads ==
    ASSUME NEW k, NEW c, NEW view, NEW r \in ChoiceTri(k, c, view).r
    PROVE  r \in {<<"mode", c>>, <<"vis", c>>, <<"tri", Modules>>}
<1>1. \A x \in ChoiceType(k, c, view).r : x = <<"tri", Modules>>
  BY TypeReads DEF ChoiceType, Ret
<1>2. \A mode, vis : WithinMode(k, c, mode, vis).r = vis.r \cup mode.r
  BY DEF WithinMode, MinOf, Also, Ret
<1>3. ASSUME NEW mode, NEW x \in PromoteMode(k, c, mode, view).r
      PROVE  x \in mode.r \/ x = <<"tri", Modules>>
  BY <1>1, <1>3 DEF PromoteMode, YesIfBool, Also, Ret
<1> QED
  BY <1>2, <1>3 DEF ChoiceTri, Read

(* An expression reads what it names, and MODULES; of a choice its mode    *)
(* and its visibility, and never a user value of a symbol or a user's pick.*)
ReadsOf(x, S) == \A r \in x.r : r[1] \notin {"user", "pick"} /\ r[2] \in S \cup {Modules}

LEMMA OperandReads ==
    ASSUME NEW k, NEW op, NEW view, Leaf(op), ExprItems(op) = ItemsStep(op)
    PROVE  /\ ReadsOf(SymToNum(k, op, view), ExprItems(op))
           /\ ReadsOf(Operand(k, op, view), ExprItems(op))
<1>1. CASE op[1] = "const"
  BY <1>1 DEF SymToNum, Operand, ReadsOf, Ret
<1>2. CASE op[1] = "item"
  BY <1>2 DEF SymToNum, Operand, ReadsOf, Ret, Read, ItemsStep
<1> QED
  BY <1>1, <1>2 DEF Leaf

LEMMA ExprStepReads ==
    ASSUME NEW depth, Equations(depth), NEW e \in DOMAIN depth, NEW view,
           NEW k, k.syms \cap k.choices = {},
           \A part \in DOMAIN depth : depth[part] < depth[e] =>
               ReadsOf(ExprValue(k, part, view), ExprItems(part))
    PROVE  ReadsOf(ExprValue(k, e, view), ExprItems(e))
<1>1. ExprValue(k, e, view) = ExprStep(k, e, view) /\ ExprItems(e) = ItemsStep(e)
  BY DEF Equations
<1>2. CASE e[1] = "const"
  BY <1>1, <1>2 DEF ExprStep, Ret, ReadsOf
<1>3. CASE e[1] = "item"
  <2>1. CASE e[2] \in k.choices
    <3>1. ExprItems(e) = {e[2]}
      BY <1>1, <1>3 DEF ItemsStep
    <3>2. ExprValue(k, e, view) = ChoiceTri(k, e[2], view)
      BY <1>1, <1>3, <2>1 DEF ExprStep
    <3> QED
      BY <3>1, <3>2, ChoiceTriReads DEF ReadsOf
  <2>2. CASE e[2] \notin k.choices
    <3>1. ExprItems(e) = {e[2]}
      BY <1>1, <1>3 DEF ItemsStep
    <3>2. ExprValue(k, e, view).r \subseteq {<<"tri", e[2]>>}
      BY <1>1, <1>3, <2>2 DEF ExprStep, Read, Ret
    <3> QED
      BY <3>1, <3>2 DEF ReadsOf
  <2> QED
    BY <2>1, <2>2
<1>4. CASE e[1] = "not" /\ e[2] \in DOMAIN depth /\ depth[e[2]] < depth[e]
  BY <1>1, <1>4 DEF ExprStep, ItemsStep, ReadsOf, NotValue, Also, Ret
<1>5. CASE /\ e[1] \in {"and", "or"}
           /\ \A part \in {e[2], e[3]} : part \in DOMAIN depth /\ depth[part] < depth[e]
  <2>1. ExprItems(e) = ExprItems(e[2]) \cup ExprItems(e[3])
    BY <1>1, <1>5 DEF ItemsStep
  <2>2. ExprValue(k, e, view).r \subseteq ExprValue(k, e[2], view).r
                                          \cup ExprValue(k, e[3], view).r
    BY <1>1, <1>5 DEF ExprStep, AndValue, OrValue, MinOf, MaxOf
  <2> QED
    BY <1>5, <2>1, <2>2 DEF ReadsOf
<1>6. CASE /\ e[1] \in {"=", "!=", "<", "<=", ">", ">="}
           /\ \A part \in {e[2], e[3]} : part \in DOMAIN depth /\ Leaf(part)
  <2>1. ExprItems(e) = ExprItems(e[2]) \cup ExprItems(e[3])
    BY <1>1, <1>6 DEF ItemsStep
  <2>2. ExprValue(k, e, view).r = SymToNum(k, e[2], view).r \cup SymToNum(k, e[3], view).r
    BY <1>1, <1>6 DEF ExprStep, Compared, Also, Ret
  <2> QED
    BY <1>6, <2>1, <2>2, OperandReads DEF ReadsOf, Equations
<1> QED
  BY <1>2, <1>3, <1>4, <1>5, <1>6 DEF Equations, Finite, Leaf

(* By the depth of the expression: there is no shallowest one that reads   *)
(* anything else. *)
LEMMA Shallowest ==
    ASSUME NEW depth, NEW S, S # {}, \A x \in S : depth[x] \in Nat
    PROVE  \E x \in S : \A y \in S : depth[x] <= depth[y]
<1> DEFINE depths == {depth[x] : x \in S}
<1>1. depths \subseteq Nat /\ depths # {}
  OBVIOUS
<1>2. PICK d \in depths : \A n \in depths : ~(<<n, d>> \in OpToRel(<, Nat))
  BY <1>1, WFMin, NatLessThanWellFounded
<1>3. ASSUME NEW n \in depths PROVE d <= n
  <2>1. ~(n < d)
    BY <1>1, <1>2 DEF OpToRel
  <2> QED BY <1>1, <2>1
<1> QED BY <1>3

LEMMA ExprReads ==
    ASSUME NEW depth, Equations(depth), NEW e \in DOMAIN depth, NEW view,
           NEW k, k.syms \cap k.choices = {}
    PROVE  ReadsOf(ExprValue(k, e, view), ExprItems(e))
<1> DEFINE bad == {x \in DOMAIN depth : ~ReadsOf(ExprValue(k, x, view), ExprItems(x))}
<1> SUFFICES ASSUME e \in bad PROVE FALSE
  OBVIOUS
<1>1. PICK x \in bad : \A y \in bad : depth[x] <= depth[y]
  BY Shallowest DEF Equations, Finite
<1>2. \A part \in DOMAIN depth : depth[part] < depth[x] =>
          ReadsOf(ExprValue(k, part, view), ExprItems(part))
  BY <1>1 DEF Equations, Finite
<1> QED
  BY <1>1, <1>2, ExprStepReads

-----------------------------------------------------------------------------
(* What the computations for an item i read: i, what it mentions, MODULES, *)
(* the symbols of a choice and the choice of a symbol; a user value only   *)
(* of i itself, where i has a prompt, and the user's pick only of i.       *)
Near(k, i) == {i, Modules} \cup Mentions(k, i)
              \cup (IF i \in k.choices THEN Members(k, i) ELSE {})

Proper(k, i, x) ==
    \A r \in x.r : /\ r[2] \in Near(k, i)
                   /\ r[1] = "user" => r[2] = i /\ i \in k.prompted
                   /\ r[1] = "pick" => r[2] = i

LEMMA ProperParts ==
    ASSUME NEW k, NEW i
    PROVE  /\ \A v : Proper(k, i, Ret(v))
           /\ \A x, y : Proper(k, i, x) /\ Proper(k, i, y) =>
                 Proper(k, i, Also(x, y)) /\ Proper(k, i, MinOf(x, y)) /\ Proper(k, i, MaxOf(x, y))
           /\ \A view, a : a # "user" => Proper(k, i, Read(view, <<a, i>>))
BY DEF Proper, Near, Ret, Also, MinOf, MaxOf, Read

(* What an expression of the instance that an item mentions reads *)
LEMMA ProperExpr ==
    ASSUME NEW k, k.syms \cap k.choices = {}, NEW i, NEW depth, Equations(depth), NEW e \in DOMAIN depth, NEW view,
           ExprItems(e) \subseteq Mentions(k, i)
    PROVE  Proper(k, i, ExprValue(k, e, view))
BY ExprReads DEF Proper, Near, ReadsOf

LEMMA MinOfNats ==
    ASSUME NEW S, S \subseteq Nat, S # {}
    PROVE  Min(S) \in S
<1>1. PICK x \in S : \A y \in S : ~(<<y, x>> \in OpToRel(<, Nat))
  BY NatLessThanWellFounded, WFMin
<1>2. ASSUME NEW y \in S PROVE x <= y
  <2>1. ~(y < x)
    BY <1>1 DEF OpToRel
  <2> QED BY <2>1
<1> QED BY <1>2 DEF Min

(* A loop over such expressions *)
LEMMA ProperFirst ==
    ASSUME NEW k, NEW i, NEW results, \A n \in DOMAIN results : Proper(k, i, results[n])
    PROVE  Proper(k, i, FirstOf(results))
BY DEF Proper, FirstOf

LEMMA FirstIsOne ==
    ASSUME NEW results, DOMAIN results \subseteq Nat, FirstOf(results).v # 0
    PROVE  FirstOf(results).v \in DOMAIN results /\ results[FirstOf(results).v].v # 0
<1> DEFINE hits == {n \in DOMAIN results : results[n].v # 0}
<1>1. hits # {} /\ FirstOf(results).v = Min(hits)
  BY DEF FirstOf
<1> QED
  BY <1>1, MinOfNats

LEMMA ProperActive ==
    ASSUME NEW k, k.syms \cap k.choices = {}, NEW i, NEW depth, Equations(depth), NEW list, NEW view,
           DOMAIN list \subseteq Nat,
           \A e \in Conditions(list) : e \in DOMAIN depth /\ ExprItems(e) \subseteq Mentions(k, i)
    PROVE  /\ Proper(k, i, FirstActive(k, list, view))
           /\ FirstActive(k, list, view).v.at # 0 =>
                 FirstActive(k, list, view).v.at \in DOMAIN list
<1> DEFINE conds == [n \in DOMAIN list |-> ExprValue(k, list[n][Len(list[n])], view)]
<1>1. \A n \in DOMAIN conds : Proper(k, i, conds[n])
  BY ProperExpr DEF Conditions
<1>2. Proper(k, i, FirstOf(conds))
  BY <1>1, ProperFirst
<1>3. FirstActive(k, list, view) =
          Also(FirstOf(conds), Ret([at   |-> FirstOf(conds).v,
                                    cond |-> IF FirstOf(conds).v = 0 THEN 0
                                             ELSE conds[FirstOf(conds).v].v]))
  BY DEF FirstActive
<1>4. Proper(k, i, FirstActive(k, list, view))
  BY <1>2, <1>3, ProperParts
<1>5. FirstActive(k, list, view).v.at = FirstOf(conds).v
  <2> DEFINE first == FirstOf(conds)
             cond == IF first.v = 0 THEN 0 ELSE conds[first.v].v
  <2>1. FirstActive(k, list, view) = Also(first, Ret([at |-> first.v, cond |-> cond]))
    BY <1>3
  <2> HIDE DEF first, cond
  <2>2. FirstActive(k, list, view).v = [at |-> first.v, cond |-> cond]
    BY <2>1 DEF Also, Ret
  <2>3. FirstActive(k, list, view).v.at = first.v
    BY <2>2
  <2> QED
    BY <2>3 DEF first
<1> QED
  BY <1>4, <1>5, FirstIsOne

(* An instance as the parser leaves it, whose expressions are finite. *)
Given(k, depth) == WellFormed(k) /\ Equations(depth) /\ Expressions(k) \subseteq DOMAIN depth

Asks(k, i, depth, e) == e \in DOMAIN depth /\ ExprItems(e) \subseteq Mentions(k, i)

LEMMA ExpressionsAreFinite ==
    ASSUME NEW k, NEW depth, Given(k, depth), NEW i \in k.syms \cup k.choices
    PROVE  /\ ItemExpressions(k, i) \subseteq DOMAIN depth
           /\ i \in k.syms => SymExpressions(k, i) \subseteq DOMAIN depth
<1>1. ItemExpressions(k, i) \subseteq DOMAIN depth
  BY DEF Given, Expressions
<1>2. i \in k.syms => SymExpressions(k, i) \subseteq ItemExpressions(k, i)
  BY DEF ItemExpressions, Given, WellFormed
<1> QED
  BY <1>1, <1>2

LEMMA ItemAsks ==
    ASSUME NEW k, NEW depth, Given(k, depth), NEW i \in k.syms \cup k.choices
    PROVE  /\ \A n \in DOMAIN k.prompts[i] : Asks(k, i, depth, k.prompts[i][n])
           /\ \A e \in Conditions(k.defaults[i]) : Asks(k, i, depth, e)
<1>1. /\ \A n \in DOMAIN k.prompts[i] : k.prompts[i][n] \in ItemExpressions(k, i)
      /\ \A e \in Conditions(k.defaults[i]) : e \in ItemExpressions(k, i)
  BY DEF ItemExpressions
<1>2. \A n \in DOMAIN k.prompts[i] : ExprItems(k.prompts[i][n]) \subseteq Mentions(k, i)
  BY DEF Mentions
<1>3. \A e \in Conditions(k.defaults[i]) : ExprItems(e) \subseteq Mentions(k, i)
  BY DEF Mentions, Conditions
<1> QED
  BY <1>1, <1>2, <1>3, ExpressionsAreFinite DEF Asks

LEMMA SymbolAsks ==
    ASSUME NEW k, NEW depth, Given(k, depth), NEW s \in k.syms
    PROVE  \A e \in {k.rev[s], k.weak[s], k.direct[s]} \cup Nth(k.defaults[s], 1)
                     \cup Conditions(k.ranges[s]) \cup Nth(k.ranges[s], 1)
                     \cup Nth(k.ranges[s], 2) : Asks(k, s, depth, e)
<1>1. s \notin k.choices
  BY DEF Given, WellFormed
<1>2. \A e \in {k.rev[s], k.weak[s], k.direct[s]} : ExprItems(e) \subseteq Mentions(k, s)
  BY <1>1 DEF Mentions
<1>3. \A e \in Nth(k.defaults[s], 1) : ExprItems(e) \subseteq Mentions(k, s)
  BY <1>1 DEF Mentions, Nth
<1>4. \A e \in Conditions(k.ranges[s]) : ExprItems(e) \subseteq Mentions(k, s)
  BY <1>1 DEF Mentions, Conditions
<1>5. \A e \in Nth(k.ranges[s], 1) \cup Nth(k.ranges[s], 2) : ExprItems(e) \subseteq Mentions(k, s)
  BY <1>1 DEF Mentions, Nth
<1> QED
  BY <1>2, <1>3, <1>4, <1>5, ExpressionsAreFinite DEF Asks, SymExpressions

(* The type of a symbol or choice, and its visibility *)
LEMMA ProperTypes ==
    ASSUME NEW k, NEW depth, Given(k, depth), NEW view
    PROVE  /\ \A c \in k.choices : Proper(k, c, ChoiceType(k, c, view))
           /\ \A c \in k.choices : Proper(k, c, ChoiceTri(k, c, view))
           /\ \A s \in k.syms : Proper(k, s, SymType(k, s, view))
           /\ \A s \in k.syms : k.choiceOf[s] # NoItem =>
                  Proper(k, s, ChoiceTri(k, k.choiceOf[s], view))
<1>1. \A i : Proper(k, i, TypeByModules(k, view))
  BY TypeReads DEF Proper, Near
<1>2. ASSUME NEW c \in k.choices
      PROVE  Proper(k, c, ChoiceType(k, c, view)) /\ Proper(k, c, ChoiceTri(k, c, view))
  <2>1. Proper(k, c, ChoiceType(k, c, view))
    BY <1>1, ProperParts DEF ChoiceType
  <2> QED
    BY <2>1, ChoiceTriReads DEF Proper, Near
<1>3. ASSUME NEW s \in k.syms, k.choiceOf[s] # NoItem
      PROVE  Proper(k, s, ChoiceTri(k, k.choiceOf[s], view))
  <2>1. k.choiceOf[s] \in Mentions(k, s)
    BY <1>3 DEF Given, WellFormed, ChoicesRight
  <2> QED
    BY <2>1, ChoiceTriReads DEF Proper, Near
<1>4. ASSUME NEW s \in k.syms PROVE Proper(k, s, SymType(k, s, view))
  <2>1. \A mode : Proper(k, s, mode) => Proper(k, s, TypeInMode(k, mode, view))
    BY <1>1, ProperParts DEF TypeInMode
  <2> QED
    BY <1>3, <2>1, ProperParts DEF SymType
<1> QED
  BY <1>2, <1>3, <1>4

LEMMA ProperVisibility ==
    ASSUME NEW k, NEW depth, Given(k, depth), NEW view, NEW i \in k.syms \cup k.choices
    PROVE  Proper(k, i, Visibility(k, i, view))
<1> DEFINE prompt == StrongestPrompt(k, k.prompts[i], view)
<1> k.syms \cap k.choices = {} /\ Equations(depth)
  BY DEF Given, WellFormed
<1>1. Proper(k, i, prompt)
  <2>1. \A n \in DOMAIN k.prompts[i] : Proper(k, i, ExprValue(k, k.prompts[i][n], view))
    BY ItemAsks, ProperExpr DEF Asks
  <2> QED
    BY ZenonT(60), <2>1 DEF Proper, StrongestPrompt
<1>2. Proper(k, i, PromoteVisibility(k, i, prompt, view))
  <2> HIDE DEF prompt
  <2>1. \A type : Proper(k, i, type) => Proper(k, i, YesUnlessTristate(type))
    BY ProperParts DEF YesUnlessTristate
  <2>2. i \in k.choices => Proper(k, i, ChoiceType(k, i, view))
    BY ProperTypes
  <2>3. i \in k.syms => Proper(k, i, SymType(k, i, view))
    BY ProperTypes
  <2> QED
    BY <1>1, <2>1, <2>2, <2>3, ProperParts DEF PromoteVisibility
<1> HIDE DEF prompt
<1>3. \A mode : Proper(k, i, mode) => Proper(k, i, VisibilityInMode(k, i, prompt, mode, view))
  BY <1>1, <1>2, ProperParts DEF VisibilityInMode
<1>4. i \in k.syms /\ k.choiceOf[i] # NoItem => Proper(k, i, ChoiceTri(k, k.choiceOf[i], view))
  BY ProperTypes
<1>5. Proper(k, i, VisibilityByPrompt(k, i, prompt, view))
  BY <1>1, <1>2, <1>3, <1>4 DEF VisibilityByPrompt
<1> QED
  BY <1>5 DEF Visibility, prompt

(* What has no prompt is not visible. *)
LEMMA PromptlessInvisible ==
    ASSUME NEW k, NEW depth, Given(k, depth), NEW view, NEW s \in k.syms, s \notin k.prompted
    PROVE  Visibility(k, s, view).v = 0
<1> DEFINE prompt == StrongestPrompt(k, k.prompts[s], view)
<1>1. k.prompts[s] = <<>>
  BY DEF Given, WellFormed
<1>2. prompt.v = 0
  <2> DEFINE conds == [n \in DOMAIN k.prompts[s] |-> ExprValue(k, k.prompts[s][n], view)]
  <2>1. DOMAIN conds = {}
    BY <1>1
  <2>2. {0} \cup {conds[n].v : n \in DOMAIN conds} = {0}
    BY <2>1
  <2>3. prompt.v = Max({0})
    BY <2>2 DEF StrongestPrompt
  <2> QED
    BY <2>3 DEF Max
<1> HIDE DEF prompt
<1>3. PromoteVisibility(k, s, prompt, view).v = 0
  BY <1>2 DEF PromoteVisibility
<1>4. \A mode : VisibilityInMode(k, s, prompt, mode, view).v = 0
  BY <1>3 DEF VisibilityInMode, Also, Ret
<1>5. VisibilityByPrompt(k, s, prompt, view).v = 0
  BY <1>3, <1>4 DEF VisibilityByPrompt
<1> QED
  BY <1>5 DEF Visibility, prompt

(* The value of a bool or tristate symbol *)
LEMMA ProperExprs ==
    ASSUME NEW k, NEW depth, Given(k, depth), NEW view, NEW s \in k.syms
    PROVE  /\ \A e \in {k.rev[s], k.weak[s], k.direct[s]} \cup Nth(k.defaults[s], 1) :
                 Proper(k, s, ExprValue(k, e, view))
           /\ Proper(k, s, NeverM(k, s, view))
<1> k.syms \cap k.choices = {} /\ Equations(depth)
  BY DEF Given, WellFormed
<1>1. \A e \in {k.rev[s], k.weak[s], k.direct[s]} \cup Nth(k.defaults[s], 1) :
          Proper(k, s, ExprValue(k, e, view))
  BY SymbolAsks, ProperExpr DEF Asks
<1>2. \A type : Proper(k, s, type) => Proper(k, s, NeverMOfType(k, s, type, view))
  BY <1>1, ProperParts DEF NeverMOfType
<1>3. Proper(k, s, NeverM(k, s, view))
  BY <1>2, ProperTypes DEF NeverM
<1> QED
  BY <1>1, <1>3

LEMMA ProperLoops ==
    ASSUME NEW k, NEW depth, Given(k, depth), NEW view, NEW s \in k.syms
    PROVE  /\ \A list \in {k.defaults[s], k.ranges[s]} :
                 /\ Proper(k, s, FirstActive(k, list, view))
                 /\ FirstActive(k, list, view).v.at # 0 =>
                        FirstActive(k, list, view).v.at \in DOMAIN list
           /\ Proper(k, s, SelectWarning(k, s, k.selectors[s], view))
<1> k.syms \cap k.choices = {} /\ Equations(depth)
  BY DEF Given, WellFormed
<1>1. ASSUME NEW list \in {k.defaults[s], k.ranges[s]}
      PROVE  /\ Proper(k, s, FirstActive(k, list, view))
             /\ FirstActive(k, list, view).v.at # 0 =>
                    FirstActive(k, list, view).v.at \in DOMAIN list
  <2>1. DOMAIN list \subseteq Nat
    BY DEF Given, WellFormed, ListsRight
  <2>2. \A e \in Conditions(list) : e \in DOMAIN depth /\ ExprItems(e) \subseteq Mentions(k, s)
    BY ItemAsks, SymbolAsks DEF Asks
  <2> QED
    BY <2>1, <2>2, ProperActive
<1>2. ASSUME NEW n \in DOMAIN k.selectors[s]
      PROVE  LET by == k.selectors[s][n]
                 v == ExprValue(k, <<"and", <<"item", by[1]>>, by[2]>>, view)
             IN Proper(k, s, WarningBy(k, by[1], v, ExprValue(k, k.direct[s], view), view))
  <2> DEFINE by == k.selectors[s][n]
             both == <<"and", <<"item", by[1]>>, by[2]>>
             v == ExprValue(k, both, view)
             met == ExprValue(k, k.direct[s], view)
  <2>1. /\ by[1] \in k.syms
        /\ {by[1]} \cup ExprItems(by[2]) \cup ExprItems(k.direct[by[1]]) \subseteq Mentions(k, s)
    BY DEF Given, WellFormed, SelectorsRight
  <2>2. both \in DOMAIN depth
    BY ExpressionsAreFinite DEF SymExpressions
  <2>3. k.direct[by[1]] \in DOMAIN depth
    BY <2>1, ExpressionsAreFinite DEF SymExpressions
  <2>4. ExprItems(both) = {by[1]} \cup ExprItems(by[2])
    <3>1. ExprItems(both) = ExprItems(both[2]) \cup ExprItems(both[3])
      BY <2>2 DEF Equations, ItemsStep
    <3>2. both[2] \in DOMAIN depth
      BY <2>2 DEF Equations, Finite, Leaf
    <3>3. ExprItems(both[2]) = {by[1]}
      BY <3>2 DEF Equations, ItemsStep
    <3> QED
      BY <3>1, <3>3
  <2>5. Proper(k, s, v)
    BY <2>1, <2>2, <2>4, ProperExpr
  <2>6. Proper(k, s, met)
    BY ProperExprs
  <2>7. Proper(k, s, ExprValue(k, k.direct[by[1]], view))
    BY <2>1, <2>3, ProperExpr
  <2>8. Proper(k, s, Read(view, <<"str", by[1]>>))
    BY <2>1 DEF Proper, Near, Read
  <2> HIDE DEF v, met, by
  <2>9. Proper(k, s, WarningBy(k, by[1], v, met, view))
    BY <2>5, <2>6, <2>7, <2>8, ProperParts DEF WarningBy
  <2> QED
    BY <2>9 DEF v, met, by
<1>3. Proper(k, s, SelectWarning(k, s, k.selectors[s], view))
  BY ZenonT(60), <1>2 DEF SelectWarning, Proper
<1> QED
  BY <1>1, <1>3

LEMMA ProperOperand ==
    ASSUME NEW k, NEW depth, Given(k, depth), NEW view, NEW s, NEW op, Leaf(op),
           Asks(k, s, depth, op)
    PROVE  Proper(k, s, Operand(k, op, view))
<1>1. ExprItems(op) = ItemsStep(op) /\ ExprItems(op) \subseteq Mentions(k, s)
  BY DEF Given, Equations, Asks
<1>2. ReadsOf(Operand(k, op, view), ExprItems(op))
  BY <1>1, OperandReads
<1> QED
  BY <1>1, <1>2 DEF Proper, Near, ReadsOf

LEMMA ProperUser ==
    ASSUME NEW k, NEW s, NEW vis, vis # 0 => s \in k.prompted, NEW view
    PROVE  Proper(k, s, UserValue(s, vis, view))
BY DEF UserValue, Proper, Near, Read, Ret

LEMMA ProperOwn ==
    ASSUME NEW k, NEW depth, Given(k, depth), NEW view, NEW s \in k.syms,
           NEW vis, vis # 0 => s \in k.prompted
    PROVE  Proper(k, s, OwnValue(k, s, vis, view))
<1> DEFINE first == FirstActive(k, k.defaults[s], view)
<1>1. Proper(k, s, DefaultTri(k, s, first, view))
  <2>1. Proper(k, s, first) /\ (first.v.at # 0 => first.v.at \in DOMAIN k.defaults[s])
    BY ProperLoops
  <2>2. first.v.at # 0 => Proper(k, s, ExprValue(k, k.defaults[s][first.v.at][1], view))
    BY <2>1, ProperExprs DEF Nth
  <2> HIDE DEF first
  <2> QED
    BY <2>1, <2>2, ProperParts DEF DefaultTri
<1>2. \A def, weak, met : Proper(k, s, def) /\ Proper(k, s, weak) /\ Proper(k, s, met) =>
          Proper(k, s, WithImply(vis, def, weak, met))
  BY ProperParts DEF WithImply
<1>3. Proper(k, s, ExprValue(k, k.weak[s], view)) /\ Proper(k, s, ExprValue(k, k.direct[s], view))
  BY ProperExprs
<1>4. \A def : Proper(k, s, def) =>
          Proper(k, s, Implied(k, s, vis, def, ExprValue(k, k.weak[s], view), view))
  BY <1>2, <1>3, ProperParts DEF Implied
<1> HIDE DEF first
<1>5. \A own : Proper(k, s, own) => Proper(k, s, OwnOrUser(k, s, vis, own, view))
  BY <1>1, <1>4, ProperParts DEF OwnOrUser, first
<1> QED
  BY <1>5, ProperUser DEF OwnValue

LEMMA ProperTri ==
    ASSUME NEW k, NEW depth, Given(k, depth), NEW view, NEW s \in k.syms,
           Read(view, <<"vis", s>>).v # 0 => s \in k.prompted
    PROVE  /\ Proper(k, s, TriValue(k, s, view))
           /\ TriValue(k, s, view).r # {} => <<"vis", s>> \in TriValue(k, s, view).r
           /\ IsTri(k, s) => TriValue(k, s, view).r # {}
<1> DEFINE visible == Read(view, <<"vis", s>>)
<1>1. Proper(k, s, PlainTri(k, s, visible.v, view))
  <2>1. Proper(k, s, OwnValue(k, s, visible.v, view))
    BY ProperOwn
  <2>2. /\ Proper(k, s, ExprValue(k, k.rev[s], view))
        /\ Proper(k, s, ExprValue(k, k.direct[s], view))
        /\ Proper(k, s, NeverM(k, s, view))
        /\ Proper(k, s, SelectWarning(k, s, k.selectors[s], view))
    BY ProperExprs, ProperLoops
  <2>3. \A own, y : Proper(k, s, y) => Proper(k, s, Promoted(own, y))
    BY ProperParts DEF Promoted
  <2>4. \A rev, met : Proper(k, s, met) => Proper(k, s, UnmetSelect(k, s, rev, met, view))
    BY <2>2, ProperParts DEF UnmetSelect
  <2>5. \A own, rev : Proper(k, s, own) /\ Proper(k, s, rev) =>
            Proper(k, s, WithSelect(k, s, own, rev, view))
    BY <2>2, <2>3, <2>4, ProperParts DEF WithSelect
  <2> QED
    BY <2>1, <2>2, <2>5 DEF PlainTri
<1>2. k.choiceOf[s] # NoItem => Proper(k, s, MemberTri(k, s, visible.v, view))
  <2>1. k.choiceOf[s] # NoItem => Proper(k, s, Read(view, <<"sel", k.choiceOf[s]>>))
    BY DEF Given, WellFormed, ChoicesRight, Proper, Near, Read
  <2>2. \A sel : Proper(k, s, sel) => Proper(k, s, IfSelected(s, sel))
    BY ProperParts DEF IfSelected
  <2>3. \A own, vis : Proper(k, s, own) => Proper(k, s, IfUser(own, vis))
    BY ProperParts DEF IfUser
  <2>4. Proper(k, s, UserValue(s, visible.v, view))
    BY ProperUser
  <2> QED
    BY <2>1, <2>2, <2>3, <2>4 DEF MemberTri
<1>3. Proper(k, s, visible) /\ visible.r = {<<"vis", s>>}
  BY ProperParts DEF Read
<1> HIDE DEF visible
<1>4. /\ Proper(k, s, TriOfVisible(k, s, visible, view))
      /\ <<"vis", s>> \in TriOfVisible(k, s, visible, view).r
  <2>1. Proper(k, s, TriOfVisible(k, s, visible, view))
    BY <1>1, <1>2, <1>3, ProperParts DEF TriOfVisible
  <2> QED
    BY <2>1, <1>3 DEF TriOfVisible, Also
<1>5. CASE IsTri(k, s)
  BY <1>4, <1>5 DEF TriValue, visible
<1>6. CASE ~IsTri(k, s)
  BY <1>6, ProperParts DEF TriValue, Ret
<1> QED
  BY <1>5, <1>6

(* The value of an int or a string *)
LEMMA ProperStr ==
    ASSUME NEW k, NEW depth, Given(k, depth), NEW view, NEW s \in k.syms,
           Read(view, <<"vis", s>>).v # 0 => s \in k.prompted
    PROVE  /\ Proper(k, s, StrValue(k, s, view))
           /\ <<IF IsTri(k, s) THEN "tri" ELSE "vis", s>> \in StrValue(k, s, view).r
<1> DEFINE visible == Read(view, <<"vis", s>>)
           first == FirstActive(k, k.defaults[s], view)
           range == FirstActive(k, k.ranges[s], view)
           own == UserValue(s, visible.v, view)
<1>1. /\ Proper(k, s, visible) /\ visible.r = {<<"vis", s>>}
      /\ Proper(k, s, first) /\ Proper(k, s, range) /\ Proper(k, s, own)
  BY ProperParts, ProperLoops, ProperUser DEF Read
<1>2. CASE IsTri(k, s)
  BY ZenonT(60), <1>2, ProperParts DEF StrValue, TextOfTri, Read, Also, Ret
<1>3. CASE ~IsTri(k, s)
  <2>1. Proper(k, s, DefaultText(k, s, first, view))
    <3>1. ASSUME first.v.at # 0
          PROVE  Proper(k, s, Operand(k, k.defaults[s][first.v.at][1], view))
      <4>1. first.v.at \in DOMAIN k.defaults[s]
        BY <3>1, ProperLoops
      <4>2. Leaf(k.defaults[s][first.v.at][1])
        BY <1>3, <4>1 DEF Given, WellFormed, OperandsRight
      <4>3. Asks(k, s, depth, k.defaults[s][first.v.at][1])
        BY <4>1, SymbolAsks DEF Nth
      <4> QED
        BY <4>2, <4>3, ProperOperand
    <3> HIDE DEF first
    <3> QED
      BY <1>1, <3>1, ProperParts DEF DefaultText
  <2>2. Proper(k, s, RangeOf(k, s, range, view))
    <3>1. ASSUME range.v.at # 0, NEW m \in {1, 2}
          PROVE  Proper(k, s, Operand(k, k.ranges[s][range.v.at][m], view))
      <4>1. range.v.at \in DOMAIN k.ranges[s]
        BY <3>1, ProperLoops
      <4>2. Leaf(k.ranges[s][range.v.at][m])
        BY <3>1, <4>1 DEF Given, WellFormed, OperandsRight
      <4>3. Asks(k, s, depth, k.ranges[s][range.v.at][m])
        BY <3>1, <4>1, SymbolAsks DEF Nth
      <4> QED
        BY <4>2, <4>3, ProperOperand
    <3>2. \A lo, hi : Proper(k, s, lo) /\ Proper(k, s, hi) => Proper(k, s, Bounds(lo, hi))
      BY ProperParts DEF Bounds
    <3> HIDE DEF range
    <3> QED
      BY <1>1, <3>1, <3>2, ProperParts DEF RangeOf
  <2> HIDE DEF first, range, own, visible
  <2>3. \A vis, bounds, text : Proper(k, s, text) => Proper(k, s, Clamped(vis, bounds, first, text))
    BY ProperParts DEF Clamped
  <2>4. \A bounds : Proper(k, s, bounds) =>
            Proper(k, s, IntInRange(k, s, visible.v, bounds, own, first, view))
    BY <1>1, <2>1, <2>3, ProperParts DEF IntInRange
  <2>5. Proper(k, s, TextOrUser(k, s, visible.v, own, first, view))
    BY <1>1, <2>1, ProperParts DEF TextOrUser
  <2>6. Proper(k, s, IntValue(k, s, visible.v, view)) /\ Proper(k, s, StringValue(k, s, visible.v, view))
    BY <2>2, <2>4, <2>5 DEF IntValue, StringValue, first, range, own
  <2>7. Proper(k, s, TextOfVisible(k, s, visible, view))
    BY <1>1, <2>6, ProperParts DEF TextOfVisible
  <2>8. <<"vis", s>> \in TextOfVisible(k, s, visible, view).r
    BY <1>1 DEF TextOfVisible, Also
  <2> QED
    BY <1>3, <2>7, <2>8 DEF StrValue, visible
<1> QED
  BY <1>2, <1>3

(* What can be assigned *)
LEMMA ProperAssignable ==
    ASSUME NEW k, NEW depth, Given(k, depth), NEW view
    PROVE  /\ \A s \in k.syms : /\ Proper(k, s, SymAssignable(k, s, view))
                                /\ SymAssignable(k, s, view).r # {} =>
                                      <<"vis", s>> \in SymAssignable(k, s, view).r
           /\ \A c \in k.choices : /\ Proper(k, c, ChoiceAssignable(k, c, view))
                                   /\ <<"vis", c>> \in ChoiceAssignable(k, c, view).r
<1>1. ASSUME NEW s \in k.syms
      PROVE  /\ Proper(k, s, SymAssignable(k, s, view))
             /\ SymAssignable(k, s, view).r # {} =>
                   <<"vis", s>> \in SymAssignable(k, s, view).r
  <2> DEFINE visible == Read(view, <<"vis", s>>)
  <2>1. Proper(k, s, visible) /\ visible.r = {<<"vis", s>>}
    BY ProperParts DEF Read
  <2>2. /\ Proper(k, s, ExprValue(k, k.rev[s], view))
        /\ Proper(k, s, ExprValue(k, k.weak[s], view))
        /\ Proper(k, s, NeverM(k, s, view))
    BY ProperExprs
  <2> HIDE DEF visible
  <2>3. \A y, values : Proper(k, s, y) => Proper(k, s, WithoutM(y, values))
    BY ProperParts DEF WithoutM
  <2>4. \A vis, rev : Proper(k, s, vis) /\ Proper(k, s, rev) =>
            Proper(k, s, AssignableUnder(k, s, vis, rev, view))
    <3> SUFFICES ASSUME NEW vis, NEW rev, Proper(k, s, vis), Proper(k, s, rev)
                 PROVE  Proper(k, s, AssignableUnder(k, s, vis, rev, view))
      OBVIOUS
    <3>1. \A v : Proper(k, s, Also(Also(vis, rev), Ret(v)))
      BY ProperParts
    <3>2. \A x : Proper(k, s, x) => Proper(k, s, Also(Also(vis, rev), x))
      BY ProperParts
    <3>3. CASE vis.v = 2 /\ k.choiceOf[s] = NoItem /\ rev.v # 2
      BY <3>2, <3>3, <2>2, <2>3 DEF AssignableUnder
    <3>4. CASE vis.v = 1 /\ rev.v = 0
      BY <3>2, <3>4, <2>2, ProperParts DEF AssignableUnder
    <3> QED
      BY <3>1, <3>3, <3>4 DEF AssignableUnder
  <2>5. Proper(k, s, IfVisible(k, s, visible, view))
    BY <2>1, <2>2, <2>4, ProperParts DEF IfVisible
  <2>6. <<"vis", s>> \in IfVisible(k, s, visible, view).r
    BY <2>1 DEF IfVisible, AssignableUnder, Also
  <2>7. CASE IsTri(k, s)
    BY <2>5, <2>6, <2>7 DEF SymAssignable, visible
  <2>8. CASE ~IsTri(k, s)
    BY <2>8, ProperParts DEF SymAssignable, Ret
  <2> QED
    BY <2>7, <2>8
<1>2. ASSUME NEW c \in k.choices
      PROVE  /\ Proper(k, c, ChoiceAssignable(k, c, view))
             /\ <<"vis", c>> \in ChoiceAssignable(k, c, view).r
  <2> DEFINE visible == Read(view, <<"vis", c>>)
             y == YesIfBool(ChoiceType(k, c, view))
  <2>1. Proper(k, c, visible) /\ visible.r = {<<"vis", c>>}
    BY ProperParts DEF Read
  <2>2. Proper(k, c, y)
    BY ProperTypes, ProperParts DEF YesIfBool
  <2> HIDE DEF visible, y
  <2>3. \A v : Proper(k, c, Also(visible, Ret(v))) /\ Proper(k, c, Also(visible, Also(y, Ret(v))))
    BY <2>1, <2>2, ProperParts
  <2>4. Proper(k, c, ModesOf(k, c, visible, view))
    BY <2>3 DEF ModesOf, y
  <2>5. <<"vis", c>> \in ModesOf(k, c, visible, view).r
    BY <2>1 DEF ModesOf, Also
  <2> QED
    BY <2>4, <2>5 DEF ChoiceAssignable, visible
<1> QED
  BY <1>1, <1>2

(* The selection of a choice, whose user selection is one of its symbols *)
LEMMA ProperSelection ==
    ASSUME NEW k, NEW depth, Given(k, depth), NEW view, NEW c \in k.choices,
           Read(view, <<"pick", c>>).v \in Members(k, c) \cup {NoItem}
    PROVE  /\ Proper(k, c, Selection(k, c, view))
           /\ <<"vis", c>> \in Selection(k, c, view).r
<1> k.syms \cap k.choices = {} /\ Equations(depth)
  BY DEF Given, WellFormed
<1>1. \A m \in Members(k, c) : Proper(k, c, Read(view, <<"vis", m>>))
  BY DEF Proper, Near, Read
<1>2. Proper(k, c, DefaultSelection(k, c, view))
  <2> DEFINE result(n) == IfActive(ExprValue(k, k.defaults[c][n][2], view),
                                   Read(view, <<"vis", k.defaults[c][n][1]>>))
             results == [n \in DOMAIN k.defaults[c] |-> result(n)]
  <2>1. ASSUME NEW n \in DOMAIN k.defaults[c] PROVE Proper(k, c, result(n))
    <3>1. Len(k.defaults[c][n]) = 2 /\ k.defaults[c][n][1] \in Members(k, c)
      BY DEF Given, WellFormed, ChoicesRight
    <3>2. k.defaults[c][n][2] \in Conditions(k.defaults[c])
      BY <3>1 DEF Conditions
    <3>3. Proper(k, c, ExprValue(k, k.defaults[c][n][2], view))
      BY <3>2, ItemAsks, ProperExpr DEF Asks
    <3>4. Proper(k, c, Read(view, <<"vis", k.defaults[c][n][1]>>))
      BY <3>1, <1>1
    <3> QED
      BY <3>3, <3>4, ProperParts DEF IfActive
  <2> HIDE DEF result
  <2>2. \A n \in DOMAIN results : Proper(k, c, results[n])
    BY <2>1
  <2>3. DefaultSelection(k, c, view) = FirstOf(results)
    BY DEF DefaultSelection, result
  <2> HIDE DEF results
  <2>4. Proper(k, c, FirstOf(results))
    BY <2>2, ProperFirst
  <2> QED
    BY <2>3, <2>4
<1>3. Proper(k, c, FirstMember(k, c, view))
  <2> DEFINE results == [n \in DOMAIN k.members[c] |-> Read(view, <<"vis", k.members[c][n]>>)]
  <2>1. Proper(k, c, FirstOf(results))
    BY <1>1, ProperFirst DEF Members
  <2> QED
    BY <2>1, ProperParts DEF FirstMember
<1>4. Proper(k, c, SelectionFromDefaults(k, c, view))
  BY <1>2, <1>3, ProperParts DEF SelectionFromDefaults
<1>5. Proper(k, c, Picked(k, c, Read(view, <<"pick", c>>), view))
  <2> DEFINE pick == Read(view, <<"pick", c>>)
  <2>1. Proper(k, c, pick)
    BY ProperParts
  <2>2. pick.v # NoItem => Proper(k, c, Read(view, <<"vis", pick.v>>))
    BY <1>1
  <2> HIDE DEF pick
  <2>3. \A vis : Proper(k, c, vis) => Proper(k, c, PickIfVisible(k, c, pick, vis, view))
    BY <1>4, <2>1, ProperParts DEF PickIfVisible
  <2> QED
    BY <2>2, <2>3, ProperParts DEF Picked, pick
<1>6. \A mode : Proper(k, c, mode) => Proper(k, c, SelectionIn(k, c, mode, view))
  BY <1>5, ProperParts DEF SelectionIn
<1>7. Proper(k, c, Selection(k, c, view))
  BY <1>6, ProperTypes DEF Selection
<1>8. <<"vis", c>> \in ChoiceTri(k, c, view).r
  BY DEF ChoiceTri, PromoteMode, WithinMode, MinOf, Also, Read
<1> QED
  BY <1>7, <1>8 DEF Selection, SelectionIn, Also

(* Every computation: what it reads is near its item, and the visibility   *)
(* is read first, by the text of a bool or tristate through its value.     *)
LEMMA ProperValue ==
    ASSUME NEW k, NEW depth, Given(k, depth), NEW e \in CacheEntries(k), NEW view,
           \A s \in k.syms : Read(view, <<"vis", s>>).v # 0 => s \in k.prompted,
           \A c \in k.choices : Read(view, <<"pick", c>>).v \in Members(k, c) \cup {NoItem}
    PROVE  /\ Proper(k, e[2], Value(k, e, view))
           /\ \/ e[1] = "vis" \/ Value(k, e, view).r = {}
              \/ <<"vis", e[2]>> \in Value(k, e, view).r
              \/ /\ e[1] = "str" /\ IsTri(k, e[2])
                 /\ <<"tri", e[2]>> \in Value(k, e, view).r
           /\ e[1] = "tri" /\ IsTri(k, e[2]) => Value(k, e, view).r # {}
<1> k.syms \cap k.choices = {}
  BY DEF Given, WellFormed
<1>1. \A x : Proper(k, e[2], x) => Proper(k, e[2], ValOf(x)) /\ ValOf(x).r = x.r
  BY DEF Proper, ValOf
<1>2. CASE e[1] = "vis"
  <2>1. e[2] \in k.syms \cup k.choices
    BY <1>2 DEF CacheEntries
  <2>2. Value(k, e, view) = Visibility(k, e[2], view)
    BY <1>2 DEF Value
  <2> QED
    BY <1>2, <2>1, <2>2, ProperVisibility
<1>3. CASE e[1] = "tri"
  <2>1. e[2] \in k.syms
    BY <1>3 DEF CacheEntries
  <2>2. Value(k, e, view) = ValOf(TriValue(k, e[2], view))
    BY <1>3 DEF Value
  <2> QED
    BY <1>1, <1>3, <2>1, <2>2, ProperTri
<1>4. CASE e[1] = "str"
  <2>1. e[2] \in k.syms
    BY <1>4 DEF CacheEntries
  <2>2. Value(k, e, view) = ValOf(StrValue(k, e[2], view))
    BY <1>4 DEF Value
  <2> QED
    BY <1>1, <1>4, <2>1, <2>2, ProperStr
<1>5. CASE e[1] = "asg" /\ e[2] \in k.syms
  <2>1. Value(k, e, view) = SymAssignable(k, e[2], view)
    BY <1>5 DEF Value
  <2> QED
    BY <1>5, <2>1, ProperAssignable
<1>6. CASE e[1] = "asg" /\ e[2] \in k.choices
  <2>1. Value(k, e, view) = ChoiceAssignable(k, e[2], view)
    BY <1>6 DEF Value
  <2> QED
    BY <1>6, <2>1, ProperAssignable
<1>7. CASE e[1] = "sel"
  <2>1. e[2] \in k.choices
    BY <1>7 DEF CacheEntries
  <2>2. Value(k, e, view) = Selection(k, e[2], view)
    BY <1>7 DEF Value
  <2> QED
    BY <1>7, <2>1, <2>2, ProperSelection
<1> QED
  BY <1>2, <1>3, <1>4, <1>5, <1>6, <1>7 DEF CacheEntries

-----------------------------------------------------------------------------
(* The evaluation of the code, of instances as the parser leaves them *)
TheEvaluation(depth) ==
    \A n \in DOMAIN Kconfigs :
        /\ Given(Kconfigs[n], depth)
        /\ \A e, view : Eval(Kconfigs[n], e, view) = Value(Kconfigs[n], e, view)

(* What the computations rely on: only what has a prompt is visible, the   *)
(* user selection of a choice is one of its symbols, and the value of a    *)
(* bool or tristate is not cached without its visibility.                  *)
ReadsInv ==
    /\ \A s \in K.syms : <<"vis", s>> \in DOMAIN cache /\ cache[<<"vis", s>>].v # 0
                           => s \in K.prompted
    /\ \A c \in K.choices : user[<<"pick", c>>] \in Members(K, c) \cup {NoItem}
    /\ \A s \in K.syms : IsTri(K, s) /\ <<"tri", s>> \in DOMAIN cache
                           => <<"vis", s>> \in DOMAIN cache

(* An entry near the item it was computed for is registered with it. *)
LEMMA NearIsRegistered ==
    ASSUME NEW k, NEW depth, Given(k, depth), NEW i \in k.syms \cup k.choices,
           NEW j \in k.syms \cup k.choices, j \in Near(k, i)
    PROVE  j = i \/ j = Modules \/ i \in k.dependents[j]
<1>1. k.dependents = Dependents(k)
  BY DEF Given, WellFormed
<1>2. CASE j \in Mentions(k, i)
  BY <1>1, <1>2 DEF Dependents
<1>3. CASE i \in k.choices /\ j \in Members(k, i)
  BY <1>1, <1>3 DEF Dependents, Members
<1> QED
  BY <1>2, <1>3 DEF Near

LEMMA FillRegistered ==
    ASSUME NEW depth, TheEvaluation(depth), TypeOK, ReadsRegistered, ReadsInv,
           NEW e \in K.asked, Fill(e)
    PROVE  ReadsRegistered' /\ ReadsInv'
<1> DEFINE view == View(Visible)
           R == Value(K, e, view).r
<1>1. Given(K, depth) /\ \A x, w : Eval(K, x, w) = Value(K, x, w)
  BY DEF TheEvaluation, TypeOK, K
<1>2. e \in CacheEntries(K)
  BY AskedIsCached
<1>3. /\ R \subseteq Visible /\ e \notin DOMAIN cache
      /\ cache' = [x \in DOMAIN cache \cup {e} |->
                     IF x = e THEN [v |-> Value(K, e, View(R)).v, r |-> R] ELSE cache[x]]
      /\ kc' = kc /\ user' = user /\ K' = K
  BY <1>1 DEF Fill, K
<1>4. \A s \in K.syms : Read(view, <<"vis", s>>).v # 0 => s \in K.prompted
  <2> SUFFICES ASSUME NEW s \in K.syms, Read(view, <<"vis", s>>).v # 0
               PROVE  s \in K.prompted
    OBVIOUS
  <2>1. <<"vis", s>> \in Visible
    BY DEF Read, View
  <2>2. <<"vis", s>> \in DOMAIN cache
    BY <2>1 DEF Visible, UserEntries
  <2>3. Read(view, <<"vis", s>>).v = cache[<<"vis", s>>].v
    BY <2>1, <2>2 DEF Read, View, Held
  <2> QED
    BY <2>2, <2>3 DEF ReadsInv
<1>5. \A c \in K.choices : Read(view, <<"pick", c>>).v \in Members(K, c) \cup {NoItem}
  <2> SUFFICES ASSUME NEW c \in K.choices
               PROVE  Read(view, <<"pick", c>>).v \in Members(K, c) \cup {NoItem}
    OBVIOUS
  <2>1. <<"pick", c>> \in Visible /\ <<"pick", c>> \notin DOMAIN cache
    BY DEF Visible, UserEntries, TypeOK, CacheEntries
  <2>2. Read(view, <<"pick", c>>).v = user[<<"pick", c>>]
    BY <2>1 DEF Read, View, Held
  <2> QED
    BY <2>2 DEF ReadsInv
<1> HIDE DEF view
<1>6. /\ Proper(K, e[2], Value(K, e, view))
      /\ \/ e[1] = "vis" \/ R = {} \/ <<"vis", e[2]>> \in R
         \/ e[1] = "str" /\ IsTri(K, e[2]) /\ <<"tri", e[2]>> \in R
      /\ e[1] = "tri" /\ IsTri(K, e[2]) => R # {}
  BY <1>1, <1>2, <1>4, <1>5, ProperValue
<1> HIDE DEF R
<1>7. \A i \in Items : <<"vis", i>> \in R => <<"vis", i>> \in DOMAIN cache
  BY <1>3 DEF Visible, UserEntries
<1>8. e[2] \in Items /\ \A r \in R : r[2] \in Items
  BY <1>2, <1>3, ItemsOfEntries DEF Visible, TypeOK, ItemOf
<1>9. R # {} => <<"vis", e[2]>> \in DOMAIN cache'
  <2>1. CASE e[1] = "vis"
    BY <2>1, <1>2, <1>3 DEF CacheEntries
  <2>2. CASE <<"vis", e[2]>> \in R
    BY <2>2, <1>3, <1>7, <1>8
  <2>3. CASE e[1] = "str" /\ IsTri(K, e[2]) /\ <<"tri", e[2]>> \in R
    <3>1. e[2] \in K.syms
      BY <2>3, <1>2 DEF CacheEntries
    <3>2. <<"tri", e[2]>> \in DOMAIN cache
      BY <2>3, <1>3 DEF Visible, UserEntries
    <3> QED
      BY <2>3, <3>1, <3>2, <1>3 DEF ReadsInv
  <2> QED
    BY <1>6, <2>1, <2>2, <2>3
<1>10. ASSUME NEW r \in R
       PROVE  /\ ItemOf(r) = ItemOf(e) \/ ItemOf(r) = Modules
                 \/ ItemOf(e) \in K.dependents[ItemOf(r)]
              /\ AttrOf(r) = "user" =>
                    /\ ItemOf(r) = ItemOf(e) /\ ItemOf(r) \in K.prompted
                    /\ K.choiceOf[ItemOf(r)] # NoItem =>
                          ItemOf(r) \in K.dependents[K.choiceOf[ItemOf(r)]]
  <2>1. r[2] \in Near(K, e[2]) /\ (r[1] = "user" => r[2] = e[2] /\ e[2] \in K.prompted)
    BY <1>6 DEF Proper, R
  <2>2. r[2] = e[2] \/ r[2] = Modules \/ e[2] \in K.dependents[r[2]]
    BY <1>1, <1>8, <2>1, NearIsRegistered DEF Items
  <2>3. ASSUME NEW s \in K.prompted, K.choiceOf[s] # NoItem
        PROVE  s \in K.dependents[K.choiceOf[s]]
    BY <1>1, <2>3 DEF Given, WellFormed, ChoicesRight, Dependents
  <2> QED
    BY <2>1, <2>2, <2>3 DEF ItemOf, AttrOf
<1>11. DependentsCoverReads'
  BY <1>3, <1>10 DEF DependentsCoverReads, ReadsRegistered
<1>12. VisibilityFirst'
  BY <1>3, <1>9 DEF VisibilityFirst, ReadsRegistered, ItemOf
<1>13. ReadsInv'
  <2>1. ASSUME NEW s \in K.syms, e = <<"vis", s>>, Value(K, e, View(R)).v # 0
        PROVE  s \in K.prompted
    BY <1>1, <2>1, PromptlessInvisible DEF Value
  <2>2. ASSUME NEW s \in K.syms, e = <<"tri", s>>, IsTri(K, s)
        PROVE  <<"vis", s>> \in DOMAIN cache'
    BY <1>6, <1>9, <2>2
  <2> QED
    BY <1>3, <2>1, <2>2 DEF ReadsInv
<1> QED
  BY <1>11, <1>12, <1>13 DEF ReadsRegistered

LEMMA InvalidateRegistered ==
    ASSUME TypeOK, ReadsRegistered, ReadsInv, NEW z, RecInvalidate(z), kc' = kc,
           \A c \in K.choices : user'[<<"pick", c>>] \in Members(K, c) \cup {NoItem}
    PROVE  ReadsRegistered' /\ ReadsInv'
<1>1. K' = K
  BY DEF K
<1>2. \A e \in DOMAIN cache' : /\ e \in DOMAIN cache /\ cache'[e] = cache[e]
                               /\ ItemOf(e) \notin Invalidated(z)
  BY DEF RecInvalidate
<1>3. \A e \in DOMAIN cache' : \A f \in DOMAIN cache : ItemOf(f) = ItemOf(e) => f \in DOMAIN cache'
  BY DEF RecInvalidate
<1>4. DependentsCoverReads'
  BY <1>1, <1>2 DEF DependentsCoverReads, ReadsRegistered
<1>5. VisibilityFirst'
  BY <1>1, <1>2, <1>3 DEF VisibilityFirst, ReadsRegistered, ItemOf
<1>6. ReadsInv'
  BY <1>1, <1>2, <1>3 DEF ReadsInv, ItemOf
<1> QED
  BY <1>4, <1>5, <1>6 DEF ReadsRegistered

(* What _rec_invalidate relies on holds of the evaluation the code has:    *)
(* _build_dep registers every item with all that its computations read,    *)
(* short circuits, warnings about selects and the selection of choices     *)
(* included, and nothing is cached before the visibility that flags it.    *)
THEOREM CodeReadsRegistered ==
    ASSUME NEW depth, TheEvaluation(depth)
    PROVE  Spec => []ReadsRegistered
<1>1. Init => ReadsRegistered /\ ReadsInv
  BY DEF Init, ReadsRegistered, DependentsCoverReads, VisibilityFirst, ReadsInv, K,
         UserEntries, AttrOf
<1>2. TypeOK /\ ReadsRegistered /\ ReadsInv /\ [Next]_vars => ReadsRegistered' /\ ReadsInv'
  <2> SUFFICES ASSUME TypeOK, ReadsRegistered, ReadsInv, [Next]_vars
               PROVE  ReadsRegistered' /\ ReadsInv'
    OBVIOUS
  <2>1. ASSUME NEW e \in K.asked, Fill(e) PROVE ReadsRegistered' /\ ReadsInv'
    BY <2>1, FillRegistered
  <2>2. ASSUME kc' = kc, cache' = cache \/ \E z : RecInvalidate(z),
               \A c \in K.choices : user'[<<"pick", c>>] \in Members(K, c) \cup {NoItem}
        PROVE  ReadsRegistered' /\ ReadsInv'
    <3>1. CASE cache' = cache
      BY <2>2, <3>1 DEF ReadsRegistered, DependentsCoverReads, VisibilityFirst, ReadsInv, K
    <3> QED
      BY <2>2, <3>1, InvalidateRegistered
  <2>3. ASSUME NEW s \in K.syms, NEW v \in K.inputs[s], SetValue(s, v)
        PROVE  ReadsRegistered' /\ ReadsInv'
    <3>1. K.choiceOf[s] # NoItem => s \in Members(K, K.choiceOf[s])
      BY DEF TheEvaluation, Given, WellFormed, ChoicesRight, TypeOK, K
    <3>2. CASE K.choiceOf[s] # NoItem /\ v = 2
      <4>1. user' = [user EXCEPT ![<<"user", s>>] = v, ![<<"pick", K.choiceOf[s]>>] = s]
        BY <2>3, <3>2 DEF SetValue
      <4>2. RecInvalidate(K.choiceOf[s]) /\ kc' = kc
        BY <2>3, <3>2 DEF SetValue
      <4>3. ASSUME NEW c \in K.choices
            PROVE  user'[<<"pick", c>>] \in Members(K, c) \cup {NoItem}
        <5>1. <<"pick", c>> \in DOMAIN user /\ <<"pick", c>> # <<"user", s>>
          BY DEF TypeOK, UserEntries
        <5>2. CASE c = K.choiceOf[s]
          BY <3>1, <3>2, <4>1, <5>1, <5>2
        <5>3. CASE c # K.choiceOf[s]
          <6>1. <<"pick", c>> # <<"pick", K.choiceOf[s]>>
            BY <5>3
          <6> QED BY <4>1, <5>1, <6>1 DEF ReadsInv
        <5> QED BY <5>2, <5>3
      <4> QED BY <2>2, <4>2, <4>3
    <3>3. CASE ~(K.choiceOf[s] # NoItem /\ v = 2)
      <4>1. user' = [user EXCEPT ![<<"user", s>>] = v] /\ RecInvalidateIfHasPrompt(s) /\ kc' = kc
        BY <2>3, <3>3 DEF SetValue
      <4>2. \A c \in K.choices : user'[<<"pick", c>>] = user[<<"pick", c>>]
        BY <4>1 DEF TypeOK, UserEntries
      <4>3. cache' = cache \/ RecInvalidate(s)
        BY <4>1 DEF RecInvalidateIfHasPrompt
      <4> QED BY <2>2, <4>1, <4>2, <4>3 DEF ReadsInv
    <3> QED BY <3>2, <3>3
  <2>4. ASSUME NEW s \in K.syms, UnsetValue(s) PROVE ReadsRegistered' /\ ReadsInv'
    <3>1. \A c \in K.choices : user'[<<"pick", c>>] \in Members(K, c) \cup {NoItem}
      <4>1. \A c \in K.choices : user'[<<"pick", c>>] = user[<<"pick", c>>]
        BY <2>4 DEF UnsetValue, TypeOK, UserEntries
      <4> QED BY <4>1 DEF ReadsInv
    <3> QED
      BY <2>2, <2>4, <3>1 DEF UnsetValue, RecInvalidateIfHasPrompt
  <2>5. ASSUME NEW c \in K.choices, NEW v \in K.inputs[c], SetMode(c, v)
        PROVE  ReadsRegistered' /\ ReadsInv'
    <3>1. \A d \in K.choices : user'[<<"pick", d>>] \in Members(K, d) \cup {NoItem}
      <4>1. \A d \in K.choices : user'[<<"pick", d>>] = user[<<"pick", d>>]
        BY <2>5 DEF SetMode, TypeOK, UserEntries
      <4> QED BY <4>1 DEF ReadsInv
    <3> QED
      BY <2>2, <2>5, <3>1 DEF SetMode
  <2>6. ASSUME NEW c \in K.choices, UnsetChoice(c) PROVE ReadsRegistered' /\ ReadsInv'
    <3>1. \A d \in K.choices : user'[<<"pick", d>>] \in Members(K, d) \cup {NoItem}
      BY <2>6 DEF UnsetChoice, ReadsInv, TypeOK, UserEntries
    <3> QED
      BY <2>2, <2>6, <3>1 DEF UnsetChoice
  <2>7. CASE UNCHANGED vars
    BY <2>7, <2>2 DEF vars, ReadsInv
  <2> QED BY <2>1, <2>3, <2>4, <2>5, <2>6, <2>7 DEF Next
<1> QED BY <1>1, <1>2, TypeCorrect, PTL DEF Spec

-----------------------------------------------------------------------------
(* The result of a computation depends only on what it reports to read: x  *)
(* is the result from the entries a and y the one from b.                  *)
Like(a, b, x, y) == Same(a, b, x.r) => y = x

LEMMA LikeParts ==
    ASSUME NEW a, NEW b
    PROVE  /\ \A e : Like(a, b, Read(a, e), Read(b, e))
           /\ \A v : Like(a, b, Ret(v), Ret(v))
           /\ \A x, y, f, g : Like(a, b, x, y) /\ (y = x => Like(a, b, f, g)) =>
                 /\ Like(a, b, Also(x, f), Also(y, g))
                 /\ Like(a, b, MinOf(x, f), MinOf(y, g))
                 /\ Like(a, b, MaxOf(x, f), MaxOf(y, g))
           /\ \A x, y, f, g : /\ Like(a, b, x, y) /\ x.r \subseteq f.r
                              /\ y = x => Like(a, b, f, g)
                              => Like(a, b, f, g)
<1>1. \A e : Like(a, b, Read(a, e), Read(b, e))
  BY DEF Like, Same, Read
<1>2. ASSUME NEW x, NEW y, NEW f, NEW g, NEW h,
             Like(a, b, x, y), x.r \subseteq h.r, f.r \subseteq h.r,
             y = x => Like(a, b, f, g), Same(a, b, h.r)
      PROVE  y = x /\ g = f
  BY <1>2 DEF Like, Same
<1>3. \A x, f : /\ x.r \subseteq Also(x, f).r /\ f.r \subseteq Also(x, f).r
                /\ x.r \subseteq MinOf(x, f).r /\ f.r \subseteq MinOf(x, f).r
                /\ x.r \subseteq MaxOf(x, f).r /\ f.r \subseteq MaxOf(x, f).r
  BY DEF Also, MinOf, MaxOf
<1>4. ASSUME NEW x, NEW y, NEW f, NEW g,
             Like(a, b, x, y), y = x => Like(a, b, f, g)
      PROVE  /\ Like(a, b, Also(x, f), Also(y, g))
             /\ Like(a, b, MinOf(x, f), MinOf(y, g))
             /\ Like(a, b, MaxOf(x, f), MaxOf(y, g))
  <2>1. Same(a, b, Also(x, f).r) => y = x /\ g = f
    BY <1>2, <1>3, <1>4
  <2>2. Same(a, b, MinOf(x, f).r) => y = x /\ g = f
    BY <1>2, <1>3, <1>4
  <2>3. Same(a, b, MaxOf(x, f).r) => y = x /\ g = f
    BY <1>2, <1>3, <1>4
  <2> QED BY <2>1, <2>2, <2>3 DEF Like
<1>5. ASSUME NEW x, NEW y, NEW f, NEW g, Like(a, b, x, y), x.r \subseteq f.r,
             y = x => Like(a, b, f, g)
      PROVE  Like(a, b, f, g)
  BY <1>5 DEF Like, Same
<1>6. \A v : Like(a, b, Ret(v), Ret(v))
  BY DEF Like
<1> QED BY <1>1, <1>4, <1>5, <1>6

LEMMA LikeTypes ==
    ASSUME NEW a, NEW b, NEW k
    PROVE  /\ \A c : Like(a, b, ChoiceType(k, c, a), ChoiceType(k, c, b))
           /\ \A c : Like(a, b, ChoiceTri(k, c, a), ChoiceTri(k, c, b))
           /\ \A s : Like(a, b, SymType(k, s, a), SymType(k, s, b))
<1>1. Like(a, b, TypeByModules(k, a), TypeByModules(k, b))
  <2>1. \A x, y : Like(a, b, x, y) => Like(a, b, TypeUnder(x), TypeUnder(y))
    BY LikeParts DEF TypeUnder
  <2> QED BY <2>1, LikeParts DEF TypeByModules
<1>2. \A c : Like(a, b, ChoiceType(k, c, a), ChoiceType(k, c, b))
  BY <1>1, LikeParts DEF ChoiceType
<1>3. ASSUME NEW c PROVE Like(a, b, ChoiceTri(k, c, a), ChoiceTri(k, c, b))
  <2>1. ASSUME NEW x, NEW y, NEW f, NEW g, Like(a, b, x, y), Like(a, b, f, g)
        PROVE  Like(a, b, WithinMode(k, c, x, f), WithinMode(k, c, y, g))
    <3>1. y = x => Like(a, b, Also(x, Ret(IF x.v = Unset THEN IF c \in k.optional THEN 0 ELSE 1
                                          ELSE Max2(IF c \in k.optional THEN 0 ELSE 1, x.v))),
                              Also(y, Ret(IF y.v = Unset THEN IF c \in k.optional THEN 0 ELSE 1
                                          ELSE Max2(IF c \in k.optional THEN 0 ELSE 1, y.v))))
      BY <2>1, LikeParts
    <3> QED BY <2>1, <3>1, LikeParts DEF WithinMode
  <2>2. \A x, y : Like(a, b, x, y) => Like(a, b, YesIfBool(x), YesIfBool(y))
    BY LikeParts DEF YesIfBool
  <2>3. ASSUME NEW x, NEW y, Like(a, b, x, y)
        PROVE  Like(a, b, PromoteMode(k, c, x, a), PromoteMode(k, c, y, b))
    <3>1. x.r \subseteq PromoteMode(k, c, x, a).r
      BY DEF PromoteMode, Also
    <3>2. y = x => Like(a, b, PromoteMode(k, c, x, a), PromoteMode(k, c, y, b))
      BY <1>2, <2>2, <2>3, LikeParts DEF PromoteMode
    <3> QED BY <2>3, <3>1, <3>2, LikeParts
  <2> QED BY <2>1, <2>3, LikeParts DEF ChoiceTri
<1>4. \A s : Like(a, b, SymType(k, s, a), SymType(k, s, b))
  <2>1. \A x, y : Like(a, b, x, y) => Like(a, b, TypeInMode(k, x, a), TypeInMode(k, y, b))
    BY <1>1, LikeParts DEF TypeInMode
  <2> QED BY <1>3, <2>1, LikeParts DEF SymType
<1> QED BY <1>2, <1>3, <1>4

LEMMA LikeOperand ==
    ASSUME NEW a, NEW b, NEW k, NEW op
    PROVE  /\ Leaf(op) => Like(a, b, SymToNum(k, op, a), SymToNum(k, op, b))
           /\ Like(a, b, Operand(k, op, a), Operand(k, op, b))
<1>1. CASE op[1] = "const"
  BY <1>1, LikeParts DEF SymToNum, Operand
<1>2. CASE op[1] = "item"
  BY <1>2, LikeParts DEF SymToNum, Operand
<1>3. CASE ~Leaf(op)
  BY <1>3, LikeParts DEF Operand, Leaf
<1> QED BY <1>1, <1>2, <1>3 DEF Leaf

LEMMA LikeExprStep ==
    ASSUME NEW a, NEW b, NEW depth, Equations(depth), NEW e \in DOMAIN depth,
           NEW k, k.syms \cap k.choices = {},
           \A part \in DOMAIN depth : depth[part] < depth[e] =>
               Like(a, b, ExprValue(k, part, a), ExprValue(k, part, b))
    PROVE  Like(a, b, ExprValue(k, e, a), ExprValue(k, e, b))
<1>1. /\ ExprValue(k, e, a) = ExprStep(k, e, a)
      /\ ExprValue(k, e, b) = ExprStep(k, e, b)
  BY DEF Equations
<1>2. CASE e[1] = "const"
  BY <1>1, <1>2, LikeParts DEF ExprStep
<1>3. CASE e[1] = "item"
  <2>1. CASE e[2] \in k.choices
    <3>1. ExprStep(k, e, a) = ChoiceTri(k, e[2], a) /\ ExprStep(k, e, b) = ChoiceTri(k, e[2], b)
      BY <1>3, <2>1 DEF ExprStep
    <3> QED BY <1>1, <3>1, LikeTypes
  <2>2. CASE e[2] \notin k.choices
    BY <1>1, <1>3, <2>2, LikeParts DEF ExprStep
  <2> QED BY <2>1, <2>2
<1>4. CASE e[1] = "not" /\ e[2] \in DOMAIN depth /\ depth[e[2]] < depth[e]
  <2>1. \A x, y : Like(a, b, x, y) => Like(a, b, NotValue(x), NotValue(y))
    BY LikeParts DEF NotValue
  <2> QED BY <1>1, <1>4, <2>1 DEF ExprStep
<1>5. CASE /\ e[1] \in {"and", "or"}
           /\ \A part \in {e[2], e[3]} : part \in DOMAIN depth /\ depth[part] < depth[e]
  <2> DEFINE x == ExprValue(k, e[2], a)
             y == ExprValue(k, e[2], b)
  <2>1. Like(a, b, x, y) /\ Like(a, b, ExprValue(k, e[3], a), ExprValue(k, e[3], b))
    BY <1>5
  <2>2. /\ ExprStep(k, e, a) = IF e[1] = "and" THEN AndValue(k, x, e[3], a)
                                              ELSE OrValue(k, x, e[3], a)
        /\ ExprStep(k, e, b) = IF e[1] = "and" THEN AndValue(k, y, e[3], b)
                                              ELSE OrValue(k, y, e[3], b)
    BY <1>5 DEF ExprStep
  <2> HIDE DEF x, y
  <2>3. /\ x.r \subseteq AndValue(k, x, e[3], a).r
        /\ x.r \subseteq OrValue(k, x, e[3], a).r
    BY DEF AndValue, OrValue, MinOf, MaxOf
  <2>4. y = x => /\ Like(a, b, AndValue(k, x, e[3], a), AndValue(k, y, e[3], b))
                 /\ Like(a, b, OrValue(k, x, e[3], a), OrValue(k, y, e[3], b))
    BY <2>1, LikeParts DEF AndValue, OrValue
  <2>5. /\ Like(a, b, AndValue(k, x, e[3], a), AndValue(k, y, e[3], b))
        /\ Like(a, b, OrValue(k, x, e[3], a), OrValue(k, y, e[3], b))
    BY <2>1, <2>3, <2>4, LikeParts
  <2> QED BY <1>1, <2>2, <2>5
<1>6. CASE /\ e[1] \in {"=", "!=", "<", "<=", ">", ">="}
           /\ \A part \in {e[2], e[3]} : part \in DOMAIN depth /\ Leaf(part)
  <2>1. /\ ExprStep(k, e, a) = Compared(e[1], SymToNum(k, e[2], a), SymToNum(k, e[3], a))
        /\ ExprStep(k, e, b) = Compared(e[1], SymToNum(k, e[2], b), SymToNum(k, e[3], b))
    BY <1>6 DEF ExprStep
  <2>2. ASSUME NEW x, NEW y, NEW f, NEW g, Like(a, b, x, y), Like(a, b, f, g)
        PROVE  Like(a, b, Compared(e[1], x, f), Compared(e[1], y, g))
    <3>1. \A h : y = x /\ h = f =>
             Ret(IF Holds(e[1], x.v, f.v) THEN 2 ELSE 0) = Ret(IF Holds(e[1], y.v, h.v) THEN 2 ELSE 0)
      OBVIOUS
    <3>2. y = x => Like(a, b, Also(f, Ret(IF Holds(e[1], x.v, f.v) THEN 2 ELSE 0)),
                              Also(g, Ret(IF Holds(e[1], y.v, g.v) THEN 2 ELSE 0)))
      BY <2>2, <3>1, LikeParts
    <3> QED BY <2>2, <3>2, LikeParts DEF Compared
  <2> QED BY <1>1, <1>6, <2>1, <2>2, LikeOperand
<1> QED BY <1>2, <1>3, <1>4, <1>5, <1>6 DEF Equations, Finite, Leaf

LEMMA LikeExpr ==
    ASSUME NEW a, NEW b, NEW depth, Equations(depth), NEW e \in DOMAIN depth,
           NEW k, k.syms \cap k.choices = {}
    PROVE  Like(a, b, ExprValue(k, e, a), ExprValue(k, e, b))
<1> DEFINE bad == {x \in DOMAIN depth : ~Like(a, b, ExprValue(k, x, a), ExprValue(k, x, b))}
<1> SUFFICES ASSUME e \in bad PROVE FALSE
  OBVIOUS
<1>1. PICK x \in bad : \A y \in bad : depth[x] <= depth[y]
  BY Shallowest DEF Equations, Finite
<1>2. \A part \in DOMAIN depth : depth[part] < depth[x] =>
          Like(a, b, ExprValue(k, part, a), ExprValue(k, part, b))
  BY <1>1 DEF Equations, Finite
<1> QED BY <1>1, <1>2, LikeExprStep

(* Loops: what comes after the first hit is not looked at. *)
LEMMA LeastIsMin ==
    ASSUME NEW S, S \subseteq Nat, NEW m \in S, \A n \in S : m <= n
    PROVE  Min(S) = m
<1>1. Min(S) \in S /\ \A n \in S : Min(S) <= n
  BY DEF Min
<1>2. Min(S) \in Nat /\ m \in Nat /\ Min(S) <= m /\ m <= Min(S)
  BY <1>1
<1> HIDE DEF Min
<1> QED BY <1>2

LEMMA LikeFirst ==
    ASSUME NEW a, NEW b, NEW xs, NEW ys, DOMAIN xs \subseteq Nat, DOMAIN ys = DOMAIN xs,
           \A n \in DOMAIN xs : Like(a, b, xs[n], ys[n])
    PROVE  /\ Like(a, b, FirstOf(xs), FirstOf(ys))
           /\ FirstOf(xs).v # 0 /\ Same(a, b, FirstOf(xs).r) =>
                  ys[FirstOf(xs).v] = xs[FirstOf(xs).v]
<1> DEFINE S == DOMAIN xs
           hits(rs) == {n \in S : rs[n].v # 0}
           tried(rs) == {n \in S : \A h \in hits(rs) : n <= h}
           of(rs) == [v |-> IF hits(rs) = {} THEN 0 ELSE Min(hits(rs)),
                      r |-> UNION {rs[n].r : n \in tried(rs)}]
<1>1. FirstOf(xs) = of(xs) /\ FirstOf(ys) = of(ys)
  BY DEF FirstOf
<1> SUFFICES ASSUME Same(a, b, FirstOf(xs).r)
             PROVE  /\ FirstOf(ys) = FirstOf(xs)
                    /\ FirstOf(xs).v # 0 => ys[FirstOf(xs).v] = xs[FirstOf(xs).v]
  BY DEF Like
<1>2. ASSUME NEW n \in tried(xs) PROVE ys[n] = xs[n]
  <2>1. FirstOf(xs).r = UNION {xs[j].r : j \in tried(xs)}
    BY <1>1
  <2>2. xs[n].r \in {xs[j].r : j \in tried(xs)}
    OBVIOUS
  <2>3. xs[n].r \subseteq FirstOf(xs).r
    BY <2>1, <2>2, Zenon
  <2> QED BY <2>3 DEF Like, Same
<1>3. ASSUME tried(ys) = tried(xs), hits(ys) = {} <=> hits(xs) = {},
             hits(xs) # {} => Min(hits(ys)) = Min(hits(xs))
      PROVE  FirstOf(ys) = FirstOf(xs)
  <2>1. {ys[n].r : n \in tried(xs)} = {xs[n].r : n \in tried(xs)}
    BY <1>2
  <2>2. UNION {ys[n].r : n \in tried(ys)} = UNION {xs[n].r : n \in tried(xs)}
    BY <1>3, <2>1
  <2>3. FirstOf(ys).v = FirstOf(xs).v
    BY <1>1, <1>3
  <2>4. /\ FirstOf(xs) = [v |-> FirstOf(xs).v, r |-> FirstOf(xs).r]
        /\ FirstOf(ys) = [v |-> FirstOf(ys).v, r |-> FirstOf(ys).r]
    BY DEF FirstOf
  <2>5. FirstOf(ys).r = FirstOf(xs).r
    <3>1. /\ FirstOf(xs).r = UNION {xs[n].r : n \in tried(xs)}
          /\ FirstOf(ys).r = UNION {ys[n].r : n \in tried(ys)}
      BY <1>1
    <3> HIDE DEF tried
    <3> QED BY <2>2, <3>1
  <2> QED BY <2>3, <2>4, <2>5
<1>4. CASE hits(xs) = {}
  <2>1. tried(xs) = S
    BY <1>4
  <2>2. hits(ys) = {} /\ tried(ys) = S
    BY <1>2, <1>4, <2>1
  <2>3. FirstOf(xs).v = 0
    BY <1>1, <1>4
  <2>4. FirstOf(ys) = FirstOf(xs)
    BY <1>3, <1>4, <2>1, <2>2
  <2> QED BY <2>3, <2>4
<1>5. CASE hits(xs) # {}
  <2> DEFINE m == Min(hits(xs))
  <2>1. m \in hits(xs) /\ \A n \in hits(xs) : m <= n
    <3>1. PICK x \in hits(xs) : \A n \in hits(xs) : x <= n
      <4>1. PICK x \in hits(xs) : \A n \in hits(xs) : ~(<<n, x>> \in OpToRel(<, Nat))
        BY <1>5, NatLessThanWellFounded, WFMin
      <4>2. ASSUME NEW n \in hits(xs) PROVE x <= n
        <5>1. ~(n < x)
          BY <4>1 DEF OpToRel
        <5> QED BY <5>1
      <4> QED BY <4>2
    <3> HIDE DEF hits
    <3>2. hits(xs) \subseteq Nat
      BY DEF hits
    <3> QED BY <3>1, <3>2, LeastIsMin
  <2> HIDE DEF m
  <2>2. m \in tried(xs) /\ \A n \in tried(xs) : n <= m
    BY <2>1
  <2>3. m \in hits(ys)
    BY <1>2, <2>1, <2>2
  <2>4. ASSUME NEW n \in hits(ys) PROVE m <= n
    <3> SUFFICES ASSUME n < m PROVE FALSE
      BY <2>1
    <3>1. n \in tried(xs)
      BY <2>1
    <3> QED BY <1>2, <2>1, <3>1
  <2>5. Min(hits(ys)) = m
    <3>1. hits(ys) \subseteq Nat
      OBVIOUS
    <3> HIDE DEF hits
    <3> QED BY <2>3, <2>4, <3>1, LeastIsMin
  <2>6. tried(xs) = {n \in S : n <= m} /\ tried(ys) = {n \in S : n <= m}
    <3>1. ASSUME NEW H, H \subseteq Nat, m \in H, \A n \in H : m <= n
          PROVE  {n \in S : \A h \in H : n <= h} = {n \in S : n <= m}
      BY <3>1
    <3> QED BY <2>1, <2>3, <2>4, <3>1
  <2>7. FirstOf(ys) = FirstOf(xs)
    BY <1>3, <1>5, <2>3, <2>5, <2>6 DEF m
  <2>8. FirstOf(xs).v = m
    BY <1>1, <1>5 DEF m
  <2> QED BY <1>2, <2>2, <2>7, <2>8
<1> QED BY <1>4, <1>5

LEMMA LikeActive ==
    ASSUME NEW a, NEW b, NEW depth, Equations(depth), NEW k, k.syms \cap k.choices = {},
           NEW list, DOMAIN list \subseteq Nat, Conditions(list) \subseteq DOMAIN depth
    PROVE  Like(a, b, FirstActive(k, list, a), FirstActive(k, list, b))
<1> DEFINE conds(view) == [n \in DOMAIN list |-> ExprValue(k, list[n][Len(list[n])], view)]
           end(first, cs) == Ret([at |-> first.v, cond |-> IF first.v = 0 THEN 0 ELSE cs[first.v].v])
<1>1. \A view : FirstActive(k, list, view) = Also(FirstOf(conds(view)), end(FirstOf(conds(view)), conds(view)))
  BY DEF FirstActive
<1>2. \A n \in DOMAIN list : Like(a, b, conds(a)[n], conds(b)[n])
  BY LikeExpr DEF Conditions
<1>3. DOMAIN conds(a) = DOMAIN list /\ DOMAIN conds(b) = DOMAIN list
  OBVIOUS
<1> HIDE DEF conds
<1>4. /\ Like(a, b, FirstOf(conds(a)), FirstOf(conds(b)))
      /\ FirstOf(conds(a)).v # 0 /\ Same(a, b, FirstOf(conds(a)).r) =>
             conds(b)[FirstOf(conds(a)).v] = conds(a)[FirstOf(conds(a)).v]
  BY <1>2, <1>3, LikeFirst
<1>5. FirstActive(k, list, a).r = FirstOf(conds(a)).r
  BY <1>1 DEF Also, Ret
<1> SUFFICES ASSUME Same(a, b, FirstOf(conds(a)).r)
             PROVE  FirstActive(k, list, b) = FirstActive(k, list, a)
  BY <1>5 DEF Like
<1>6. FirstOf(conds(b)) = FirstOf(conds(a))
  BY <1>4 DEF Like
<1>7. end(FirstOf(conds(b)), conds(b)) = end(FirstOf(conds(a)), conds(a))
  BY <1>4, <1>6
<1> QED BY <1>1, <1>6, <1>7

LEMMA LikeVisibility ==
    ASSUME NEW a, NEW b, NEW k, NEW depth, Given(k, depth), NEW i \in k.syms \cup k.choices
    PROVE  Like(a, b, Visibility(k, i, a), Visibility(k, i, b))
<1> k.syms \cap k.choices = {} /\ Equations(depth)
  BY DEF Given, WellFormed
<1>1. Like(a, b, StrongestPrompt(k, k.prompts[i], a), StrongestPrompt(k, k.prompts[i], b))
  <2> DEFINE prompts == k.prompts[i]
             conds(view) == [n \in DOMAIN prompts |-> ExprValue(k, prompts[n], view)]
  <2>1. \A n \in DOMAIN prompts : Like(a, b, conds(a)[n], conds(b)[n])
    BY ItemAsks, LikeExpr DEF Asks
  <2> DEFINE of(view) == [v |-> Max({0} \cup {conds(view)[n].v : n \in DOMAIN prompts}),
                          r |-> UNION {conds(view)[n].r : n \in DOMAIN prompts}]
  <2>2. StrongestPrompt(k, prompts, a) = of(a) /\ StrongestPrompt(k, prompts, b) = of(b)
    BY DEF StrongestPrompt
  <2> HIDE DEF conds
  <2>3. ASSUME Same(a, b, StrongestPrompt(k, prompts, a).r), NEW n \in DOMAIN prompts
        PROVE  conds(b)[n] = conds(a)[n]
    <3>1. StrongestPrompt(k, prompts, a).r = UNION {conds(a)[j].r : j \in DOMAIN prompts}
      BY <2>2
    <3>2. conds(a)[n].r \in {conds(a)[j].r : j \in DOMAIN prompts}
      OBVIOUS
    <3>3. conds(a)[n].r \subseteq StrongestPrompt(k, prompts, a).r
      BY <3>1, <3>2, Zenon
    <3> QED BY <2>1, <2>3, <3>3 DEF Like, Same
  <2>4. ASSUME Same(a, b, StrongestPrompt(k, prompts, a).r)
        PROVE  StrongestPrompt(k, prompts, b) = StrongestPrompt(k, prompts, a)
    <3>1. /\ {conds(b)[n].v : n \in DOMAIN prompts} = {conds(a)[n].v : n \in DOMAIN prompts}
          /\ {conds(b)[n].r : n \in DOMAIN prompts} = {conds(a)[n].r : n \in DOMAIN prompts}
      BY <2>3, <2>4
    <3> QED BY <2>2, <3>1
  <2> QED BY <2>4 DEF Like
<1>2. ASSUME NEW x, NEW y, Like(a, b, x, y)
      PROVE  Like(a, b, PromoteVisibility(k, i, x, a), PromoteVisibility(k, i, y, b))
  <2>1. x.r \subseteq PromoteVisibility(k, i, x, a).r
    BY DEF PromoteVisibility, Also
  <2>2. \A u, w : Like(a, b, u, w) => Like(a, b, YesUnlessTristate(u), YesUnlessTristate(w))
    BY LikeParts DEF YesUnlessTristate
  <2>3. /\ Like(a, b, YesUnlessTristate(ChoiceType(k, i, a)), YesUnlessTristate(ChoiceType(k, i, b)))
        /\ Like(a, b, YesUnlessTristate(SymType(k, i, a)), YesUnlessTristate(SymType(k, i, b)))
    BY <2>2, LikeTypes
  <2>4. y = x => Like(a, b, PromoteVisibility(k, i, x, a), PromoteVisibility(k, i, y, b))
    BY <1>2, <2>3, LikeParts DEF PromoteVisibility
  <2> QED BY <1>2, <2>1, <2>4, LikeParts
<1>3. ASSUME NEW x, NEW u, NEW w, Like(a, b, u, w)
      PROVE  Like(a, b, VisibilityInMode(k, i, x, u, a), VisibilityInMode(k, i, x, w, b))
  <2>1. Like(a, b, x, x)
    BY DEF Like
  <2>2. /\ Like(a, b, PromoteVisibility(k, i, x, a), PromoteVisibility(k, i, x, b))
        /\ Like(a, b, Also(x, Ret(0)), Also(x, Ret(0)))
    BY <1>2, <2>1 DEF Like
  <2> QED BY <1>3, <2>2, LikeParts DEF VisibilityInMode
<1>4. ASSUME NEW x, NEW y, Like(a, b, x, y)
      PROVE  Like(a, b, VisibilityByPrompt(k, i, x, a), VisibilityByPrompt(k, i, y, b))
  <2>1. x.r \subseteq VisibilityByPrompt(k, i, x, a).r
    BY DEF VisibilityByPrompt, VisibilityInMode, PromoteVisibility, Also
  <2>2. ASSUME y = x
        PROVE  Like(a, b, VisibilityByPrompt(k, i, x, a), VisibilityByPrompt(k, i, y, b))
    <3>1. Like(a, b, PromoteVisibility(k, i, x, a), PromoteVisibility(k, i, x, b))
      BY <1>2, <1>4, <2>2
    <3>2. \A c : Like(a, b, VisibilityInMode(k, i, x, ChoiceTri(k, c, a), a),
                            VisibilityInMode(k, i, x, ChoiceTri(k, c, b), b))
      BY <1>3, LikeTypes
    <3> QED BY <2>2, <3>1, <3>2 DEF VisibilityByPrompt
  <2> QED BY <1>4, <2>1, <2>2, LikeParts
<1> QED BY <1>1, <1>4 DEF Visibility

LEMMA LikeExprs ==
    ASSUME NEW a, NEW b, NEW k, NEW depth, Given(k, depth), NEW s \in k.syms
    PROVE  /\ \A e \in {k.rev[s], k.weak[s], k.direct[s]} \cup Nth(k.defaults[s], 1) :
                 Like(a, b, ExprValue(k, e, a), ExprValue(k, e, b))
           /\ Like(a, b, NeverM(k, s, a), NeverM(k, s, b))
           /\ \A list \in {k.defaults[s], k.ranges[s]} :
                 Like(a, b, FirstActive(k, list, a), FirstActive(k, list, b))
<1> k.syms \cap k.choices = {} /\ Equations(depth)
  BY DEF Given, WellFormed
<1>1. \A e \in {k.rev[s], k.weak[s], k.direct[s]} \cup Nth(k.defaults[s], 1) :
          Like(a, b, ExprValue(k, e, a), ExprValue(k, e, b))
  BY SymbolAsks, LikeExpr DEF Asks
<1>2. \A x, y : Like(a, b, x, y) => Like(a, b, NeverMOfType(k, s, x, a), NeverMOfType(k, s, y, b))
  <2> SUFFICES ASSUME NEW x, NEW y, Like(a, b, x, y)
               PROVE  Like(a, b, NeverMOfType(k, s, x, a), NeverMOfType(k, s, y, b))
    OBVIOUS
  <2>1. x.r \subseteq NeverMOfType(k, s, x, a).r
    BY DEF NeverMOfType, Also
  <2>2. Like(a, b, ExprValue(k, k.weak[s], a), ExprValue(k, k.weak[s], b))
    BY <1>1
  <2>3. y = x => Like(a, b, NeverMOfType(k, s, x, a), NeverMOfType(k, s, y, b))
    <3>1. /\ Like(a, b, Also(x, Ret(2)), Also(x, Ret(2)))
          /\ Like(a, b, Also(x, ExprValue(k, k.weak[s], a)), Also(x, ExprValue(k, k.weak[s], b)))
      BY <2>2, LikeParts DEF Like
    <3> QED BY <3>1 DEF NeverMOfType
  <2> QED BY <2>1, <2>3, LikeParts
<1>3. Like(a, b, NeverM(k, s, a), NeverM(k, s, b))
  BY <1>2, LikeTypes DEF NeverM
<1>4. ASSUME NEW list \in {k.defaults[s], k.ranges[s]}
      PROVE  Like(a, b, FirstActive(k, list, a), FirstActive(k, list, b))
  <2>1. DOMAIN list \subseteq Nat
    BY DEF Given, WellFormed, ListsRight
  <2>2. Conditions(list) \subseteq DOMAIN depth
    BY ItemAsks, SymbolAsks DEF Asks
  <2> QED BY <2>1, <2>2, LikeActive
<1> QED BY <1>1, <1>3, <1>4

LEMMA LikeWarning ==
    ASSUME NEW a, NEW b, NEW k, NEW depth, Given(k, depth), NEW s \in k.syms
    PROVE  Like(a, b, SelectWarning(k, s, k.selectors[s], a), SelectWarning(k, s, k.selectors[s], b))
<1> k.syms \cap k.choices = {} /\ Equations(depth)
  BY DEF Given, WellFormed
<1> DEFINE by(n) == k.selectors[s][n][1]
           both(n) == <<"and", <<"item", by(n)>>, k.selectors[s][n][2]>>
           warning(n, view) == WarningBy(k, by(n), ExprValue(k, both(n), view),
                                         ExprValue(k, k.direct[s], view), view)
           S == DOMAIN k.selectors[s]
           of(view) == [v |-> 0, r |-> UNION {warning(n, view).r : n \in S}]
<1>1. ASSUME NEW n \in S PROVE Like(a, b, warning(n, a), warning(n, b))
  <2>1. both(n) \in DOMAIN depth
    BY ExpressionsAreFinite DEF SymExpressions
  <2>2. by(n) \in k.syms
    BY DEF Given, WellFormed, SelectorsRight
  <2>3. k.direct[by(n)] \in DOMAIN depth
    BY <2>2, ExpressionsAreFinite DEF SymExpressions
  <2>4. /\ Like(a, b, ExprValue(k, both(n), a), ExprValue(k, both(n), b))
        /\ Like(a, b, ExprValue(k, k.direct[by(n)], a), ExprValue(k, k.direct[by(n)], b))
    BY <2>1, <2>3, LikeExpr
  <2>5. Like(a, b, ExprValue(k, k.direct[s], a), ExprValue(k, k.direct[s], b))
    BY LikeExprs
  <2>6. ASSUME NEW x, NEW y, NEW f, NEW g, Like(a, b, x, y), Like(a, b, f, g)
        PROVE  Like(a, b, WarningBy(k, by(n), x, f, a), WarningBy(k, by(n), y, g, b))
    <3>1. Like(a, b, Also(Read(a, <<"str", by(n)>>), ExprValue(k, k.direct[by(n)], a)),
                     Also(Read(b, <<"str", by(n)>>), ExprValue(k, k.direct[by(n)], b)))
      BY <2>4, LikeParts
    <3>2. x.r \subseteq Also(x, f).r /\ f.r \subseteq Also(x, f).r
          /\ Also(x, f).r \subseteq WarningBy(k, by(n), x, f, a).r
      BY DEF Also, WarningBy
    <3>3. ASSUME y = x, g = f
          PROVE  Like(a, b, WarningBy(k, by(n), x, f, a), WarningBy(k, by(n), y, g, b))
      <4>1. Like(a, b, Also(x, f), Also(y, g))
        BY <2>6, LikeParts
      <4> HIDE DEF by
      <4> QED BY <3>1, <3>3, <4>1, LikeParts DEF WarningBy
    <3> QED BY <2>6, <3>2, <3>3, LikeParts
  <2> HIDE DEF both, by
  <2> QED BY <2>4, <2>5, <2>6
<1>2. SelectWarning(k, s, k.selectors[s], a) = of(a) /\ SelectWarning(k, s, k.selectors[s], b) = of(b)
  BY DEF SelectWarning
<1> HIDE DEF warning, both, by
<1>3. ASSUME Same(a, b, of(a).r) PROVE of(b) = of(a)
  <2>1. ASSUME NEW n \in S PROVE warning(n, b) = warning(n, a)
    <3>1. warning(n, a).r \in {warning(j, a).r : j \in S}
      OBVIOUS
    <3>2. warning(n, a).r \subseteq of(a).r
      BY <3>1, Zenon
    <3> QED BY <1>1, <1>3, <3>2 DEF Like, Same
  <2> QED BY <2>1
<1> QED BY <1>2, <1>3 DEF Like

LEMMA LikeUser ==
    ASSUME NEW a, NEW b, NEW s, NEW vis
    PROVE  Like(a, b, UserValue(s, vis, a), UserValue(s, vis, b))
BY LikeParts DEF UserValue

LEMMA LikeOwn ==
    ASSUME NEW a, NEW b, NEW k, NEW depth, Given(k, depth), NEW s \in k.syms, NEW vis
    PROVE  Like(a, b, OwnValue(k, s, vis, a), OwnValue(k, s, vis, b))
<1> DEFINE first(view) == FirstActive(k, k.defaults[s], view)
           default(view) == DefaultTri(k, s, first(view), view)
           weak(view) == ExprValue(k, k.weak[s], view)
<1>1. Like(a, b, default(a), default(b))
  <2>1. Like(a, b, first(a), first(b)) /\ (first(a).v.at # 0 => first(a).v.at \in DOMAIN k.defaults[s])
    BY LikeExprs, ProperLoops
  <2> DEFINE value(at, view) == ExprValue(k, k.defaults[s][at][1], view)
  <2>2. first(a).v.at # 0 => Like(a, b, value(first(a).v.at, a), value(first(a).v.at, b))
    BY <2>1, LikeExprs DEF Nth
  <2> HIDE DEF first
  <2>3. first(a).v.at # 0 => Like(a, b, MinOf(Ret(first(a).v.cond), value(first(a).v.at, a)),
                                        MinOf(Ret(first(a).v.cond), value(first(a).v.at, b)))
    BY <2>2, LikeParts
  <2> QED BY <2>1, <2>3, LikeParts DEF DefaultTri
<1>2. Like(a, b, weak(a), weak(b)) /\ Like(a, b, ExprValue(k, k.direct[s], a), ExprValue(k, k.direct[s], b))
  BY LikeExprs
<1> HIDE DEF default, weak
<1>3. ASSUME NEW d, NEW w, NEW x, NEW y, Like(a, b, x, y)
      PROVE  Like(a, b, WithImply(vis, d, w, x), WithImply(vis, d, w, y))
  <2>1. Like(a, b, d, d) /\ Like(a, b, w, w)
    BY DEF Like
  <2> DEFINE end(m) == Ret([val |-> IF m.v = 0 THEN d.v ELSE Max2(w.v, d.v),
                            write |-> vis # 0 \/ d.v # 0 \/ m.v # 0])
  <2>2. Like(a, b, Also(x, end(x)), Also(y, end(y)))
    BY <1>3, LikeParts
  <2>3. Like(a, b, Also(w, Also(x, end(x))), Also(w, Also(y, end(y))))
    BY <2>1, <2>2, LikeParts
  <2> QED BY <2>1, <2>3, LikeParts DEF WithImply
<1>4. ASSUME NEW d, NEW w
      PROVE  Like(a, b, Implied(k, s, vis, d, w, a), Implied(k, s, vis, d, w, b))
  BY <1>2, <1>3, LikeParts DEF Implied
<1>5. Like(a, b, Implied(k, s, vis, default(a), weak(a), a), Implied(k, s, vis, default(b), weak(b), b))
  <2>1. /\ default(a).r \subseteq Implied(k, s, vis, default(a), weak(a), a).r
        /\ weak(a).r \subseteq Implied(k, s, vis, default(a), weak(a), a).r
    BY DEF Implied, WithImply, Also
  <2> QED BY <1>1, <1>2, <1>4, <2>1, LikeParts
<1>6. ASSUME NEW x, NEW y, Like(a, b, x, y)
      PROVE  Like(a, b, OwnOrUser(k, s, vis, x, a), OwnOrUser(k, s, vis, y, b))
  <2> DEFINE def(view) == Implied(k, s, vis, default(view), weak(view), view)
             rest(u, view) == IF u.v # Unset THEN Ret([val |-> Min2(u.v, vis), write |-> TRUE])
                              ELSE def(view)
  <2>1. y = x => Like(a, b, rest(x, a), rest(y, b))
    BY <1>5, LikeParts
  <2>2. OwnOrUser(k, s, vis, x, a) = Also(x, rest(x, a)) /\ OwnOrUser(k, s, vis, y, b) = Also(y, rest(y, b))
    BY DEF OwnOrUser, default, weak
  <2> HIDE DEF rest
  <2> QED BY <1>6, <2>1, <2>2, LikeParts
<1> QED BY <1>6, LikeUser DEF OwnValue

LEMMA LikeTri ==
    ASSUME NEW a, NEW b, NEW k, NEW depth, Given(k, depth), NEW s \in k.syms
    PROVE  Like(a, b, TriValue(k, s, a), TriValue(k, s, b))
<1>1. ASSUME NEW own, NEW rev
      PROVE  Like(a, b, WithSelect(k, s, own, rev, a), WithSelect(k, s, own, rev, b))
  <2> DEFINE val == Max2(rev.v, own.v.val)
             result == [val |-> val, write |-> own.v.write \/ rev.v # 0]
             unmet(view) == UnmetSelect(k, s, rev, ExprValue(k, k.direct[s], view), view)
             end(view) == Promoted(result, NeverM(k, s, view))
  <2>1. Like(a, b, unmet(a), unmet(b))
    <3>1. \A x, y : Like(a, b, x, y) => Like(a, b, UnmetSelect(k, s, rev, x, a), UnmetSelect(k, s, rev, y, b))
      BY LikeWarning, LikeParts DEF UnmetSelect
    <3> QED BY <3>1, LikeExprs
  <2>2. Like(a, b, end(a), end(b))
    <3>1. \A x, y : Like(a, b, x, y) => Like(a, b, Promoted(result, x), Promoted(result, y))
      BY LikeParts DEF Promoted
    <3> QED BY <3>1, LikeExprs
  <2>3. Like(a, b, Also(own, rev), Also(own, rev))
    BY DEF Like
  <2> DEFINE select(view) == IF rev.v = 0 THEN Ret(0) ELSE unmet(view)
             rest(view) == IF val # 1 THEN Ret(result) ELSE end(view)
  <2>4. Like(a, b, select(a), select(b)) /\ Like(a, b, rest(a), rest(b))
    BY <2>1, <2>2, LikeParts
  <2>5. \A view : WithSelect(k, s, own, rev, view) = Also(Also(Also(own, rev), select(view)), rest(view))
    BY DEF WithSelect
  <2> HIDE DEF select, rest
  <2>6. Like(a, b, Also(Also(own, rev), select(a)), Also(Also(own, rev), select(b)))
    BY <2>3, <2>4, LikeParts
  <2> QED BY <2>4, <2>5, <2>6, LikeParts
<1>2. ASSUME NEW vis PROVE Like(a, b, PlainTri(k, s, vis, a), PlainTri(k, s, vis, b))
  <2>1. \A own, rev, view : /\ own.r \subseteq WithSelect(k, s, own, rev, view).r
                            /\ rev.r \subseteq WithSelect(k, s, own, rev, view).r
    BY DEF WithSelect, Also
  <2>2. Like(a, b, ExprValue(k, k.rev[s], a), ExprValue(k, k.rev[s], b))
    BY LikeExprs
  <2> QED BY <1>1, <2>1, <2>2, LikeOwn, LikeParts DEF PlainTri
<1>3. ASSUME NEW vis PROVE Like(a, b, MemberTri(k, s, vis, a), MemberTri(k, s, vis, b))
  <2>1. \A x, y : Like(a, b, x, y) => Like(a, b, IfSelected(s, x), IfSelected(s, y))
    BY LikeParts DEF IfSelected
  <2>2. \A x, y : Like(a, b, x, y) => Like(a, b, IfUser(x, vis), IfUser(y, vis))
    BY LikeParts DEF IfUser
  <2> QED BY <2>1, <2>2, LikeUser, LikeParts DEF MemberTri
<1>4. \A x, y : Like(a, b, x, y) => Like(a, b, TriOfVisible(k, s, x, a), TriOfVisible(k, s, y, b))
  BY <1>2, <1>3, LikeParts DEF TriOfVisible
<1> QED BY <1>4, LikeParts DEF TriValue

LEMMA LikeStr ==
    ASSUME NEW a, NEW b, NEW k, NEW depth, Given(k, depth), NEW s \in k.syms
    PROVE  Like(a, b, StrValue(k, s, a), StrValue(k, s, b))
<1> DEFINE first(view) == FirstActive(k, k.defaults[s], view)
           range(view) == RangeOf(k, s, FirstActive(k, k.ranges[s], view), view)
           text(view) == DefaultText(k, s, first(view), view)
<1>1. Like(a, b, first(a), first(b)) /\ first(a).r \subseteq text(a).r
  BY LikeExprs DEF DefaultText, Also
<1>2. Like(a, b, text(a), text(b))
  <2>1. \A x, y : Like(a, b, x, y) => Like(a, b, DefaultText(k, s, x, a), DefaultText(k, s, y, b))
    BY LikeOperand, LikeParts DEF DefaultText
  <2> QED BY <1>1, <2>1
<1>3. Like(a, b, range(a), range(b))
  <2>1. ASSUME NEW x, NEW y, NEW f, NEW g, Like(a, b, x, y), Like(a, b, f, g)
        PROVE  Like(a, b, Bounds(x, f), Bounds(y, g))
    <3> DEFINE end(u, w) == Ret([on |-> TRUE, low |-> Number(u.v), high |-> Number(w.v)])
    <3>1. y = x => Like(a, b, Also(f, end(x, f)), Also(g, end(y, g)))
      BY <2>1, LikeParts
    <3> QED BY <2>1, <3>1, LikeParts DEF Bounds
  <2>2. \A x, y : Like(a, b, x, y) => Like(a, b, RangeOf(k, s, x, a), RangeOf(k, s, y, b))
    BY <2>1, LikeOperand, LikeParts DEF RangeOf
  <2> QED BY <2>2, LikeExprs
<1> HIDE DEF text, range, first
<1>4. ASSUME NEW vis, NEW bounds
      PROVE  Like(a, b, Clamped(vis, bounds, first(a), text(a)), Clamped(vis, bounds, first(b), text(b)))
  <2>1. text(a).r \subseteq Clamped(vis, bounds, first(a), text(a)).r
    BY DEF Clamped, Also
  <2>2. text(b) = text(a) /\ first(b) = first(a) =>
            Clamped(vis, bounds, first(b), text(b)) = Clamped(vis, bounds, first(a), text(a))
    OBVIOUS
  <2> QED BY <1>1, <1>2, <2>1, <2>2 DEF Like, Same
<1>5. ASSUME NEW vis, NEW bounds, NEW u
      PROVE  Like(a, b, IntInRange(k, s, vis, bounds, u, first(a), a),
                        IntInRange(k, s, vis, bounds, u, first(b), b))
  <2>1. Like(a, b, Also(bounds, u), Also(bounds, u))
    BY DEF Like
  <2> QED BY <1>4, <2>1, LikeParts DEF IntInRange, text
<1>6. ASSUME NEW vis PROVE Like(a, b, IntValue(k, s, vis, a), IntValue(k, s, vis, b))
  <2>1. \A bounds, u : /\ bounds.r \subseteq IntInRange(k, s, vis, bounds, u, first(a), a).r
                       /\ u.r \subseteq IntInRange(k, s, vis, bounds, u, first(a), a).r
    BY DEF IntInRange, Also
  <2>2. Like(a, b, UserValue(s, vis, a), UserValue(s, vis, b))
    BY LikeUser
  <2>3. \A view : IntValue(k, s, vis, view)
                    = IntInRange(k, s, vis, range(view), UserValue(s, vis, view), first(view), view)
    BY DEF IntValue, range, first
  <2>4. Like(a, b, IntInRange(k, s, vis, range(a), UserValue(s, vis, a), first(a), a),
                   IntInRange(k, s, vis, range(b), UserValue(s, vis, b), first(b), b))
    BY <1>3, <1>5, <2>1, <2>2, LikeParts
  <2> QED BY <2>3, <2>4
<1>7. ASSUME NEW vis PROVE Like(a, b, StringValue(k, s, vis, a), StringValue(k, s, vis, b))
  <2> DEFINE default(view) == Also(text(view), Ret([val |-> text(view).v,
                                                    write |-> vis # 0 \/ first(view).v.at # 0]))
             rest(u, view) == IF u.v # Unset THEN Ret([val |-> u.v, write |-> TRUE]) ELSE default(view)
  <2>1. Like(a, b, default(a), default(b))
    <3>1. text(a).r \subseteq default(a).r
      BY DEF Also
    <3>2. text(b) = text(a) /\ first(b) = first(a) => default(b) = default(a)
      OBVIOUS
    <3> QED BY <1>1, <1>2, <3>1, <3>2 DEF Like, Same
  <2>2. \A x, y : y = x => Like(a, b, rest(x, a), rest(y, b))
    BY <2>1, LikeParts
  <2>3. \A view, u : TextOrUser(k, s, vis, u, first(view), view) = Also(u, rest(u, view))
    BY DEF TextOrUser, text
  <2> HIDE DEF rest
  <2>4. \A x, y : Like(a, b, x, y) => Like(a, b, TextOrUser(k, s, vis, x, first(a), a),
                                                 TextOrUser(k, s, vis, y, first(b), b))
    BY <2>2, <2>3, LikeParts
  <2> QED BY <2>4, LikeUser DEF StringValue, first
<1>8. \A x, y : Like(a, b, x, y) => Like(a, b, TextOfVisible(k, s, x, a), TextOfVisible(k, s, y, b))
  BY <1>6, <1>7, LikeParts DEF TextOfVisible
<1>9. \A x, y : Like(a, b, x, y) => Like(a, b, TextOfTri(x), TextOfTri(y))
  BY LikeParts DEF TextOfTri
<1> QED BY <1>8, <1>9, LikeParts DEF StrValue

LEMMA LikeAssignable ==
    ASSUME NEW a, NEW b, NEW k, NEW depth, Given(k, depth)
    PROVE  /\ \A s \in k.syms : Like(a, b, SymAssignable(k, s, a), SymAssignable(k, s, b))
           /\ \A c \in k.choices : Like(a, b, ChoiceAssignable(k, c, a), ChoiceAssignable(k, c, b))
<1>1. ASSUME NEW s \in k.syms PROVE Like(a, b, SymAssignable(k, s, a), SymAssignable(k, s, b))
  <2>1. /\ Like(a, b, ExprValue(k, k.rev[s], a), ExprValue(k, k.rev[s], b))
        /\ Like(a, b, ExprValue(k, k.weak[s], a), ExprValue(k, k.weak[s], b))
        /\ Like(a, b, NeverM(k, s, a), NeverM(k, s, b))
    BY LikeExprs
  <2>2. ASSUME NEW vis, NEW rev
        PROVE  Like(a, b, AssignableUnder(k, s, vis, rev, a), AssignableUnder(k, s, vis, rev, b))
    <3>1. Like(a, b, Also(vis, rev), Also(vis, rev))
      BY DEF Like
    <3>2. \A v : Like(a, b, Also(Also(vis, rev), Ret(v)), Also(Also(vis, rev), Ret(v)))
      BY <3>1, LikeParts
    <3>3. \A x, y : Like(a, b, x, y) => Like(a, b, Also(Also(vis, rev), x), Also(Also(vis, rev), y))
      BY <3>1, LikeParts
    <3>4. \A values : Like(a, b, WithoutM(NeverM(k, s, a), values), WithoutM(NeverM(k, s, b), values))
      BY <2>1, LikeParts DEF WithoutM
    <3> DEFINE weak(view) == ExprValue(k, k.weak[s], view)
               modes(y) == Also(y, Ret({0, IF y.v = 2 THEN 2 ELSE 1}))
    <3>5. Like(a, b, modes(weak(a)), modes(weak(b)))
      BY <2>1, LikeParts
    <3>6. CASE vis.v = 2 /\ k.choiceOf[s] = NoItem /\ rev.v # 2
      <4>1. \A view : AssignableUnder(k, s, vis, rev, view)
                        = Also(Also(vis, rev), WithoutM(NeverM(k, s, view), rev.v..2))
        BY <3>6 DEF AssignableUnder
      <4> QED BY <3>3, <3>4, <4>1
    <3>7. CASE vis.v = 1 /\ rev.v = 0
      <4>1. \A view : AssignableUnder(k, s, vis, rev, view)
                        = Also(Also(vis, rev), modes(weak(view)))
        BY <3>7 DEF AssignableUnder
      <4> HIDE DEF modes, weak
      <4> QED BY <3>3, <3>5, <4>1
    <3> QED BY <3>2, <3>6, <3>7 DEF AssignableUnder
  <2>3. ASSUME NEW x, NEW y, Like(a, b, x, y)
        PROVE  Like(a, b, IfVisible(k, s, x, a), IfVisible(k, s, y, b))
    <3>1. x.r \subseteq IfVisible(k, s, x, a).r
      BY DEF IfVisible, AssignableUnder, Also
    <3>2. \A rev : rev.r \subseteq AssignableUnder(k, s, x, rev, a).r
      BY DEF AssignableUnder, Also
    <3>3. Like(a, b, AssignableUnder(k, s, x, ExprValue(k, k.rev[s], a), a),
                     AssignableUnder(k, s, x, ExprValue(k, k.rev[s], b), b))
      BY <2>1, <2>2, <3>2, LikeParts
    <3>4. y = x => Like(a, b, IfVisible(k, s, x, a), IfVisible(k, s, y, b))
      BY <3>3 DEF IfVisible, Like
    <3> QED BY <2>3, <3>1, <3>4, LikeParts
  <2> QED BY <2>3, LikeParts DEF SymAssignable
<1>2. ASSUME NEW c \in k.choices PROVE Like(a, b, ChoiceAssignable(k, c, a), ChoiceAssignable(k, c, b))
  <2> DEFINE least == IF c \in k.optional THEN {0} ELSE {}
             y(view) == YesIfBool(ChoiceType(k, c, view))
             modes(view) == Also(y(view), Ret(least \cup {y(view).v, 2}))
             rest(v, view) == CASE v = 0 -> Ret({})
                                [] v = 2 -> modes(view)
                                [] OTHER -> Ret(least \cup {1})
  <2>1. Like(a, b, y(a), y(b))
    BY LikeTypes, LikeParts DEF YesIfBool
  <2>2. Like(a, b, modes(a), modes(b))
    <3> HIDE DEF y
    <3> QED BY <2>1, LikeParts
  <2>3. \A v : Like(a, b, rest(v, a), rest(v, b))
    <3> HIDE DEF modes
    <3> QED BY <2>2, LikeParts
  <2>4. \A vis, view : ModesOf(k, c, vis, view) = Also(vis, rest(vis.v, view))
    BY DEF ModesOf
  <2> HIDE DEF rest
  <2>5. \A x, z : Like(a, b, x, z) => Like(a, b, ModesOf(k, c, x, a), ModesOf(k, c, z, b))
    BY <2>3, <2>4, LikeParts
  <2> QED BY <2>5, LikeParts DEF ChoiceAssignable
<1> QED BY <1>1, <1>2

LEMMA LikeSelection ==
    ASSUME NEW a, NEW b, NEW k, NEW depth, Given(k, depth), NEW c \in k.choices
    PROVE  Like(a, b, Selection(k, c, a), Selection(k, c, b))
<1> k.syms \cap k.choices = {} /\ Equations(depth)
  BY DEF Given, WellFormed
<1>1. Like(a, b, DefaultSelection(k, c, a), DefaultSelection(k, c, b))
  <2> DEFINE result(n, view) == IfActive(ExprValue(k, k.defaults[c][n][2], view),
                                         Read(view, <<"vis", k.defaults[c][n][1]>>))
             results(view) == [n \in DOMAIN k.defaults[c] |-> result(n, view)]
  <2>1. ASSUME NEW n \in DOMAIN k.defaults[c] PROVE Like(a, b, result(n, a), result(n, b))
    <3>1. Len(k.defaults[c][n]) = 2
      BY DEF Given, WellFormed, ChoicesRight
    <3>2. k.defaults[c][n][2] \in Conditions(k.defaults[c])
      BY <3>1 DEF Conditions
    <3>3. Like(a, b, ExprValue(k, k.defaults[c][n][2], a), ExprValue(k, k.defaults[c][n][2], b))
      BY <3>2, ItemAsks, LikeExpr DEF Asks
    <3> QED BY <3>3, LikeParts DEF IfActive
  <2>2. \A n \in DOMAIN k.defaults[c] : Like(a, b, results(a)[n], results(b)[n])
    BY <2>1
  <2>3. \A view : DefaultSelection(k, c, view) = FirstOf(results(view))
    BY DEF DefaultSelection
  <2>4. DOMAIN k.defaults[c] \subseteq Nat
    BY DEF Given, WellFormed, ListsRight
  <2>5. DOMAIN results(a) = DOMAIN k.defaults[c] /\ DOMAIN results(b) = DOMAIN k.defaults[c]
    OBVIOUS
  <2> HIDE DEF results
  <2> QED BY <2>2, <2>3, <2>4, <2>5, LikeFirst
<1>2. Like(a, b, FirstMember(k, c, a), FirstMember(k, c, b))
  <2> DEFINE results(view) == [n \in DOMAIN k.members[c] |-> Read(view, <<"vis", k.members[c][n]>>)]
             member(first) == Ret(IF first.v = 0 THEN NoItem ELSE k.members[c][first.v])
  <2>1. \A n \in DOMAIN k.members[c] : Like(a, b, results(a)[n], results(b)[n])
    BY LikeParts
  <2>2. DOMAIN k.members[c] \subseteq Nat
    BY DEF Given, WellFormed, ListsRight
  <2>3. DOMAIN results(a) = DOMAIN k.members[c] /\ DOMAIN results(b) = DOMAIN k.members[c]
    OBVIOUS
  <2>4. \A view : FirstMember(k, c, view) = Also(FirstOf(results(view)), member(FirstOf(results(view))))
    BY DEF FirstMember
  <2> HIDE DEF results
  <2>5. Like(a, b, FirstOf(results(a)), FirstOf(results(b)))
    BY <2>1, <2>2, <2>3, LikeFirst
  <2>6. \A x, y : y = x => Like(a, b, member(x), member(y))
    BY LikeParts
  <2>7. Like(a, b, Also(FirstOf(results(a)), member(FirstOf(results(a)))),
                  Also(FirstOf(results(b)), member(FirstOf(results(b)))))
    <3> HIDE DEF member
    <3> QED BY <2>5, <2>6, LikeParts
  <2> QED BY <2>4, <2>7
<1>3. Like(a, b, SelectionFromDefaults(k, c, a), SelectionFromDefaults(k, c, b))
  BY <1>1, <1>2, LikeParts DEF SelectionFromDefaults
<1>4. ASSUME NEW p, NEW q, Like(a, b, p, q)
      PROVE  Like(a, b, Picked(k, c, p, a), Picked(k, c, q, b))
  <2>1. ASSUME NEW x, NEW y, Like(a, b, x, y)
        PROVE  Like(a, b, PickIfVisible(k, c, p, x, a), PickIfVisible(k, c, p, y, b))
    <3>1. Like(a, b, p, p)
      BY DEF Like
    <3>2. Like(a, b, Also(p, x), Also(p, y)) /\ x.r \subseteq PickIfVisible(k, c, p, x, a).r
      BY <2>1, <3>1, LikeParts DEF PickIfVisible, Also
    <3>3. y = x => Like(a, b, PickIfVisible(k, c, p, x, a), PickIfVisible(k, c, p, y, b))
      BY <1>3, <3>2, LikeParts DEF PickIfVisible
    <3> QED BY SMTT(30), <2>1, <3>2, <3>3, LikeParts
  <2>2. p.r \subseteq Picked(k, c, p, a).r
    BY DEF Picked, PickIfVisible, Also
  <2>3. Like(a, b, Picked(k, c, p, a), Picked(k, c, p, b))
    BY <2>1, LikeParts DEF Picked
  <2> QED BY <1>4, <2>2, <2>3, LikeParts
<1>5. \A x, y : Like(a, b, x, y) => Like(a, b, SelectionIn(k, c, x, a), SelectionIn(k, c, y, b))
  BY <1>4, LikeParts DEF SelectionIn
<1> QED BY <1>5, LikeTypes DEF Selection

LEMMA LikeValue ==
    ASSUME NEW a, NEW b, NEW k, NEW depth, Given(k, depth), NEW e \in CacheEntries(k)
    PROVE  Like(a, b, Value(k, e, a), Value(k, e, b))
<1> k.syms \cap k.choices = {}
  BY DEF Given, WellFormed
<1>1. \A x, y : Like(a, b, x, y) => Like(a, b, ValOf(x), ValOf(y))
  BY DEF Like, ValOf
<1>2. CASE e[1] = "vis"
  <2>1. e[2] \in k.syms \cup k.choices /\ \A view : Value(k, e, view) = Visibility(k, e[2], view)
    BY <1>2 DEF Value, CacheEntries
  <2> QED BY <2>1, LikeVisibility
<1>3. CASE e[1] = "tri"
  <2>1. e[2] \in k.syms /\ \A view : Value(k, e, view) = ValOf(TriValue(k, e[2], view))
    BY <1>3 DEF Value, CacheEntries
  <2> QED BY <1>1, <2>1, LikeTri
<1>4. CASE e[1] = "str"
  <2>1. e[2] \in k.syms /\ \A view : Value(k, e, view) = ValOf(StrValue(k, e[2], view))
    BY <1>4 DEF Value, CacheEntries
  <2> QED BY <1>1, <2>1, LikeStr
<1>5. CASE e[1] = "asg" /\ e[2] \in k.syms
  <2>1. \A view : Value(k, e, view) = SymAssignable(k, e[2], view)
    BY <1>5 DEF Value
  <2> QED BY <1>5, <2>1, LikeAssignable
<1>6. CASE e[1] = "asg" /\ e[2] \in k.choices
  <2>1. \A view : Value(k, e, view) = ChoiceAssignable(k, e[2], view)
    BY <1>6 DEF Value
  <2> QED BY <1>6, <2>1, LikeAssignable
<1>7. CASE e[1] = "sel"
  <2>1. e[2] \in k.choices /\ \A view : Value(k, e, view) = Selection(k, e[2], view)
    BY <1>7 DEF Value, CacheEntries
  <2> QED BY <2>1, LikeSelection
<1> QED BY <1>2, <1>3, <1>4, <1>5, <1>6, <1>7 DEF CacheEntries

(* Of the code's own evaluation, then, no sequence of lookups and          *)
(* assignments leaves a stale value behind.                                *)
COROLLARY CodeCacheCoherent ==
    ASSUME NEW depth, TheEvaluation(depth)
    PROVE  Spec => []CacheCoherent
BY CodeReadsRegistered, NoStaleValue, PTL

(* And every cached value is the one the code would compute from the user  *)
(* values with nothing cached, whatever was asked and assigned before.     *)
COROLLARY CodeValuesAreFresh ==
    ASSUME NEW depth, TheEvaluation(depth), FreshSolves
    PROVE  Spec => []ValuesAreFresh
<1>1. ReadsDetermine
  BY LikeValue DEF ReadsDetermine, TheEvaluation, Like
<1> QED BY <1>1, FreshValues, CodeReadsRegistered, PTL

-----------------------------------------------------------------------------
(* What the values themselves are like where the dependencies are as the   *)
(* parser leaves them.                                                     *)
LEMMA MaxOfTristates ==
    ASSUME NEW S, S \subseteq 0..2, S # {}
    PROVE  Max(S) \in S
<1>1. \E x \in S : \A y \in S : x >= y
  <2>1. CASE 2 \in S
    BY <2>1
  <2>2. CASE 2 \notin S /\ 1 \in S
    BY <2>2
  <2>3. CASE 2 \notin S /\ 1 \notin S
    <3>1. \A y \in S : y = 0
      BY <2>3
    <3>2. PICK x \in S : TRUE
      OBVIOUS
    <3>3. \A y \in S : x >= y
      BY <3>1, <3>2
    <3> QED BY <3>2, <3>3
  <2> QED BY <2>1, <2>2, <2>3
<1> QED BY <1>1 DEF Max

(* A symbol is visible only through a prompt, so only where its direct     *)
(* dependencies are met.                                                   *)
LEMMA VisibleIsMet ==
    ASSUME NEW k, NEW now, DependenciesMet(k, now), NEW s \in k.syms
    PROVE  /\ StrongestPrompt(k, k.prompts[s], now).v \in 0..2
           /\ Visibility(k, s, now).v # 0 => ExprValue(k, k.direct[s], now).v # 0
<1> DEFINE conds == [n \in DOMAIN k.prompts[s] |-> ExprValue(k, k.prompts[s][n], now)]
           strongest == StrongestPrompt(k, k.prompts[s], now)
           values == {0} \cup {conds[n].v : n \in DOMAIN conds}
<1>1. values \subseteq 0..2 /\ values # {}
  <2>1. \A n \in DOMAIN k.prompts[s] : conds[n].v \in 0..2
    BY DEF DependenciesMet
  <2> HIDE DEF conds
  <2>2. DOMAIN conds = DOMAIN k.prompts[s]
    BY DEF conds
  <2> QED BY <2>1, <2>2
<1>2. strongest.v = Max(values)
  BY DEF StrongestPrompt
<1>3. strongest.v \in values
  <2> HIDE DEF values
  <2> QED BY <1>1, <1>2, MaxOfTristates
<1>4. strongest.v # 0 => ExprValue(k, k.direct[s], now).v # 0
  <2> SUFFICES ASSUME strongest.v # 0 PROVE ExprValue(k, k.direct[s], now).v # 0
    OBVIOUS
  <2>1. PICK n \in DOMAIN k.prompts[s] : ExprValue(k, k.prompts[s][n], now).v # 0
    BY <1>3
  <2> QED BY <2>1 DEF DependenciesMet
<1>5. Visibility(k, s, now).v # 0 => strongest.v # 0
  <2> HIDE DEF strongest
  <2>1. Visibility(k, s, now) = VisibilityByPrompt(k, s, strongest, now)
    BY DEF Visibility, strongest
  <2> QED
    BY <2>1 DEF VisibilityByPrompt, VisibilityInMode, PromoteVisibility, Also, Ret
<1> QED
  BY <1>1, <1>3, <1>4, <1>5

(* In a choice in y mode a symbol is fully visible or not at all: what is  *)
(* tristate and only as visible as m is hidden, what is bool is promoted.  *)
LEMMA VisibleInChoice ==
    ASSUME NEW k, NEW now, DependenciesMet(k, now), NEW s \in k.syms \ k.choices, IsTri(k, s),
           k.choiceOf[s] # NoItem, ChoiceTri(k, k.choiceOf[s], now).v = 2
    PROVE  Visibility(k, s, now).v \in {0, 2}
<1> DEFINE strongest == StrongestPrompt(k, k.prompts[s], now)
           mode == ChoiceTri(k, k.choiceOf[s], now)
<1>1. strongest.v \in 0..2
  BY VisibleIsMet
<1>2. Visibility(k, s, now) = VisibilityByPrompt(k, s, strongest, now)
  BY DEF Visibility
<1>3. mode.v = 2
  OBVIOUS
<1> HIDE DEF strongest
<1>4. CASE k.type[s] = "tristate" /\ strongest.v = 1
  <2>1. Visibility(k, s, now) = VisibilityInMode(k, s, strongest, mode, now)
    BY <1>2, <1>4 DEF VisibilityByPrompt
  <2> QED
    BY <1>3, <1>4, <2>1 DEF VisibilityInMode, Also, Ret
<1>5. CASE k.type[s] = "tristate" /\ strongest.v # 1
  <2>1. Visibility(k, s, now) = PromoteVisibility(k, s, strongest, now)
    BY <1>2, <1>5 DEF VisibilityByPrompt
  <2> QED
    BY <1>1, <1>5, <2>1 DEF PromoteVisibility
<1>6. CASE k.type[s] = "bool"
  <2>1. SymType(k, s, now) = Ret("bool")
    BY <1>6 DEF SymType
  <2>2. PromoteVisibility(k, s, strongest, now).v \in {0, 2}
    BY <1>1, <2>1 DEF PromoteVisibility, YesUnlessTristate, Also, Ret
  <2>3. VisibilityInMode(k, s, strongest, mode, now).v = PromoteVisibility(k, s, strongest, now).v
    BY <1>3, <1>6 DEF VisibilityInMode, Also
  <2> QED
    BY <1>2, <2>2, <2>3 DEF VisibilityByPrompt
<1> QED
  BY <1>4, <1>5, <1>6 DEF IsTri

(* A symbol outside of choices that nothing selects is on only through its *)
(* user value, where it is visible, through a default that applies, or     *)
(* through an imply, where its direct dependencies are met.                *)
LEMMA OnIsMet ==
    ASSUME NEW k, NEW now, DependenciesMet(k, now), NEW s \in k.syms, NEW vis,
           vis # 0 => ExprValue(k, k.direct[s], now).v # 0,
           ExprValue(k, k.rev[s], now).v = 0,
           PlainTri(k, s, vis, now).v.val # 0
    PROVE  ExprValue(k, k.direct[s], now).v # 0
<1> DEFINE rev == ExprValue(k, k.rev[s], now)
           user_ == UserValue(s, vis, now)
           first == FirstActive(k, k.defaults[s], now)
           def == DefaultTri(k, s, first, now)
           own == OwnValue(k, s, vis, now)
<1> SUFFICES ASSUME ExprValue(k, k.direct[s], now).v = 0 PROVE FALSE
  OBVIOUS
<1>1. vis = 0
  OBVIOUS
<1>2. user_.v = Unset
  BY <1>1 DEF UserValue, Ret
<1>3. first.v.at = 0
  <2> DEFINE conds == [n \in DOMAIN k.defaults[s] |->
                         ExprValue(k, k.defaults[s][n][Len(k.defaults[s][n])], now)]
             hits == {n \in DOMAIN conds : conds[n].v # 0}
  <2>1. hits = {}
    <3> SUFFICES ASSUME NEW n \in hits PROVE FALSE
      OBVIOUS
    <3>1. k.defaults[s][n][Len(k.defaults[s][n])] \in Conditions(k.defaults[s])
      BY DEF Conditions
    <3> QED BY <3>1 DEF DependenciesMet
  <2>2. FirstOf(conds).v = 0
    BY <2>1 DEF FirstOf
  <2>3. first.v.at = FirstOf(conds).v
    BY DEF FirstActive, Also, Ret
  <2> QED BY <2>2, <2>3
<1>4. def.v = 0
  BY <1>3 DEF DefaultTri, Also, Ret
<1>5. own.v.val = 0
  <2>1. own = Also(user_, Implied(k, s, vis, def, ExprValue(k, k.weak[s], now), now))
    BY <1>2 DEF OwnValue, OwnOrUser
  <2>2. \A weak, met : met.v = 0 => WithImply(vis, def, weak, met).v.val = 0
    BY <1>4 DEF WithImply, Also, Ret
  <2>3. \A weak : Implied(k, s, vis, def, weak, now).v.val = 0
    <3> HIDE DEF def
    <3> TAKE weak
    <3> DEFINE met == IF weak.v = 0 THEN Ret(0) ELSE ExprValue(k, k.direct[s], now)
    <3>1. met.v = 0
      BY DEF Ret
    <3>2. Implied(k, s, vis, def, weak, now) = WithImply(vis, def, weak, met)
      BY DEF Implied
    <3> HIDE DEF met
    <3> QED BY <2>2, <3>1, <3>2
  <2> HIDE DEF own, def
  <2> QED BY <2>1, <2>3 DEF Also
<1>6. Max2(rev.v, own.v.val) = 0
  BY <1>5 DEF Max2
<1>7. PlainTri(k, s, vis, now) = WithSelect(k, s, own, rev, now)
  BY DEF PlainTri
<1> HIDE DEF own, rev
<1> QED
  BY <1>6, <1>7 DEF WithSelect, Also, Ret

(* The same of a choice symbol, which has to be visible.                   *)
LEMMA ShownInChoice ==
    ASSUME NEW k, NEW s, NEW vis, NEW now, MemberTri(k, s, vis, now).v.val # 0
    PROVE  vis # 0
BY DEF MemberTri, IfUser, UserValue, Also, Ret

(* In y mode it is the selection, in another mode at most m.               *)
LEMMA OnInChoice ==
    ASSUME NEW k, NEW s, NEW vis, NEW now
    PROVE  /\ vis = 2 /\ MemberTri(k, s, vis, now).v.val # 0 =>
                 Read(now, <<"sel", k.choiceOf[s]>>).v = s
           /\ vis # 2 => MemberTri(k, s, vis, now).v.val \in 0..1
BY DEF MemberTri, IfSelected, IfUser, UserValue, Also, Ret

(* So values that solve the equations of the evaluation are as allowed.    *)
LEMMA SolutionAllowed ==
    ASSUME NEW k, NEW depth, Given(k, depth), NEW u, NEW now, DependenciesMet(k, now),
           Solves(k, u, now), \A e, view : Eval(k, e, view) = Value(k, e, view)
    PROVE  Allowed(k, now)
<1> DEFINE Vis(s) == Visibility(k, s, now).v
           Tri(s) == now[<<"tri", s>>]
<1>1. /\ \A s \in k.syms : k.choiceOf[s] # NoItem => k.choiceOf[s] \in k.choices
      /\ NoItem \notin k.syms /\ k.syms \cap k.choices = {}
  BY DEF Given, WellFormed, ChoicesRight
<1>2. ASSUME NEW e \in CacheEntries(k)
      PROVE  e \in DOMAIN now /\ now[e] = Value(k, e, now).v
  BY <1>2 DEF Solves
<1>3. ASSUME NEW s \in k.syms
      PROVE  /\ <<"vis", s>> \in DOMAIN now /\ now[<<"vis", s>>] = Vis(s)
             /\ Tri(s) = TriValue(k, s, now).v.val
  <2>1. <<"vis", s>> \in CacheEntries(k) /\ <<"tri", s>> \in CacheEntries(k)
    BY DEF CacheEntries
  <2> QED BY <1>2, <2>1 DEF Value, ValOf
<1>4. ASSUME NEW s \in k.syms, Tri(s) # 0
      PROVE  /\ IsTri(k, s)
             /\ k.choiceOf[s] = NoItem => Tri(s) = PlainTri(k, s, Vis(s), now).v.val
             /\ k.choiceOf[s] # NoItem => Tri(s) = MemberTri(k, s, Vis(s), now).v.val
  <2>1. IsTri(k, s)
    BY <1>3, <1>4 DEF TriValue, Ret
  <2>2. Read(now, <<"vis", s>>).v = Vis(s)
    BY <1>3 DEF Read
  <2> QED
    BY <1>3, <2>1, <2>2 DEF TriValue, TriOfVisible, Also
<1>5. ASSUME NEW s \in k.syms, Tri(s) # 0
      PROVE  ExprValue(k, k.direct[s], now).v # 0 \/ ExprValue(k, k.rev[s], now).v # 0
  <2>1. Vis(s) # 0 => ExprValue(k, k.direct[s], now).v # 0
    BY VisibleIsMet
  <2>2. CASE k.choiceOf[s] = NoItem
    BY <1>4, <1>5, <2>1, <2>2, OnIsMet
  <2>3. CASE k.choiceOf[s] # NoItem
    <3>1. MemberTri(k, s, Vis(s), now).v.val # 0
      BY <1>4, <1>5, <2>3
    <3>2. \A vis : MemberTri(k, s, vis, now).v.val # 0 => vis # 0
      <4> TAKE vis
      <4> QED BY ShownInChoice
    <3>3. Vis(s) # 0
      BY <3>1, <3>2
    <3> QED BY <2>1, <3>3
  <2> QED BY <2>2, <2>3
<1>6. ASSUME NEW c \in k.choices, NEW s \in k.syms, k.choiceOf[s] = c, Tri(s) = 2,
             NEW t \in k.syms, k.choiceOf[t] = c, Tri(t) # 0
      PROVE  t = s
  <2>1. c # NoItem
    BY DEF Given, WellFormed
  <2>2. Tri(s) = MemberTri(k, s, Vis(s), now).v.val /\ Tri(t) = MemberTri(k, t, Vis(t), now).v.val
        /\ IsTri(k, t)
    BY <1>4, <1>6, <2>1
  <2>3. Vis(s) = 2 /\ Read(now, <<"sel", c>>).v = s
    <3>1. ~(MemberTri(k, s, Vis(s), now).v.val \in 0..1)
      BY <1>6, <2>2
    <3> QED BY <1>6, <2>2, <3>1, OnInChoice
  <2>4. <<"sel", c>> \in CacheEntries(k)
    BY DEF CacheEntries
  <2>5. Selection(k, c, now).v = s
    BY <1>2, <2>3, <2>4 DEF Read, Value
  <2>6. ChoiceTri(k, c, now).v = 2
    BY <1>1, <2>5 DEF Selection, SelectionIn, Also, Ret
  <2>7. Vis(t) \in {0, 2}
    BY <1>1, <1>6, <2>1, <2>2, <2>6, VisibleInChoice
  <2>8. Vis(t) = 2
    <3>1. MemberTri(k, t, Vis(t), now).v.val # 0
      BY <1>6, <2>2
    <3>2. \A vis : MemberTri(k, t, vis, now).v.val # 0 => vis # 0
      <4> TAKE vis
      <4> QED BY ShownInChoice
    <3>3. Vis(t) # 0
      BY <3>1, <3>2
    <3> QED BY <2>7, <3>3
  <2>9. Read(now, <<"sel", c>>).v = t
    BY <1>6, <2>2, <2>8, OnInChoice
  <2> QED BY <2>3, <2>9
<1>7. ASSUME NEW c \in k.choices, NEW s \in k.syms, k.choiceOf[s] = c, Tri(s) = 2
      PROVE  {t \in k.syms : k.choiceOf[t] = c /\ Tri(t) # 0} = {s}
  <2>1. \A t \in k.syms : k.choiceOf[t] = c /\ Tri(t) # 0 => t = s
    BY <1>6, <1>7
  <2> QED BY <1>7, <2>1
<1> HIDE DEF Vis
<1> QED
  BY <1>5, <1>7 DEF Allowed

(* With the evaluation the code has, no sequence of assignments turns on   *)
(* what neither its dependencies nor a select allow, or a second symbol of *)
(* a choice in y mode.                                                     *)
THEOREM CodeValuesAllowed ==
    ASSUME NEW depth, TheEvaluation(depth), FreshSolves, FreshDependenciesMet
    PROVE  Spec => []OnlyWhatIsAllowed
<1>1. TypeOK /\ UserShape => OnlyWhatIsAllowed
  <2> SUFFICES ASSUME TypeOK, UserShape PROVE Allowed(K, Fresh(K, user))
    BY DEF OnlyWhatIsAllowed
  <2>1. kc \in DOMAIN Kconfigs /\ K = Kconfigs[kc]
    BY DEF TypeOK, K
  <2>2. user \in UserValues(K)
    BY FittingValues DEF UserShape
  <2>3. Solves(K, user, Fresh(K, user)) /\ DependenciesMet(K, Fresh(K, user))
    BY <2>1, <2>2 DEF FreshSolves, FreshDependenciesMet
  <2>4. Given(K, depth) /\ \A e, view : Eval(K, e, view) = Value(K, e, view)
    BY <2>1 DEF TheEvaluation
  <2> QED BY <2>3, <2>4, SolutionAllowed
<1> QED BY <1>1, TypeCorrect, UserKeepsShape, PTL

-----------------------------------------------------------------------------
(* User values enter by their own items only: expressions, types,          *)
(* visibilities and what can be assigned read neither values nor picks.    *)
Quiet(x) == \A r \in x.r : r[1] \notin {"user", "pick"}

LEMMA QuietParts ==
    /\ \A v : Quiet(Ret(v))
    /\ \A x, y : Quiet(x) /\ Quiet(y) =>
          Quiet(Also(x, y)) /\ Quiet(MinOf(x, y)) /\ Quiet(MaxOf(x, y))
    /\ \A view, a, i : a \notin {"user", "pick"} => Quiet(Read(view, <<a, i>>))
BY DEF Quiet, Ret, Also, MinOf, MaxOf, Read

LEMMA QuietTypes ==
    ASSUME NEW k, NEW view
    PROVE  /\ \A c : Quiet(ChoiceType(k, c, view)) /\ Quiet(ChoiceTri(k, c, view))
           /\ \A s : Quiet(SymType(k, s, view))
<1>1. Quiet(TypeByModules(k, view))
  BY TypeReads DEF Quiet
<1>2. \A c : Quiet(ChoiceType(k, c, view))
  BY <1>1, QuietParts DEF ChoiceType
<1>3. \A c : Quiet(ChoiceTri(k, c, view))
  BY ChoiceTriReads DEF Quiet
<1>4. \A mode : Quiet(mode) => Quiet(TypeInMode(k, mode, view))
  BY <1>1, QuietParts DEF TypeInMode
<1>5. \A s : Quiet(SymType(k, s, view))
  BY <1>3, <1>4, QuietParts DEF SymType
<1> QED BY <1>2, <1>3, <1>5

LEMMA QuietExprs ==
    ASSUME NEW k, NEW depth, Given(k, depth), NEW view
    PROVE  /\ \A e \in DOMAIN depth : Quiet(ExprValue(k, e, view))
           /\ \A s \in k.syms : /\ Quiet(ExprValue(k, k.rev[s], view))
                                /\ Quiet(ExprValue(k, k.weak[s], view))
                                /\ Quiet(NeverM(k, s, view))
<1>1. \A e \in DOMAIN depth : Quiet(ExprValue(k, e, view))
  <2>1. k.syms \cap k.choices = {} /\ Equations(depth)
    BY DEF Given, WellFormed
  <2> QED BY <2>1, ExprReads DEF Quiet, ReadsOf
<1>2. \A s \in k.syms : k.rev[s] \in DOMAIN depth /\ k.weak[s] \in DOMAIN depth
  BY SymbolAsks DEF Asks
<1>3. \A s \in k.syms : \A type : Quiet(type) => Quiet(NeverMOfType(k, s, type, view))
  BY <1>1, <1>2, QuietParts DEF NeverMOfType
<1> QED BY <1>1, <1>2, <1>3, QuietTypes DEF NeverM

LEMMA QuietVisibility ==
    ASSUME NEW k, NEW depth, Given(k, depth), NEW view, NEW i \in k.syms \cup k.choices
    PROVE  Quiet(Visibility(k, i, view))
<1> DEFINE prompt == StrongestPrompt(k, k.prompts[i], view)
<1>1. Quiet(prompt)
  <2>1. \A n \in DOMAIN k.prompts[i] : Quiet(ExprValue(k, k.prompts[i][n], view))
    BY ItemAsks, QuietExprs DEF Asks
  <2> QED BY <2>1 DEF Quiet, StrongestPrompt
<1> HIDE DEF prompt
<1>2. Quiet(PromoteVisibility(k, i, prompt, view))
  <2>1. \A type : Quiet(type) => Quiet(YesUnlessTristate(type))
    BY QuietParts DEF YesUnlessTristate
  <2> QED BY <1>1, <2>1, QuietTypes, QuietParts DEF PromoteVisibility
<1>3. \A mode : Quiet(mode) => Quiet(VisibilityInMode(k, i, prompt, mode, view))
  BY <1>1, <1>2, QuietParts DEF VisibilityInMode
<1>4. Quiet(VisibilityByPrompt(k, i, prompt, view))
  BY <1>2, <1>3, QuietTypes DEF VisibilityByPrompt
<1> QED BY <1>4 DEF Visibility, prompt

LEMMA QuietAssignable ==
    ASSUME NEW k, NEW depth, Given(k, depth), NEW view
    PROVE  /\ \A s \in k.syms : Quiet(SymAssignable(k, s, view))
           /\ \A c \in k.choices : Quiet(ChoiceAssignable(k, c, view))
<1>1. ASSUME NEW s \in k.syms PROVE Quiet(SymAssignable(k, s, view))
  <2>1. Quiet(Read(view, <<"vis", s>>))
    BY QuietParts
  <2>2. /\ Quiet(ExprValue(k, k.rev[s], view)) /\ Quiet(ExprValue(k, k.weak[s], view))
        /\ Quiet(NeverM(k, s, view))
    BY QuietExprs
  <2>3. \A y, values : Quiet(y) => Quiet(WithoutM(y, values))
    BY QuietParts DEF WithoutM
  <2>4. ASSUME NEW vis, NEW rev, Quiet(vis), Quiet(rev)
        PROVE  Quiet(AssignableUnder(k, s, vis, rev, view))
    <3>1. \A x : Quiet(x) => Quiet(Also(Also(vis, rev), x))
      BY <2>4, QuietParts
    <3>2. CASE vis.v = 2 /\ k.choiceOf[s] = NoItem /\ rev.v # 2
      BY <3>1, <3>2, <2>2, <2>3 DEF AssignableUnder
    <3>3. CASE vis.v = 1 /\ rev.v = 0
      BY <3>1, <3>3, <2>2, QuietParts DEF AssignableUnder
    <3> QED BY <3>1, <3>2, <3>3, QuietParts DEF AssignableUnder
  <2>5. \A vis : Quiet(vis) => Quiet(IfVisible(k, s, vis, view))
    BY <2>2, <2>4, QuietParts DEF IfVisible
  <2> QED BY <2>1, <2>5, QuietParts DEF SymAssignable
<1>2. ASSUME NEW c \in k.choices PROVE Quiet(ChoiceAssignable(k, c, view))
  <2> DEFINE y == YesIfBool(ChoiceType(k, c, view))
  <2>1. Quiet(Read(view, <<"vis", c>>))
    BY QuietParts
  <2>2. Quiet(y)
    BY QuietTypes, QuietParts DEF YesIfBool
  <2> HIDE DEF y
  <2>3. \A vis : Quiet(vis) => \A v : Quiet(Also(vis, Ret(v))) /\ Quiet(Also(vis, Also(y, Ret(v))))
    BY <2>2, QuietParts
  <2>4. \A vis : Quiet(vis) => Quiet(ModesOf(k, c, vis, view))
    BY <2>3 DEF ModesOf, y
  <2> QED BY <2>1, <2>4 DEF ChoiceAssignable
<1> QED BY <1>1, <1>2

(* So the user value of a bool or tristate is read for its value only, and *)
(* the user's pick for the selection of the choice.                        *)
LEMMA UsersReadOnce ==
    ASSUME NEW k, NEW depth, Given(k, depth), NEW e \in CacheEntries(k), NEW view,
           \A s \in k.syms : Read(view, <<"vis", s>>).v # 0 => s \in k.prompted,
           \A c \in k.choices : Read(view, <<"pick", c>>).v \in Members(k, c) \cup {NoItem}
    PROVE  /\ \A s \in TriSyms(k) : <<"user", s>> \in Value(k, e, view).r => e = <<"tri", s>>
           /\ \A c \in k.choices : <<"pick", c>> \in Value(k, e, view).r => e = <<"sel", c>>
<1> DEFINE R == Value(k, e, view).r
<1>1. Proper(k, e[2], Value(k, e, view))
  BY ProperValue
<1>2. e = <<e[1], e[2]>> /\ k.syms \cap k.choices = {}
  BY DEF CacheEntries, Given, WellFormed
<1>3. /\ \A s : <<"user", s>> \in R => s = e[2]
      /\ \A c : <<"pick", c>> \in R => c = e[2]
  BY <1>1 DEF Proper
<1>4. CASE e[1] = "vis"
  <2>1. e[2] \in k.syms \cup k.choices /\ Value(k, e, view) = Visibility(k, e[2], view)
    BY <1>4 DEF CacheEntries, Value
  <2> QED BY <2>1, QuietVisibility DEF Quiet
<1>5. CASE e[1] = "tri"
  <2>1. e[2] \in k.syms
    BY <1>5 DEF CacheEntries
  <2> QED BY <1>2, <1>3, <1>5, <2>1
<1>6. CASE e[1] = "str"
  <2>1. e[2] \in k.syms /\ Value(k, e, view) = ValOf(StrValue(k, e[2], view))
    BY <1>6 DEF CacheEntries, Value
  <2>2. IsTri(k, e[2]) => R = {<<"tri", e[2]>>}
    BY <2>1 DEF ValOf, StrValue, TextOfTri, Also, Ret, Read
  <2> QED BY <1>2, <1>3, <2>1, <2>2 DEF TriSyms
<1>7. CASE e[1] = "asg"
  <2>1. e[2] \in k.syms \/ e[2] \in k.choices
    BY <1>7 DEF CacheEntries
  <2>2. CASE e[2] \in k.syms
    BY <1>7, <2>2, QuietAssignable DEF Quiet, Value
  <2>3. CASE e[2] \in k.choices
    BY <1>2, <1>7, <2>3, QuietAssignable DEF Quiet, Value
  <2> QED BY <2>1, <2>2, <2>3
<1>8. CASE e[1] = "sel"
  <2>1. e[2] \in k.choices
    BY <1>8 DEF CacheEntries
  <2> QED BY <1>2, <1>3, <1>8, <2>1 DEF TriSyms
<1> QED BY <1>4, <1>5, <1>6, <1>7, <1>8 DEF CacheEntries

(* The evaluation of the code, of one instance *)
TheCodeOn(k) == \A e, view : Eval(k, e, view) = Value(k, e, view)

(* Two sets of user values that differ only in what no entry below rank m  *)
(* reads determine the same values below m.                                *)
LEMMA Agree ==
    ASSUME NEW k, NEW depth, Given(k, depth),
           TheCodeOn(k),
           NEW u, NEW w, NEW now, NEW then, Solves(k, u, now), Solves(k, w, then),
           NEW rank, Ordered(k, then, rank), NEW m \in Nat,
           \A e \in CacheEntries(k) : rank[e] < m =>
               \A r \in Value(k, e, then).r \cap UserEntries(k) : u[r] = w[r]
    PROVE  \A e \in CacheEntries(k) : rank[e] < m => now[e] = then[e]
<1> DEFINE bad == {e \in CacheEntries(k) : rank[e] < m /\ now[e] # then[e]}
<1> SUFFICES ASSUME bad # {} PROVE FALSE
  OBVIOUS
<1>1. \A x \in bad : rank[x] \in Nat
  BY DEF Ordered
<1>2. PICK e \in bad : \A y \in bad : rank[e] <= rank[y]
  BY <1>1, Shallowest
<1> DEFINE R == Value(k, e, then).r
<1>3. DOMAIN now = UserEntries(k) \cup CacheEntries(k) /\ DOMAIN then = DOMAIN now
  BY DEF Solves
<1>4. ASSUME NEW r \in R PROVE r \in DOMAIN now /\ now[r] = then[r]
  <2>1. CASE r \in UserEntries(k)
    <3>1. now[r] = u[r] /\ then[r] = w[r]
      BY <2>1 DEF Solves
    <3> QED BY <1>2, <1>3, <2>1, <3>1
  <2>2. CASE r \in CacheEntries(k) /\ rank[r] < rank[e]
    <3>1. rank[r] \in Nat /\ rank[e] \in Nat
      BY <2>2 DEF Ordered
    <3>2. r \notin bad
      BY <1>2, <2>2, <3>1
    <3>3. rank[r] < m
      BY <2>2, <3>1
    <3> QED BY <1>3, <2>2, <3>2, <3>3
  <2> QED BY <2>1, <2>2 DEF Ordered, TheCodeOn
<1>5. Same(then, now, R)
  BY <1>3, <1>4 DEF Same
<1>6. Value(k, e, now) = Value(k, e, then)
  BY <1>5, LikeValue DEF Like
<1>7. now[e] = Value(k, e, now).v /\ then[e] = Value(k, e, then).v
  BY DEF Solves, TheCodeOn
<1> QED BY <1>6, <1>7

(* In a solution the cached entries are what the computations give, only   *)
(* what has a prompt is visible, and picks are the user's.                 *)
SymbolSolved(k, u, now, s) ==
    /\ Read(now, <<"vis", s>>).v = now[<<"vis", s>>]
    /\ Read(now, <<"user", s>>).v = u[<<"user", s>>]
    /\ now[<<"vis", s>>] = Visibility(k, s, now).v
    /\ now[<<"vis", s>>] # 0 => s \in k.prompted
    /\ now[<<"tri", s>>] = TriValue(k, s, now).v.val
    /\ now[<<"asg", s>>] = SymAssignable(k, s, now).v

ChoiceSolved(k, u, now, c) ==
    /\ Read(now, <<"pick", c>>).v = u[<<"pick", c>>]
    /\ Read(now, <<"sel", c>>).v = Selection(k, c, now).v

LEMMA SolutionIs ==
    ASSUME NEW k, NEW depth, Given(k, depth), TheCodeOn(k),
           NEW u, NEW now, Solves(k, u, now)
    PROVE  /\ \A s \in k.syms : SymbolSolved(k, u, now, s)
           /\ \A c \in k.choices : ChoiceSolved(k, u, now, c)
<1>1. ASSUME NEW e \in CacheEntries(k)
      PROVE  Read(now, e).v = now[e] /\ now[e] = Value(k, e, now).v
  BY DEF Solves, Read, TheCodeOn
<1>2. ASSUME NEW r \in UserEntries(k) PROVE Read(now, r).v = u[r]
  BY DEF Solves, Read
<1>3. ASSUME NEW s \in k.syms
      PROVE  /\ Read(now, <<"vis", s>>).v = now[<<"vis", s>>]
             /\ Read(now, <<"user", s>>).v = u[<<"user", s>>]
             /\ now[<<"vis", s>>] = Visibility(k, s, now).v
             /\ now[<<"tri", s>>] = TriValue(k, s, now).v.val
             /\ now[<<"asg", s>>] = SymAssignable(k, s, now).v
  <2>1. /\ <<"vis", s>> \in CacheEntries(k) /\ <<"tri", s>> \in CacheEntries(k)
        /\ <<"asg", s>> \in CacheEntries(k) /\ <<"user", s>> \in UserEntries(k)
    BY DEF CacheEntries, UserEntries
  <2>2. Value(k, <<"vis", s>>, now) = Visibility(k, s, now)
    BY DEF Value
  <2>3. Value(k, <<"tri", s>>, now).v = TriValue(k, s, now).v.val
    BY DEF Value, ValOf
  <2>4. Value(k, <<"asg", s>>, now) = SymAssignable(k, s, now)
    BY DEF Value, Given, WellFormed
  <2> QED BY <1>1, <1>2, <2>1, <2>2, <2>3, <2>4
<1>4. ASSUME NEW c \in k.choices
      PROVE  /\ Read(now, <<"pick", c>>).v = u[<<"pick", c>>]
             /\ Read(now, <<"sel", c>>).v = Selection(k, c, now).v
  <2>1. <<"pick", c>> \in UserEntries(k) /\ <<"sel", c>> \in CacheEntries(k)
    BY DEF CacheEntries, UserEntries
  <2>2. Value(k, <<"sel", c>>, now) = Selection(k, c, now)
    BY DEF Value
  <2> QED BY <1>1, <1>2, <2>1, <2>2
<1>5. \A s \in k.syms : now[<<"vis", s>>] # 0 => s \in k.prompted
  BY <1>3, PromptlessInvisible
<1> QED BY <1>3, <1>4, <1>5 DEF SymbolSolved, ChoiceSolved

(* A visibility is n, m or y, and m only of what is tristate. *)
LEMMA VisibilityIs ==
    ASSUME NEW k, NEW now, DependenciesMet(k, now), NEW s \in k.syms \ k.choices
    PROVE  /\ Visibility(k, s, now).v \in 0..2
           /\ Visibility(k, s, now).v = 1 => SymType(k, s, now).v # "bool"
<1> DEFINE strongest == StrongestPrompt(k, k.prompts[s], now)
           promoted == PromoteVisibility(k, s, strongest, now)
<1>1. strongest.v \in 0..2
  BY VisibleIsMet
<1>2. \/ Visibility(k, s, now).v = promoted.v
      \/ Visibility(k, s, now).v = 0
  BY DEF Visibility, VisibilityByPrompt, VisibilityInMode, Also, Ret
<1>3. promoted.v = IF strongest.v = 1 THEN IF SymType(k, s, now).v = "tristate" THEN 1 ELSE 2
                   ELSE strongest.v
  BY DEF PromoteVisibility, YesUnlessTristate, Also, Ret
<1> HIDE DEF strongest, promoted
<1> QED BY <1>1, <1>2, <1>3 DEF strongest

(* No prompt of a choice symbol is stronger than the mode of its choice, ... *)
LEMMA StrongestInMode ==
    ASSUME NEW k, NEW now, DependenciesMet(k, now), MembersFollow(k, now),
           NEW s \in k.syms, k.choiceOf[s] # NoItem
    PROVE  /\ ChoiceTri(k, k.choiceOf[s], now).v \in 0..2
           /\ StrongestPrompt(k, k.prompts[s], now).v <= ChoiceTri(k, k.choiceOf[s], now).v
<1> DEFINE strongest == StrongestPrompt(k, k.prompts[s], now)
           mode == ChoiceTri(k, k.choiceOf[s], now)
           conds == [n \in DOMAIN k.prompts[s] |-> ExprValue(k, k.prompts[s][n], now)]
           values == {0} \cup {conds[n].v : n \in DOMAIN conds}
<1>1. mode.v \in 0..2 /\ \A n \in DOMAIN conds : conds[n].v <= mode.v
  BY DEF MembersFollow
<1>2. \A n \in DOMAIN conds : conds[n].v \in 0..2
  BY DEF DependenciesMet
<1>3. strongest.v = Max(values)
  BY DEF StrongestPrompt
<1>4. values \subseteq 0..2 /\ values # {} /\ \A x \in values : x <= mode.v
  <2> HIDE DEF conds, mode
  <2> QED BY <1>1, <1>2
<1>5. Max(values) \in values
  <2> HIDE DEF values
  <2> QED BY <1>4, MaxOfTristates
<1> HIDE DEF values
<1> QED BY <1>1, <1>3, <1>4, <1>5

(* ... and a bool choice is in no m mode. *)
LEMMA BoolNotM ==
    ASSUME NEW k, NEW now, NEW c, k.type[c] = "bool"
    PROVE  ChoiceTri(k, c, now).v # 1
<1>1. ChoiceType(k, c, now) = Ret("bool")
  BY DEF ChoiceType
<1>2. \A m : PromoteMode(k, c, m, now).v # 1
  BY <1>1 DEF PromoteMode, YesIfBool, Also, Ret
<1> QED BY <1>2 DEF ChoiceTri

(* A choice symbol as visible as y is in a choice in y mode. *)
LEMMA VisibleMeansYes ==
    ASSUME NEW k, NEW now, DependenciesMet(k, now), MembersFollow(k, now),
           NEW s \in TriSyms(k) \ k.choices, k.choiceOf[s] # NoItem,
           Visibility(k, s, now).v = 2
    PROVE  ChoiceTri(k, k.choiceOf[s], now).v = 2
<1> DEFINE c == k.choiceOf[s]
           strongest == StrongestPrompt(k, k.prompts[s], now)
           mode == ChoiceTri(k, c, now)
<1>1. s \in k.syms /\ IsTri(k, s)
  BY DEF TriSyms
<1>2. strongest.v \in 0..2
  BY <1>1, VisibleIsMet
<1>3. k.type[c] \in {"bool", "tristate"}
  BY <1>1 DEF MembersFollow
<1>4. mode.v \in 0..2 /\ strongest.v <= mode.v
  BY <1>1, StrongestInMode
<1>5. Visibility(k, s, now) = VisibilityByPrompt(k, s, strongest, now)
  BY DEF Visibility
<1>6. ASSUME mode.v = 1 PROVE FALSE
  <2>1. k.type[c] = "tristate"
    BY <1>3, <1>6, BoolNotM
  <2>2. TypeByModules(k, now).v # "bool"
    <3>1. ChoiceType(k, c, now) = TypeByModules(k, now)
      BY <2>1 DEF ChoiceType
    <3>2. \A m : PromoteMode(k, c, m, now).v = 1 => TypeByModules(k, now).v # "bool"
      BY <3>1 DEF PromoteMode, YesIfBool, Also, Ret
    <3> QED BY <1>6, <3>2 DEF ChoiceTri
  <2>3. strongest.v \in 0..1
    BY <1>2, <1>4, <1>6
  <2> HIDE DEF strongest, mode
  <2>4. CASE k.type[s] = "bool"
    <3>1. Visibility(k, s, now) = VisibilityInMode(k, s, strongest, mode, now)
      BY <1>1, <1>5, <2>1, <2>4 DEF VisibilityByPrompt, mode
    <3>2. Visibility(k, s, now).v = 0
      BY <1>6, <2>4, <3>1 DEF VisibilityInMode, Also, Ret
    <3> QED BY <3>2
  <2>5. CASE k.type[s] = "tristate"
    <3>1. SymType(k, s, now).v = TypeByModules(k, now).v
      <4>1. SymType(k, s, now) = TypeInMode(k, mode, now)
        BY <2>5 DEF SymType, mode
      <4> QED BY <1>6, <4>1 DEF TypeInMode, Also
    <3>2. TypeByModules(k, now).v = "tristate"
      BY <2>2 DEF TypeByModules, TypeUnder, Also, Ret
    <3>3. PromoteVisibility(k, s, strongest, now).v = strongest.v
      BY <1>1, <3>1, <3>2 DEF PromoteVisibility, YesUnlessTristate, Also, Ret
    <3>4. \/ Visibility(k, s, now).v = 0
          \/ Visibility(k, s, now).v = PromoteVisibility(k, s, strongest, now).v
      BY <1>5 DEF VisibilityByPrompt, VisibilityInMode, Also, Ret
    <3> QED BY <2>3, <3>3, <3>4
  <2> QED BY <1>1, <2>4, <2>5 DEF IsTri
<1>7. mode.v # 0
  <2> SUFFICES ASSUME mode.v = 0 PROVE FALSE
    OBVIOUS
  <2>1. strongest.v = 0
    BY <1>2, <1>4
  <2> HIDE DEF strongest
  <2>2. PromoteVisibility(k, s, strongest, now).v = 0
    BY <2>1 DEF PromoteVisibility
  <2> QED BY <1>5, <2>2 DEF VisibilityByPrompt, VisibilityInMode, Also, Ret
<1> QED BY <1>4, <1>6, <1>7

(* The two functions that have to agree, by their cases: what _assignable  *)
(* returns ...                                                             *)
LEMMA AssignableIs ==
    ASSUME NEW k, NEW s \in TriSyms(k), NEW view
    PROVE  LET V == Read(view, <<"vis", s>>).v
               R == ExprValue(k, k.rev[s], view).v
               asg == SymAssignable(k, s, view).v
           IN /\ V = 0 => asg = {}
              /\ V = 2 /\ k.choiceOf[s] # NoItem => asg = {2}
              /\ V = 2 /\ k.choiceOf[s] = NoItem /\ R # 2 =>
                    asg = IF NeverM(k, s, view).v = 2 THEN (R..2) \ {1} ELSE R..2
              /\ V = 1 /\ R = 0 =>
                    asg = {0, IF ExprValue(k, k.weak[s], view).v = 2 THEN 2 ELSE 1}
              /\ V = 1 /\ R = 1 => asg = {1}
              /\ V \in 1..2 /\ k.choiceOf[s] = NoItem /\ R = 2 => asg = {2}
<1> DEFINE vis == Read(view, <<"vis", s>>)
           rev == ExprValue(k, k.rev[s], view)
<1>1. SymAssignable(k, s, view) = IfVisible(k, s, vis, view)
  BY DEF SymAssignable, TriSyms
<1> HIDE DEF vis, rev
<1>2. vis.v = 0 => IfVisible(k, s, vis, view).v = {}
  BY DEF IfVisible, Also, Ret
<1>3. vis.v # 0 => IfVisible(k, s, vis, view) = AssignableUnder(k, s, vis, rev, view)
  BY DEF IfVisible, rev
<1> DEFINE under == AssignableUnder(k, s, vis, rev, view)
<1>4. vis.v = 2 /\ k.choiceOf[s] # NoItem => under.v = {2}
  BY DEF AssignableUnder, Also, Ret
<1>5. vis.v = 2 /\ k.choiceOf[s] = NoItem /\ rev.v # 2 =>
          under.v = IF NeverM(k, s, view).v = 2 THEN (rev.v..2) \ {1} ELSE rev.v..2
  <2>1. \A y, values : WithoutM(y, values).v = IF y.v = 2 THEN values \ {1} ELSE values
    BY DEF WithoutM, Also, Ret
  <2>2. vis.v = 2 /\ k.choiceOf[s] = NoItem /\ rev.v # 2 =>
            under = Also(Also(vis, rev), WithoutM(NeverM(k, s, view), rev.v..2))
    BY DEF AssignableUnder
  <2>3. \A x, y : Also(x, y).v = y.v
    BY DEF Also
  <2>4. vis.v = 2 /\ k.choiceOf[s] = NoItem /\ rev.v # 2 =>
            under.v = WithoutM(NeverM(k, s, view), rev.v..2).v
    BY <2>2, <2>3
  <2> HIDE DEF under
  <2> QED BY ZenonT(60), <2>1, <2>4
<1>6. vis.v = 1 /\ rev.v = 0 =>
          under.v = {0, IF ExprValue(k, k.weak[s], view).v = 2 THEN 2 ELSE 1}
  BY DEF AssignableUnder, Also, Ret
<1>7. vis.v = 1 /\ rev.v = 1 => under.v = {1}
  BY DEF AssignableUnder, Also, Ret
<1>8. vis.v \in 1..2 /\ k.choiceOf[s] = NoItem /\ rev.v = 2 => under.v = {2}
  BY DEF AssignableUnder, Also, Ret
<1> HIDE DEF under
<1> QED BY <1>1, <1>2, <1>3, <1>4, <1>5, <1>6, <1>7, <1>8 DEF vis, rev, under

(* ... and what tri_value makes of a user value that counts. *)
LEMMA PlainTriIs ==
    ASSUME NEW k, NEW s, NEW view, NEW vis \in 1..2, NEW v \in 0..2,
           Read(view, <<"user", s>>).v = v, ExprValue(k, k.rev[s], view).v \in 0..2
    PROVE  LET rev == ExprValue(k, k.rev[s], view)
               never == NeverM(k, s, view)
               val == Max2(rev.v, Min2(v, vis))
               tri == PlainTri(k, s, vis, view)
           IN /\ tri.v.val = IF val = 1 /\ never.v = 2 THEN 2 ELSE val
              /\ rev.r \subseteq tri.r
              /\ val = 1 => never.r \subseteq tri.r
<1> DEFINE rev == ExprValue(k, k.rev[s], view)
           never == NeverM(k, s, view)
           own == OwnValue(k, s, vis, view)
           unmet == IF rev.v = 0 THEN Ret(0)
                    ELSE UnmetSelect(k, s, rev, ExprValue(k, k.direct[s], view), view)
           val == Max2(rev.v, own.v.val)
           result == [val |-> val, write |-> own.v.write \/ rev.v # 0]
           last == IF val # 1 THEN Ret(result) ELSE Promoted(result, never)
<1>1. own.v.val = Min2(v, vis)
  <2>1. UserValue(s, vis, view) = Read(view, <<"user", s>>)
    BY DEF UserValue
  <2>2. v # Unset
    BY UnsetAssumption
  <2> QED BY <2>1, <2>2 DEF OwnValue, OwnOrUser, Also, Ret
<1>2. PlainTri(k, s, vis, view) = Also(Also(Also(own, rev), unmet), last)
  BY DEF PlainTri, WithSelect
<1>3. last.v.val = IF val = 1 /\ never.v = 2 THEN 2 ELSE val
  <2>1. CASE val = 1
    <3> HIDE DEF val, never
    <3> QED BY <2>1 DEF Promoted, Also, Ret
  <2>2. CASE val # 1
    <3> HIDE DEF val, never
    <3> QED BY <2>2 DEF Ret
  <2> QED BY <2>1, <2>2
<1>4. val = 1 => never.r \subseteq last.r
  <2> HIDE DEF val, never, result
  <2> QED BY DEF Promoted, Also
<1> HIDE DEF last, unmet, rev, never, own
<1>5. /\ PlainTri(k, s, vis, view).v = last.v
      /\ PlainTri(k, s, vis, view).r = ((own.r \cup rev.r) \cup unmet.r) \cup last.r
  BY <1>2 DEF Also
<1> QED BY <1>1, <1>3, <1>4, <1>5 DEF rev, never

(* What the selection of a choice in y mode becomes if its pick is visible *)
LEMMA PickedIs ==
    ASSUME NEW k, NEW c, NEW s, s # NoItem, NEW view, Read(view, <<"pick", c>>).v = s
    PROVE  /\ <<"pick", c>> \in Selection(k, c, view).r => <<"vis", s>> \in Selection(k, c, view).r
           /\ ChoiceTri(k, c, view).v = 2 /\ Read(view, <<"vis", s>>).v # 0 =>
                 Selection(k, c, view).v = s
<1> DEFINE mode == ChoiceTri(k, c, view)
           pick == Read(view, <<"pick", c>>)
           vis == Read(view, <<"vis", s>>)
           rest == IF vis.v # 0 THEN Ret(pick.v) ELSE SelectionFromDefaults(k, c, view)
<1>1. Picked(k, c, pick, view) = Also(Also(pick, vis), rest)
  BY DEF Picked, PickIfVisible
<1>2. <<"pick", c>> \notin mode.r
  BY QuietTypes DEF Quiet
<1>3. vis.r = {<<"vis", s>>}
  BY DEF Read
<1>4. Selection(k, c, view) = SelectionIn(k, c, mode, view)
  BY DEF Selection
<1>5. CASE mode.v = 2
  <2>1. SelectionIn(k, c, mode, view) = Also(mode, Also(Also(pick, vis), rest))
    BY <1>1, <1>5 DEF SelectionIn
  <2>2. rest.v = IF vis.v # 0 THEN s ELSE SelectionFromDefaults(k, c, view).v
    BY DEF Ret
  <2> HIDE DEF mode, pick, vis, rest
  <2> QED BY <1>3, <1>4, <2>1, <2>2 DEF Also, mode, vis
<1>6. CASE mode.v # 2
  <2>1. SelectionIn(k, c, mode, view).r = mode.r
    BY <1>6 DEF SelectionIn, Also, Ret
  <2> QED BY <1>2, <1>4, <1>6, <2>1
<1> QED BY <1>5, <1>6

(* What set_value leaves: v as the user value of s, s as the pick of its   *)
(* choice if v is y, and everything else as it was.                        *)
SetTo(k, u, s, v, w) ==
    LET c == k.choiceOf[s]
    IN /\ v \in 0..2 /\ w[<<"user", s>>] = v
       /\ c # NoItem /\ v = 2 => w[<<"pick", c>>] = s
       /\ \A r \in UserEntries(k) :
              r # <<"user", s>> /\ ~(c # NoItem /\ v = 2 /\ r = <<"pick", c>>) => w[r] = u[r]
       /\ \A d \in k.choices : w[<<"pick", d>>] \in Members(k, d) \cup {NoItem}

LEMMA AfterSetIs ==
    ASSUME NEW k, NEW depth, Given(k, depth), NEW u, UserFits(u, k), NEW s \in TriSyms(k),
           NEW v \in Levels(k, s), NEW w, w = AfterSet(k, u, s, v)
    PROVE  SetTo(k, u, s, v, w)
<1> DEFINE c == k.choiceOf[s]
<1>1. s \in k.syms /\ v \in 0..2
  BY DEF TriSyms, Levels
<1>2. DOMAIN u = UserEntries(k) /\ <<"user", s>> \in UserEntries(k)
  BY <1>1 DEF UserFits, UserEntries
<1>3. /\ c # NoItem => c \in k.choices /\ s \in Members(k, c)
      /\ \A d \in k.choices : u[<<"pick", d>>] \in Members(k, d) \cup {NoItem}
  <2>1. \A t \in k.syms : k.choiceOf[t] # NoItem => k.choiceOf[t] \in k.choices /\ t \in Members(k, k.choiceOf[t])
    BY DEF Given, WellFormed, ChoicesRight
  <2>2. NoItem \notin k.choices
    BY DEF Given, WellFormed
  <2> QED BY <1>1, <2>1, <2>2 DEF UserFits
<1>4. \A d \in k.choices : <<"pick", d>> \in UserEntries(k) /\ <<"pick", d>> # <<"user", s>>
  BY DEF UserEntries
<1>5. CASE c # NoItem /\ v = 2
  <2>1. w = [u EXCEPT ![<<"user", s>>] = v, ![<<"pick", c>>] = s]
    BY <1>5 DEF AfterSet
  <2>2. w[<<"user", s>>] = v /\ w[<<"pick", c>>] = s
    BY <1>2, <1>3, <1>4, <1>5, <2>1
  <2>3. \A r \in UserEntries(k) : r # <<"user", s>> /\ r # <<"pick", c>> => w[r] = u[r]
    BY <1>2, <2>1
  <2>4. ASSUME NEW d \in k.choices PROVE w[<<"pick", d>>] \in Members(k, d) \cup {NoItem}
    <3>1. CASE d = c
      BY <1>3, <1>5, <2>2, <3>1
    <3>2. CASE d # c
      <4>1. <<"pick", d>> # <<"pick", c>>
        BY <3>2
      <4> QED BY <1>3, <1>4, <2>3, <4>1
    <3> QED BY <3>1, <3>2
  <2> QED BY <1>1, <1>5, <2>2, <2>3, <2>4 DEF SetTo
<1>6. CASE ~(c # NoItem /\ v = 2)
  <2>1. w = [u EXCEPT ![<<"user", s>>] = v]
    BY <1>6 DEF AfterSet
  <2>2. \A r \in UserEntries(k) : r # <<"user", s>> => w[r] = u[r]
    BY <1>2, <2>1
  <2> QED BY <1>1, <1>2, <1>3, <1>4, <1>6, <2>1, <2>2 DEF SetTo
<1> QED BY <1>5, <1>6

(* What the assignment leaves as it was: the visibility of s and, without  *)
(* a choice, everything else its value rests on.                           *)
Kept(k, s, now, then) ==
    /\ now[<<"vis", s>>] = then[<<"vis", s>>]
    /\ k.choiceOf[s] = NoItem =>
          \A r \in Value(k, <<"tri", s>>, then).r :
              r # <<"user", s>> => r \in DOMAIN now /\ r \in DOMAIN then /\ now[r] = then[r]

LEMMA AssignmentKeeps ==
    ASSUME NEW k, NEW depth, Given(k, depth), TheCodeOn(k),
           NEW u, UserFits(u, k), NEW s \in TriSyms(k), NEW v \in Levels(k, s),
           NEW w, w = AfterSet(k, u, s, v),
           NEW now, NEW then, Solves(k, u, now), Solves(k, w, then),
           NEW rank, Ordered(k, then, rank)
    PROVE  Kept(k, s, now, then)
<1> DEFINE c == k.choiceOf[s]
           vis == <<"vis", s>>
           tri == <<"tri", s>>
<1>1. s \in k.syms /\ IsTri(k, s) /\ vis \in CacheEntries(k) /\ tri \in CacheEntries(k)
  BY DEF TriSyms, CacheEntries
<1>2. vis \in Value(k, tri, then).r
  <2>1. Value(k, tri, then).r = TriOfVisible(k, s, Read(then, vis), then).r
    BY <1>1 DEF Value, ValOf, TriValue
  <2> QED BY <2>1 DEF TriOfVisible, Also, Read
<1>3. /\ rank[vis] \in Nat /\ rank[tri] \in Nat /\ rank[vis] < rank[tri]
      /\ c # NoItem /\ v = 2 => <<"sel", c>> \in CacheEntries(k)
  <2>1. vis \notin UserEntries(k)
    BY <1>1, Disjoint
  <2>2. c # NoItem => c \in k.choices
    BY <1>1 DEF Given, WellFormed, ChoicesRight
  <2> QED BY <1>1, <1>2, <2>1, <2>2 DEF Ordered, CacheEntries, TheCodeOn
<1>4. /\ \A r \in UserEntries(k) :
            r # <<"user", s>> /\ ~(c # NoItem /\ v = 2 /\ r = <<"pick", c>>) => w[r] = u[r]
      /\ c # NoItem /\ v = 2 => w[<<"pick", c>>] = s
      /\ \A d \in k.choices : w[<<"pick", d>>] \in Members(k, d) \cup {NoItem}
  <2>1. SetTo(k, u, s, v, w)
    BY AfterSetIs
  <2> QED BY <2>1 DEF SetTo
<1>5. /\ \A t \in k.syms : Read(then, <<"vis", t>>).v # 0 => t \in k.prompted
      /\ \A d \in k.choices : Read(then, <<"pick", d>>).v = w[<<"pick", d>>]
  <2>1. \A t \in k.syms : SymbolSolved(k, w, then, t)
    BY SolutionIs
  <2>2. \A d \in k.choices : ChoiceSolved(k, w, then, d)
    BY SolutionIs
  <2> QED BY <2>1, <2>2 DEF SymbolSolved, ChoiceSolved
<1>6. ASSUME NEW e \in CacheEntries(k)
      PROVE  /\ <<"user", s>> \in Value(k, e, then).r => e = tri
             /\ c # NoItem /\ <<"pick", c>> \in Value(k, e, then).r => e = <<"sel", c>>
  <2>1. \A t \in k.syms : Read(then, <<"vis", t>>).v # 0 => t \in k.prompted
    BY <1>5
  <2>2. \A d \in k.choices : Read(then, <<"pick", d>>).v \in Members(k, d) \cup {NoItem}
    BY <1>4, <1>5
  <2>3. c # NoItem => c \in k.choices
    BY <1>1 DEF Given, WellFormed, ChoicesRight
  <2> QED BY <2>1, <2>2, <2>3, UsersReadOnce
<1>7. ASSUME c # NoItem, v = 2, <<"pick", c>> \in Value(k, <<"sel", c>>, then).r
      PROVE  rank[vis] < rank[<<"sel", c>>]
  <2>1. c \in k.choices /\ s # NoItem
    BY <1>1, <1>7 DEF Given, WellFormed, ChoicesRight
  <2>2. Read(then, <<"pick", c>>).v = s
    BY <1>4, <1>5, <1>7, <2>1
  <2>3. Value(k, <<"sel", c>>, then) = Selection(k, c, then)
    BY DEF Value
  <2>4. vis \in Value(k, <<"sel", c>>, then).r
    BY <1>7, <2>1, <2>2, <2>3, PickedIs
  <2>5. vis \notin UserEntries(k)
    BY <1>1, Disjoint
  <2> QED BY <1>3, <1>7, <2>4, <2>5 DEF Ordered, TheCodeOn
<1>8. ASSUME NEW e \in CacheEntries(k), rank[e] < rank[vis] + 1,
             NEW r \in Value(k, e, then).r \cap UserEntries(k)
      PROVE  u[r] = w[r]
  <2>1. rank[e] \in Nat
    BY DEF Ordered
  <2>2. r # <<"user", s>>
    BY <1>3, <1>6, <1>8, <2>1
  <2>3. ~(c # NoItem /\ v = 2 /\ r = <<"pick", c>>)
    <3> SUFFICES ASSUME c # NoItem, v = 2, r = <<"pick", c>> PROVE FALSE
      OBVIOUS
    <3>1. e = <<"sel", c>>
      BY <1>6
    <3> QED BY <1>3, <1>7, <1>8, <2>1, <3>1
  <2> QED BY <1>4, <2>2, <2>3
<1>9. now[vis] = then[vis]
  <2>1. rank[vis] + 1 \in Nat /\ rank[vis] < rank[vis] + 1
    BY <1>3
  <2> QED BY <1>1, <1>8, <2>1, Agree
<1>10. ASSUME c = NoItem, NEW r \in Value(k, tri, then).r, r # <<"user", s>>
       PROVE  r \in DOMAIN now /\ r \in DOMAIN then /\ now[r] = then[r]
  <2>1. ASSUME NEW e \in CacheEntries(k), rank[e] < rank[tri],
               NEW x \in Value(k, e, then).r \cap UserEntries(k)
        PROVE  u[x] = w[x]
    <3>1. x # <<"user", s>>
      BY <1>3, <1>6, <2>1
    <3> QED BY <1>4, <1>10, <3>1
  <2>2. \A e \in CacheEntries(k) : rank[e] < rank[tri] => now[e] = then[e]
    BY <1>3, <2>1, Agree
  <2>3. r \in UserEntries(k) \/ (r \in CacheEntries(k) /\ rank[r] < rank[tri])
    BY <1>1, <1>10 DEF Ordered, TheCodeOn
  <2>4. r \in UserEntries(k) => now[r] = u[r] /\ then[r] = w[r] /\ w[r] = u[r]
    BY <1>4, <1>10 DEF Solves
  <2> QED BY <2>2, <2>3, <2>4 DEF Solves
<1> QED BY <1>9, <1>10 DEF Kept

(* Outside of choices assigning gives what was assignable, and nothing     *)
(* else.                                                                   *)
LEMMA PlainRespected ==
    ASSUME NEW k, NEW depth, Given(k, depth),
           TheCodeOn(k),
           NEW u, UserFits(u, k), NEW s \in TriSyms(k), NEW v \in Levels(k, s),
           NEW w, w = AfterSet(k, u, s, v),
           NEW now, NEW then, Solves(k, u, now), Solves(k, w, then),
           NEW rank, Ordered(k, then, rank),
           DependenciesMet(k, now), SelectsRight(k, now),
           k.choiceOf[s] = NoItem, now[<<"vis", s>>] # 0
    PROVE  v \in now[<<"asg", s>>] <=> then[<<"tri", s>>] = v
<1> DEFINE V == now[<<"vis", s>>]
           rev == ExprValue(k, k.rev[s], now)
           never == NeverM(k, s, now)
           weak == ExprValue(k, k.weak[s], now)
           tri == PlainTri(k, s, V, then)
           val == Max2(rev.v, Min2(v, V))
           asg == SymAssignable(k, s, now).v
<1>1. s \in k.syms /\ s \notin k.choices /\ v \in 0..2
  BY DEF TriSyms, Levels, Given, WellFormed
<1>2. V \in 1..2 /\ (V = 1 => SymType(k, s, now).v # "bool") /\ Read(now, <<"vis", s>>).v = V
  <2>1. SymbolSolved(k, u, now, s)
    BY <1>1, SolutionIs
  <2> QED BY <1>1, <2>1, VisibilityIs DEF SymbolSolved
<1>3. V = 1 => never.v = weak.v
  BY <1>2 DEF NeverM, NeverMOfType, Also
<1>4. /\ then[<<"tri", s>>] = tri.v.val /\ Read(then, <<"user", s>>).v = v
      /\ tri.r \subseteq Value(k, <<"tri", s>>, then).r
  <2>1. SymbolSolved(k, w, then, s)
    BY <1>1, AfterSetIs, SolutionIs
  <2>2. V = Read(then, <<"vis", s>>).v
    BY <2>1, AssignmentKeeps DEF SymbolSolved, Kept
  <2>3. TriValue(k, s, then) = Also(Read(then, <<"vis", s>>), tri)
    BY <2>2 DEF TriValue, TriOfVisible, TriSyms
  <2>4. SetTo(k, u, s, v, w)
    BY AfterSetIs
  <2>5. Value(k, <<"tri", s>>, then) = ValOf(TriValue(k, s, then))
    BY DEF Value
  <2> HIDE DEF tri
  <2> QED BY <2>1, <2>3, <2>4, <2>5 DEF SymbolSolved, SetTo, Also, ValOf
<1>5. ASSUME NEW x, x.r \subseteq tri.r, Quiet(x) PROVE Same(then, now, x.r)
  <2>1. \A r \in x.r : r # <<"user", s>>
    BY <1>5 DEF Quiet
  <2>2. \A r \in Value(k, <<"tri", s>>, then).r :
            r # <<"user", s>> => r \in DOMAIN now /\ r \in DOMAIN then /\ now[r] = then[r]
    <3>1. Kept(k, s, now, then)
      BY AssignmentKeeps
    <3> QED BY <3>1 DEF Kept
  <2> HIDE DEF tri
  <2> QED BY <1>4, <1>5, <2>1, <2>2 DEF Same
<1>6. rev.v \in 0..2 /\ ~(V = 1 /\ rev.v = 1 /\ weak.v = 2)
  BY DEF SelectsRight
<1> DEFINE rev2 == ExprValue(k, k.rev[s], then)
           never2 == NeverM(k, s, then)
<1>7. rev2.r \subseteq tri.r
  <2> HIDE DEF V
  <2> QED BY DEF PlainTri, WithSelect, Also
<1>8. rev = rev2
  <2>1. Like(then, now, rev2, rev)
    BY <1>1, LikeExprs
  <2>2. Quiet(rev2)
    BY <1>1, QuietExprs
  <2> HIDE DEF rev, rev2, tri
  <2> QED BY <1>5, <1>7, <2>1, <2>2 DEF Like
<1>9. /\ tri.v.val = IF val = 1 /\ never2.v = 2 THEN 2 ELSE val
      /\ val = 1 => never2.r \subseteq tri.r
  BY SMTT(30), <1>1, <1>2, <1>4, <1>6, <1>8, PlainTriIs
<1>10. val = 1 => never2 = never
  <2>1. Like(then, now, never2, never)
    BY <1>1, LikeExprs
  <2>2. Quiet(never2)
    BY <1>1, QuietExprs
  <2> HIDE DEF never, never2, tri, val
  <2> QED BY <1>5, <1>9, <2>1, <2>2 DEF Like
<1>11. /\ V = 2 /\ rev.v # 2 => asg = IF never.v = 2 THEN (rev.v..2) \ {1} ELSE rev.v..2
       /\ V = 1 /\ rev.v = 0 => asg = {0, IF weak.v = 2 THEN 2 ELSE 1}
       /\ V = 1 /\ rev.v = 1 => asg = {1}
       /\ rev.v = 2 => asg = {2}
  BY <1>2, AssignableIs
<1>12. now[<<"asg", s>>] = asg
  <2>1. SymbolSolved(k, u, now, s)
    BY <1>1, SolutionIs
  <2> QED BY <2>1 DEF SymbolSolved
<1> HIDE DEF V, rev, never, weak, tri, asg, never2, rev2
<1>13. v \in asg <=> (IF val = 1 /\ never2.v = 2 THEN 2 ELSE val) = v
  <2>1. CASE rev.v = 2
    BY <1>1, <1>2, <1>11, <2>1 DEF Max2, Min2
  <2>2. CASE V = 2 /\ rev.v # 2
    BY <1>1, <1>6, <1>10, <1>11, <2>2 DEF Max2, Min2
  <2>3. CASE V = 1 /\ rev.v = 0
    BY <1>1, <1>3, <1>10, <1>11, <2>3 DEF Max2, Min2
  <2>4. CASE V = 1 /\ rev.v = 1
    BY <1>1, <1>3, <1>6, <1>10, <1>11, <2>4 DEF Max2, Min2
  <2> QED BY <1>2, <1>6, <2>1, <2>2, <2>3, <2>4
<1> QED BY <1>4, <1>9, <1>12, <1>13

(* A symbol of a choice gets what was assignable. *)
LEMMA MemberRespected ==
    ASSUME NEW k, NEW depth, Given(k, depth),
           TheCodeOn(k),
           NEW u, UserFits(u, k), NEW s \in TriSyms(k), NEW v \in Levels(k, s),
           NEW w, w = AfterSet(k, u, s, v),
           NEW now, NEW then, Solves(k, u, now), Solves(k, w, then),
           NEW rank, Ordered(k, then, rank),
           DependenciesMet(k, now), SelectsRight(k, now),
           DependenciesMet(k, then), MembersFollow(k, then),
           k.choiceOf[s] # NoItem, v \in now[<<"asg", s>>]
    PROVE  then[<<"tri", s>>] = v
<1> DEFINE c == k.choiceOf[s]
           V == now[<<"vis", s>>]
<1>1. s \in k.syms /\ s \notin k.choices /\ v \in 0..2 /\ c \in k.choices /\ s # NoItem
  BY DEF TriSyms, Levels, Given, WellFormed, ChoicesRight
<1>2. V \in 0..2 /\ Read(now, <<"vis", s>>).v = V /\ v \in SymAssignable(k, s, now).v
  <2>1. SymbolSolved(k, u, now, s)
    BY <1>1, SolutionIs
  <2> QED BY <1>1, <2>1, VisibilityIs DEF SymbolSolved
<1>3. (V = 2 /\ v = 2) \/ (V = 1 /\ v \in 0..1)
  <2>1. ExprValue(k, k.rev[s], now).v = 0 /\ ExprValue(k, k.weak[s], now).v = 0
    BY DEF SelectsRight
  <2> DEFINE asg == SymAssignable(k, s, now).v
  <2>2. /\ V = 0 => asg = {}
        /\ V = 2 => asg = {2}
        /\ V = 1 => asg = {0, IF ExprValue(k, k.weak[s], now).v = 2 THEN 2 ELSE 1}
    BY ZenonT(60), <1>2, <2>1, AssignableIs
  <2> QED BY <1>2, <2>1, <2>2
<1>4. SymbolSolved(k, w, then, s) /\ ChoiceSolved(k, w, then, c)
  BY <1>1, AfterSetIs, SolutionIs
<1>5. SetTo(k, u, s, v, w)
  BY AfterSetIs
<1>6. Read(then, <<"vis", s>>).v = V /\ Visibility(k, s, then).v = V
  BY <1>4, AssignmentKeeps DEF SymbolSolved, Kept
<1>7. then[<<"tri", s>>] = MemberTri(k, s, V, then).v.val
  <2>1. TriValue(k, s, then) = Also(Read(then, <<"vis", s>>), MemberTri(k, s, V, then))
    BY <1>6 DEF TriValue, TriOfVisible, TriSyms
  <2> HIDE DEF V
  <2> QED BY <1>4, <2>1 DEF SymbolSolved, Also
<1>8. CASE V = 2 /\ v = 2
  <2>1. ChoiceTri(k, c, then).v = 2
    BY <1>1, <1>6, <1>8, VisibleMeansYes
  <2>2. Read(then, <<"pick", c>>).v = s
    BY <1>4, <1>5, <1>8 DEF ChoiceSolved, SetTo
  <2>3. Read(then, <<"sel", c>>).v = s
    <3>1. Selection(k, c, then).v = s
      BY <1>1, <1>6, <1>8, <2>1, <2>2, PickedIs
    <3> QED BY <1>4, <3>1 DEF ChoiceSolved
  <2>4. MemberTri(k, s, V, then).v.val = 2
    <3>1. MemberTri(k, s, V, then) = IfSelected(s, Read(then, <<"sel", c>>))
      BY <1>8 DEF MemberTri
    <3> QED BY <2>3, <3>1 DEF IfSelected, Also, Ret
  <2> QED BY <1>7, <1>8, <2>4
<1>9. CASE V = 1 /\ v \in 0..1
  <2>1. MemberTri(k, s, V, then) = IfUser(Read(then, <<"user", s>>), V)
    BY <1>9 DEF MemberTri, UserValue
  <2>2. Read(then, <<"user", s>>).v = v /\ v # Unset
    BY <1>4, <1>5, <1>9, UnsetAssumption DEF SymbolSolved, SetTo
  <2>3. MemberTri(k, s, V, then).v.val = v
    BY <1>9, <2>1, <2>2 DEF IfUser, Also, Ret
  <2> QED BY <1>7, <2>3
<1> QED BY <1>3, <1>8, <1>9

(* Whatever was assigned before, "the tristate user values that can        *)
(* currently be assigned to the symbol" are the ones tri_value respects:   *)
(* of what set_value can give a bool or tristate symbol, exactly those     *)
(* become its value outside of choices, and those do in a choice.          *)
THEOREM CodeAssignableRespected ==
    ASSUME NEW depth, TheEvaluation(depth), NEW rank,
           FreshSolves, FreshDependenciesMet, FreshSelectsRight, FreshAssigned(rank)
    PROVE  Spec => []AssignableRespected
<1>1. TypeOK /\ UserShape => AssignableRespected
  <2> DEFINE now == Fresh(K, user)
  <2> SUFFICES ASSUME TypeOK, UserShape, NEW s \in TriSyms(K), NEW v \in Levels(K, s),
                      NEW w, w = AfterSet(K, user, s, v), NEW then, then = Fresh(K, w)
               PROVE  IF v \in now[<<"asg", s>>] THEN then[<<"tri", s>>] = v
                      ELSE \/ now[<<"vis", s>>] = 0
                           \/ K.choiceOf[s] # NoItem
                           \/ then[<<"tri", s>>] # v
    BY DEF AssignableRespected
  <2>1. kc \in DOMAIN Kconfigs /\ K = Kconfigs[kc]
    BY DEF TypeOK, K
  <2>2. user \in UserValues(K) /\ UserFits(user, K)
    BY FittingValues DEF UserShape
  <2>3. Solves(K, user, now) /\ DependenciesMet(K, now) /\ SelectsRight(K, now)
    BY <2>1, <2>2 DEF FreshSolves, FreshDependenciesMet, FreshSelectsRight
  <2>4. w \in Assignments(K, user)
    BY DEF Assignments
  <2>5. /\ Solves(K, w, then) /\ Ordered(K, then, rank[kc])
        /\ DependenciesMet(K, then) /\ MembersFollow(K, then)
    BY <2>1, <2>2, <2>4 DEF FreshAssigned
  <2>6. Given(K, depth) /\ TheCodeOn(K)
    BY <2>1 DEF TheEvaluation, TheCodeOn
  <2> HIDE DEF now
  <2>7. CASE K.choiceOf[s] = NoItem /\ now[<<"vis", s>>] # 0
    <3>1. v \in now[<<"asg", s>>] <=> then[<<"tri", s>>] = v
      BY <2>2, <2>3, <2>5, <2>6, <2>7, PlainRespected
    <3> QED BY <3>1
  <2>8. CASE K.choiceOf[s] = NoItem /\ now[<<"vis", s>>] = 0
    <3>1. s \in K.syms
      BY DEF TriSyms
    <3>2. SymbolSolved(K, user, now, s)
      BY <2>3, <2>6, <3>1, SolutionIs
    <3>3. now[<<"asg", s>>] = {}
      BY <2>8, <3>2, AssignableIs DEF SymbolSolved
    <3> QED BY <2>8, <3>3
  <2>9. CASE K.choiceOf[s] # NoItem
    <3>1. v \in now[<<"asg", s>>] => then[<<"tri", s>>] = v
      BY <2>2, <2>3, <2>5, <2>6, <2>9, MemberRespected
    <3> QED BY <2>9, <3>1
  <2> QED BY <2>7, <2>8, <2>9
<1> QED BY <1>1, TypeCorrect, UserKeepsShape, PTL

-----------------------------------------------------------------------------
(* Results are alike if their values are the same, whatever was read for   *)
(* them.  Entries agree if the cached attributes are the same, and with    *)
(* them the modes of choices: they may differ in what the user said.       *)
Alike(x, y) == y.v = x.v

Agreeing(k, a, b) ==
    /\ \A i : \A attr \in {"vis", "tri", "str", "asg", "sel"} :
          Alike(Read(a, <<attr, i>>), Read(b, <<attr, i>>))
    /\ \A c \in k.choices : Alike(ChoiceTri(k, c, a), ChoiceTri(k, c, b))

LEMMA AlikeParts ==
    /\ \A v : Alike(Ret(v), Ret(v))
    /\ \A x, y, f, g : Alike(f, g) => Alike(Also(x, f), Also(y, g))
    /\ \A x, y, f, g : Alike(x, y) /\ Alike(f, g) =>
          Alike(MinOf(x, f), MinOf(y, g)) /\ Alike(MaxOf(x, f), MaxOf(y, g))
BY DEF Alike, Also, MinOf, MaxOf

(* The types of choices take no more than the value of MODULES.            *)
LEMMA AlikeModules ==
    ASSUME NEW a, NEW b, NEW k,
           Alike(Read(a, <<"tri", Modules>>), Read(b, <<"tri", Modules>>))
    PROVE  /\ Alike(TypeByModules(k, a), TypeByModules(k, b))
           /\ \A c : Alike(YesIfBool(ChoiceType(k, c, a)), YesIfBool(ChoiceType(k, c, b)))
           /\ \A c : Alike(ChoiceType(k, c, a), ChoiceType(k, c, b))
<1>1. \A x, y : Alike(x, y) => Alike(TypeUnder(x), TypeUnder(y)) /\ Alike(YesIfBool(x), YesIfBool(y))
  BY DEF Alike, TypeUnder, YesIfBool, Also
<1>2. Alike(TypeByModules(k, a), TypeByModules(k, b))
  BY <1>1, AlikeParts DEF TypeByModules
<1>3. \A c : Alike(ChoiceType(k, c, a), ChoiceType(k, c, b))
  BY <1>2, AlikeParts DEF ChoiceType
<1> QED BY <1>1, <1>2, <1>3

LEMMA AlikeTypes ==
    ASSUME NEW a, NEW b, NEW k, Agreeing(k, a, b), NEW s,
           k.choiceOf[s] \in k.choices \cup {NoItem}
    PROVE  Alike(SymType(k, s, a), SymType(k, s, b))
<1>1. Alike(TypeByModules(k, a), TypeByModules(k, b))
  BY AlikeModules DEF Agreeing
<1>2. \A x, y : Alike(x, y) => Alike(TypeInMode(k, x, a), TypeInMode(k, y, b))
  BY <1>1, AlikeParts DEF TypeInMode, Alike
<1>3. k.choiceOf[s] # NoItem =>
          Alike(ChoiceTri(k, k.choiceOf[s], a), ChoiceTri(k, k.choiceOf[s], b))
  BY DEF Agreeing
<1> QED BY <1>2, <1>3, AlikeParts DEF SymType

LEMMA AlikeOperand ==
    ASSUME NEW a, NEW b, NEW k, Agreeing(k, a, b), NEW op
    PROVE  /\ Leaf(op) => Alike(SymToNum(k, op, a), SymToNum(k, op, b))
           /\ Alike(Operand(k, op, a), Operand(k, op, b))
<1>1. \A i : /\ Alike(Read(a, <<"tri", i>>), Read(b, <<"tri", i>>))
             /\ Alike(Read(a, <<"str", i>>), Read(b, <<"str", i>>))
  BY DEF Agreeing
<1>2. CASE op[1] = "const"
  BY <1>2, AlikeParts DEF SymToNum, Operand
<1>3. CASE op[1] = "item"
  BY <1>1, <1>3, AlikeParts DEF SymToNum, Operand
<1>4. CASE ~Leaf(op)
  BY <1>1, <1>4 DEF Operand, Leaf
<1> QED BY <1>2, <1>3, <1>4 DEF Leaf

LEMMA AlikeExprStep ==
    ASSUME NEW a, NEW b, NEW depth, Equations(depth), NEW e \in DOMAIN depth,
           NEW k, Agreeing(k, a, b), k.syms \cap k.choices = {},
           \A part \in DOMAIN depth : depth[part] < depth[e] =>
               Alike(ExprValue(k, part, a), ExprValue(k, part, b))
    PROVE  Alike(ExprValue(k, e, a), ExprValue(k, e, b))
<1>1. /\ ExprValue(k, e, a) = ExprStep(k, e, a)
      /\ ExprValue(k, e, b) = ExprStep(k, e, b)
  BY DEF Equations
<1>2. CASE e[1] = "const"
  BY <1>1, <1>2, AlikeParts DEF ExprStep
<1>3. CASE e[1] = "item"
  <2>1. CASE e[2] \in k.choices
    <3>1. ExprStep(k, e, a) = ChoiceTri(k, e[2], a) /\ ExprStep(k, e, b) = ChoiceTri(k, e[2], b)
      BY <1>3, <2>1 DEF ExprStep
    <3> QED BY <1>1, <2>1, <3>1 DEF Agreeing
  <2>2. CASE e[2] \notin k.choices
    <3>1. Alike(Read(a, <<"tri", e[2]>>), Read(b, <<"tri", e[2]>>))
      BY DEF Agreeing
    <3> QED BY <1>1, <1>3, <2>2, <3>1, AlikeParts DEF ExprStep
  <2> QED BY <2>1, <2>2
<1>4. CASE e[1] = "not" /\ e[2] \in DOMAIN depth /\ depth[e[2]] < depth[e]
  <2>1. \A x, y : Alike(x, y) => Alike(NotValue(x), NotValue(y))
    BY DEF NotValue, Alike, Also, Ret
  <2> QED BY <1>1, <1>4, <2>1 DEF ExprStep
<1>5. CASE /\ e[1] \in {"and", "or"}
           /\ \A part \in {e[2], e[3]} : part \in DOMAIN depth /\ depth[part] < depth[e]
  <2>1. \A part \in {e[2], e[3]} : Alike(ExprValue(k, part, a), ExprValue(k, part, b))
    BY <1>5
  <2>2. ASSUME NEW x, NEW y, Alike(x, y)
        PROVE  /\ Alike(AndValue(k, x, e[3], a), AndValue(k, y, e[3], b))
               /\ Alike(OrValue(k, x, e[3], a), OrValue(k, y, e[3], b))
    <3>1. /\ Alike(MinOf(x, ExprValue(k, e[3], a)), MinOf(y, ExprValue(k, e[3], b)))
          /\ Alike(MaxOf(x, ExprValue(k, e[3], a)), MaxOf(y, ExprValue(k, e[3], b)))
      BY <2>1, <2>2, AlikeParts
    <3> QED BY <2>2, <3>1 DEF AndValue, OrValue, Alike
  <2> QED BY <1>1, <1>5, <2>1, <2>2 DEF ExprStep
<1>6. CASE /\ e[1] \in {"=", "!=", "<", "<=", ">", ">="}
           /\ \A part \in {e[2], e[3]} : part \in DOMAIN depth /\ Leaf(part)
  <2>1. /\ ExprStep(k, e, a) = Compared(e[1], SymToNum(k, e[2], a), SymToNum(k, e[3], a))
        /\ ExprStep(k, e, b) = Compared(e[1], SymToNum(k, e[2], b), SymToNum(k, e[3], b))
    BY <1>6 DEF ExprStep
  <2>2. \A x, y, f, g : Alike(x, y) /\ Alike(f, g) =>
            Alike(Compared(e[1], x, f), Compared(e[1], y, g))
    BY DEF Compared, Alike, Also, Ret
  <2> QED BY <1>1, <1>6, <2>1, <2>2, AlikeOperand
<1> QED BY <1>2, <1>3, <1>4, <1>5, <1>6 DEF Equations, Finite, Leaf

LEMMA AlikeExpr ==
    ASSUME NEW a, NEW b, NEW k, Agreeing(k, a, b), NEW depth, Given(k, depth),
           NEW e \in DOMAIN depth
    PROVE  Alike(ExprValue(k, e, a), ExprValue(k, e, b))
<1> DEFINE bad == {x \in DOMAIN depth : ~Alike(ExprValue(k, x, a), ExprValue(k, x, b))}
<1> SUFFICES ASSUME e \in bad PROVE FALSE
  OBVIOUS
<1>1. Equations(depth) /\ k.syms \cap k.choices = {}
  BY DEF Given, WellFormed
<1>2. PICK x \in bad : \A y \in bad : depth[x] <= depth[y]
  BY <1>1, Shallowest DEF Equations, Finite
<1>3. \A part \in DOMAIN depth : depth[part] < depth[x] =>
          Alike(ExprValue(k, part, a), ExprValue(k, part, b))
  BY <1>1, <1>2 DEF Equations, Finite
<1> QED BY <1>1, <1>2, <1>3, AlikeExprStep

(* Loops that find the same end at the same place. *)
LEMMA AlikeFirst ==
    ASSUME NEW xs, NEW ys, DOMAIN ys = DOMAIN xs, \A n \in DOMAIN xs : Alike(xs[n], ys[n])
    PROVE  Alike(FirstOf(xs), FirstOf(ys))
<1>1. {n \in DOMAIN ys : ys[n].v # 0} = {n \in DOMAIN xs : xs[n].v # 0}
  BY DEF Alike
<1> QED BY <1>1 DEF FirstOf, Alike

LEMMA AlikeActive ==
    ASSUME NEW a, NEW b, NEW k, Agreeing(k, a, b), NEW depth, Given(k, depth),
           NEW list, DOMAIN list \subseteq Nat, Conditions(list) \subseteq DOMAIN depth
    PROVE  /\ Alike(FirstActive(k, list, a), FirstActive(k, list, b))
           /\ FirstActive(k, list, a).v.at # 0 => FirstActive(k, list, a).v.at \in DOMAIN list
<1> DEFINE conds(view) == [n \in DOMAIN list |-> ExprValue(k, list[n][Len(list[n])], view)]
           at(view) == FirstOf(conds(view)).v
<1>1. \A view : FirstActive(k, list, view).v =
                    [at |-> at(view), cond |-> IF at(view) = 0 THEN 0 ELSE conds(view)[at(view)].v]
  BY DEF FirstActive, Also, Ret
<1>2. \A n \in DOMAIN list : Alike(conds(a)[n], conds(b)[n])
  BY AlikeExpr DEF Conditions
<1>3. DOMAIN conds(a) = DOMAIN list /\ DOMAIN conds(b) = DOMAIN list
  OBVIOUS
<1> HIDE DEF conds
<1>4. at(b) = at(a)
  BY <1>2, <1>3, AlikeFirst DEF Alike
<1>5. at(a) # 0 => at(a) \in DOMAIN list
  BY <1>3, FirstIsOne
<1>6. at(a) # 0 => conds(b)[at(a)].v = conds(a)[at(a)].v
  BY <1>2, <1>5 DEF Alike
<1> HIDE DEF at
<1> DEFINE of(view) == IF at(view) = 0 THEN 0 ELSE conds(view)[at(view)].v
<1>7. of(b) = of(a)
  BY <1>4, <1>6
<1> HIDE DEF of
<1>8. \A view : FirstActive(k, list, view).v = [at |-> at(view), cond |-> of(view)]
  BY <1>1 DEF of
<1>9. /\ FirstActive(k, list, a).v = [at |-> at(a), cond |-> of(a)]
      /\ FirstActive(k, list, b).v = [at |-> at(b), cond |-> of(b)]
  BY <1>8
<1>10. FirstActive(k, list, b).v = FirstActive(k, list, a).v
  BY <1>4, <1>7, <1>9
<1>11. FirstActive(k, list, a).v.at = at(a)
  BY <1>9
<1> QED BY <1>5, <1>10, <1>11 DEF Alike

(* The visibility of a symbol or choice, ...                               *)
LEMMA AlikeVisibility ==
    ASSUME NEW a, NEW b, NEW k, Agreeing(k, a, b), NEW depth, Given(k, depth),
           NEW i \in k.syms \cup k.choices
    PROVE  Alike(Visibility(k, i, a), Visibility(k, i, b))
<1> DEFINE strongest(view) == StrongestPrompt(k, k.prompts[i], view)
           type(view) == YesUnlessTristate(IF i \in k.choices THEN ChoiceType(k, i, view)
                                   ELSE SymType(k, i, view))
<1>1. Alike(strongest(a), strongest(b))
  <2> DEFINE conds(view) == [n \in DOMAIN k.prompts[i] |-> ExprValue(k, k.prompts[i][n], view)]
  <2>1. \A n \in DOMAIN k.prompts[i] : Alike(conds(a)[n], conds(b)[n])
    BY ItemAsks, AlikeExpr DEF Asks
  <2>2. DOMAIN conds(a) = DOMAIN k.prompts[i] /\ DOMAIN conds(b) = DOMAIN k.prompts[i]
    OBVIOUS
  <2>3. \A view : strongest(view).v = Max({0} \cup {conds(view)[n].v : n \in DOMAIN conds(view)})
    BY DEF StrongestPrompt
  <2> HIDE DEF conds, strongest
  <2>4. {conds(b)[n].v : n \in DOMAIN conds(b)} = {conds(a)[n].v : n \in DOMAIN conds(a)}
    BY <2>1, <2>2 DEF Alike
  <2> QED BY <2>3, <2>4 DEF Alike
<1>2. Alike(type(a), type(b))
  <2>1. \A x, y : Alike(x, y) => Alike(YesUnlessTristate(x), YesUnlessTristate(y))
    BY DEF Alike, YesUnlessTristate, Also, Ret
  <2>2. i \in k.choices => Alike(ChoiceType(k, i, a), ChoiceType(k, i, b))
    BY AlikeModules DEF Agreeing
  <2>3. i \notin k.choices => Alike(SymType(k, i, a), SymType(k, i, b))
    BY AlikeTypes DEF Given, WellFormed, ChoicesRight
  <2> QED BY <2>1, <2>2, <2>3
<1>3. Alike(PromoteVisibility(k, i, strongest(a), a), PromoteVisibility(k, i, strongest(b), b))
  <2>1. \A view, vis : PromoteVisibility(k, i, vis, view) = IF vis.v # 1 THEN vis ELSE Also(vis, type(view))
    BY DEF PromoteVisibility
  <2> HIDE DEF strongest, type
  <2> QED BY <1>1, <1>2, <2>1 DEF Alike, Also
<1> HIDE DEF strongest
<1>4. \A x, y : Alike(x, y) =>
          Alike(VisibilityInMode(k, i, strongest(a), x, a), VisibilityInMode(k, i, strongest(b), y, b))
  BY <1>1, <1>3 DEF VisibilityInMode, Alike, Also, Ret
<1>5. Alike(VisibilityByPrompt(k, i, strongest(a), a), VisibilityByPrompt(k, i, strongest(b), b))
  <2> DEFINE c == IF i \in k.syms THEN k.choiceOf[i] ELSE NoItem
  <2>1. c # NoItem => Alike(ChoiceTri(k, c, a), ChoiceTri(k, c, b))
    BY DEF Agreeing, Given, WellFormed, ChoicesRight
  <2>2. strongest(b).v = strongest(a).v
    BY <1>1 DEF Alike
  <2> QED BY <1>3, <1>4, <2>1, <2>2 DEF VisibilityByPrompt
<1> QED BY <1>5 DEF Visibility, strongest

(* ... what its value is made of, ...                                      *)
AlikeTexts(k, s, a, b) ==
    /\ Alike(DefaultText(k, s, FirstActive(k, k.defaults[s], a), a),
             DefaultText(k, s, FirstActive(k, k.defaults[s], b), b))
    /\ Alike(RangeOf(k, s, FirstActive(k, k.ranges[s], a), a),
             RangeOf(k, s, FirstActive(k, k.ranges[s], b), b))

AlikeTris(k, s, a, b) ==
    /\ Alike(ExprValue(k, k.rev[s], a), ExprValue(k, k.rev[s], b))
    /\ Alike(ExprValue(k, k.weak[s], a), ExprValue(k, k.weak[s], b))
    /\ Alike(ExprValue(k, k.direct[s], a), ExprValue(k, k.direct[s], b))
    /\ Alike(NeverM(k, s, a), NeverM(k, s, b))
    /\ Alike(SymType(k, s, a), SymType(k, s, b))
    /\ Alike(DefaultTri(k, s, FirstActive(k, k.defaults[s], a), a),
             DefaultTri(k, s, FirstActive(k, k.defaults[s], b), b))

LEMMA AlikeSymbol ==
    ASSUME NEW a, NEW b, NEW k, Agreeing(k, a, b), NEW depth, Given(k, depth), NEW s \in k.syms
    PROVE  AlikeTexts(k, s, a, b) /\ AlikeTris(k, s, a, b)
<1> DEFINE first(view) == FirstActive(k, k.defaults[s], view)
           active(view) == FirstActive(k, k.ranges[s], view)
<1>1. /\ Alike(first(a), first(b)) /\ (first(a).v.at # 0 => first(a).v.at \in DOMAIN k.defaults[s])
      /\ Alike(active(a), active(b))
  <2>1. DOMAIN k.defaults[s] \subseteq Nat /\ DOMAIN k.ranges[s] \subseteq Nat
    BY DEF Given, WellFormed, ListsRight
  <2>2. Conditions(k.defaults[s]) \subseteq DOMAIN depth /\ Conditions(k.ranges[s]) \subseteq DOMAIN depth
    BY ItemAsks, SymbolAsks DEF Asks
  <2> QED BY <2>1, <2>2, AlikeActive
<1> HIDE DEF first, active
<1>2. /\ Alike(ExprValue(k, k.rev[s], a), ExprValue(k, k.rev[s], b))
      /\ Alike(ExprValue(k, k.weak[s], a), ExprValue(k, k.weak[s], b))
      /\ Alike(ExprValue(k, k.direct[s], a), ExprValue(k, k.direct[s], b))
  BY SymbolAsks, AlikeExpr DEF Asks
<1>3. Alike(SymType(k, s, a), SymType(k, s, b))
  BY AlikeTypes DEF Given, WellFormed, ChoicesRight
<1>4. Alike(NeverM(k, s, a), NeverM(k, s, b))
  <2>1. \A x, y : Alike(x, y) => Alike(NeverMOfType(k, s, x, a), NeverMOfType(k, s, y, b))
    BY <1>2 DEF Alike, NeverMOfType, Also
  <2> QED BY <1>3, <2>1 DEF NeverM
<1>5. Alike(DefaultTri(k, s, first(a), a), DefaultTri(k, s, first(b), b))
  <2> DEFINE value(view) == ExprValue(k, k.defaults[s][first(a).v.at][1], view)
  <2>1. first(a).v.at # 0 => Alike(value(a), value(b))
    <3>1. first(a).v.at # 0 => k.defaults[s][first(a).v.at][1] \in Nth(k.defaults[s], 1)
      BY <1>1 DEF Nth
    <3> QED BY <3>1, SymbolAsks, AlikeExpr DEF Asks
  <2>2. first(b).v = first(a).v
    BY <1>1 DEF Alike
  <2> DEFINE result(view) == MinOf(Ret(first(a).v.cond), value(view))
  <2>3. first(a).v.at # 0 => Alike(result(a), result(b))
    BY <2>1, AlikeParts
  <2>4. /\ DefaultTri(k, s, first(a), a) = Also(first(a), IF first(a).v.at = 0 THEN Ret(0) ELSE result(a))
        /\ DefaultTri(k, s, first(b), b) = Also(first(b), IF first(a).v.at = 0 THEN Ret(0) ELSE result(b))
    BY <2>2 DEF DefaultTri
  <2> HIDE DEF result
  <2> QED BY <2>3, <2>4, AlikeParts
<1>6. Alike(DefaultText(k, s, first(a), a), DefaultText(k, s, first(b), b))
  <2>1. first(b).v = first(a).v
    BY <1>1 DEF Alike
  <2>2. \A op : Alike(Operand(k, op, a), Operand(k, op, b))
    BY AlikeOperand
  <2> QED BY <2>1, <2>2, AlikeParts DEF DefaultText
<1>7. Alike(RangeOf(k, s, active(a), a), RangeOf(k, s, active(b), b))
  <2>1. active(b).v = active(a).v
    BY <1>1 DEF Alike
  <2>2. \A op : Alike(Operand(k, op, a), Operand(k, op, b))
    BY AlikeOperand
  <2>3. \A x, y, f, g : Alike(x, y) /\ Alike(f, g) => Alike(Bounds(x, f), Bounds(y, g))
    BY DEF Alike, Bounds, Also, Ret
  <2> QED BY <2>1, <2>2, <2>3, AlikeParts DEF RangeOf
<1> QED BY <1>2, <1>3, <1>4, <1>5, <1>6, <1>7 DEF AlikeTexts, AlikeTris, first, active

(* ... what can be assigned ...                                            *)
LEMMA AlikeAssignable ==
    ASSUME NEW a, NEW b, NEW k, Agreeing(k, a, b), NEW depth, Given(k, depth)
    PROVE  /\ \A s \in k.syms : Alike(SymAssignable(k, s, a), SymAssignable(k, s, b))
           /\ \A c \in k.choices : Alike(ChoiceAssignable(k, c, a), ChoiceAssignable(k, c, b))
<1>1. \A i : Alike(Read(a, <<"vis", i>>), Read(b, <<"vis", i>>))
  BY DEF Agreeing
<1>2. ASSUME NEW s \in k.syms PROVE Alike(SymAssignable(k, s, a), SymAssignable(k, s, b))
  <2>1. /\ Alike(ExprValue(k, k.rev[s], a), ExprValue(k, k.rev[s], b))
        /\ Alike(ExprValue(k, k.weak[s], a), ExprValue(k, k.weak[s], b))
        /\ Alike(NeverM(k, s, a), NeverM(k, s, b))
    <3>1. AlikeTris(k, s, a, b)
      BY AlikeSymbol
    <3> QED BY <3>1 DEF AlikeTris
  <2>2. ASSUME NEW x, NEW y, NEW f, NEW g, Alike(x, y), Alike(f, g)
        PROVE  Alike(AssignableUnder(k, s, x, f, a), AssignableUnder(k, s, y, g, b))
    BY <2>1, <2>2 DEF AssignableUnder, WithoutM, Alike, Also, Ret
  <2>3. \A x, y : Alike(x, y) => Alike(IfVisible(k, s, x, a), IfVisible(k, s, y, b))
    BY <2>1, <2>2 DEF IfVisible, Alike, Also, Ret
  <2> QED BY <1>1, <2>3, AlikeParts DEF SymAssignable
<1>3. ASSUME NEW c \in k.choices PROVE Alike(ChoiceAssignable(k, c, a), ChoiceAssignable(k, c, b))
  <2>1. Alike(YesIfBool(ChoiceType(k, c, a)), YesIfBool(ChoiceType(k, c, b)))
    BY AlikeModules DEF Agreeing
  <2>2. \A x, y : Alike(x, y) => Alike(ModesOf(k, c, x, a), ModesOf(k, c, y, b))
    BY <2>1 DEF ModesOf, Alike, Also, Ret
  <2> QED BY <1>1, <2>2 DEF ChoiceAssignable
<1> QED BY <1>2, <1>3

(* ... and what a choice selects without a pick are all alike.             *)
LEMMA AlikeSelection ==
    ASSUME NEW a, NEW b, NEW k, Agreeing(k, a, b), NEW depth, Given(k, depth), NEW c \in k.choices
    PROVE  Alike(SelectionFromDefaults(k, c, a), SelectionFromDefaults(k, c, b))
<1>1. \A i : Alike(Read(a, <<"vis", i>>), Read(b, <<"vis", i>>))
  BY DEF Agreeing
<1>2. Alike(DefaultSelection(k, c, a), DefaultSelection(k, c, b))
  <2> DEFINE result(n, view) == IfActive(ExprValue(k, k.defaults[c][n][2], view),
                                         Read(view, <<"vis", k.defaults[c][n][1]>>))
             results(view) == [n \in DOMAIN k.defaults[c] |-> result(n, view)]
  <2>1. ASSUME NEW n \in DOMAIN k.defaults[c] PROVE Alike(result(n, a), result(n, b))
    <3>1. Len(k.defaults[c][n]) = 2
      BY DEF Given, WellFormed, ChoicesRight
    <3>2. k.defaults[c][n][2] \in Conditions(k.defaults[c])
      BY <3>1 DEF Conditions
    <3>3. Alike(ExprValue(k, k.defaults[c][n][2], a), ExprValue(k, k.defaults[c][n][2], b))
      BY <3>2, ItemAsks, AlikeExpr DEF Asks
    <3> QED BY <1>1, <3>3 DEF IfActive, Alike, Also, Ret
  <2>2. \A n \in DOMAIN k.defaults[c] : Alike(results(a)[n], results(b)[n])
    BY <2>1
  <2>3. \A view : DefaultSelection(k, c, view) = FirstOf(results(view))
    BY DEF DefaultSelection
  <2>4. DOMAIN results(a) = DOMAIN k.defaults[c] /\ DOMAIN results(b) = DOMAIN k.defaults[c]
    OBVIOUS
  <2> HIDE DEF results
  <2> QED BY <2>2, <2>3, <2>4, AlikeFirst
<1>3. Alike(FirstMember(k, c, a), FirstMember(k, c, b))
  <2> DEFINE results(view) == [n \in DOMAIN k.members[c] |-> Read(view, <<"vis", k.members[c][n]>>)]
  <2>1. \A n \in DOMAIN k.members[c] : Alike(results(a)[n], results(b)[n])
    BY <1>1
  <2>2. DOMAIN results(a) = DOMAIN k.members[c] /\ DOMAIN results(b) = DOMAIN k.members[c]
    OBVIOUS
  <2>3. \A view : FirstMember(k, c, view).v
                    = IF FirstOf(results(view)).v = 0 THEN NoItem ELSE k.members[c][FirstOf(results(view)).v]
    BY DEF FirstMember, Also, Ret
  <2> HIDE DEF results
  <2>4. Alike(FirstOf(results(a)), FirstOf(results(b)))
    BY <2>1, <2>2, AlikeFirst
  <2> QED BY <2>3, <2>4 DEF Alike
<1> QED BY <1>2, <1>3 DEF SelectionFromDefaults, Alike, Also, Ret

-----------------------------------------------------------------------------
(* User values w say again what the values now are, if asked what is not   *)
(* computed: the mode of each choice, what it selects in y mode, ...       *)
SaysModes(k, now, w) ==
    \A c \in k.choices : LET mode == ChoiceTri(k, c, now).v IN
        \/ mode \in 1..2 /\ w[<<"mode", c>>] = mode
        \/ w[<<"mode", c>>] = Unset /\ ModeUnset(k, c, now).v = mode

SaysSelections(k, now, w) ==
    \A c \in k.choices : LET sel == Selection(k, c, now).v IN
        ChoiceTri(k, c, now).v = 2 =>
            \/ sel # NoItem /\ w[<<"pick", c>>] = sel /\ Read(now, <<"vis", sel>>).v # 0
            \/ w[<<"pick", c>>] = NoItem /\ SelectionFromDefaults(k, c, now).v = sel

(* ... the values of the visible symbols of choices in m mode, and those   *)
(* of visible symbols outside of choices, if they are not what those get   *)
(* by default or by a select anyway.                                       *)
SaysValues(k, now, w) ==
    \A s \in k.syms :
        LET said == w[<<"user", s>>]
            vis == now[<<"vis", s>>]
        IN IF k.choiceOf[s] # NoItem
           THEN vis = 1 => (said \in {Unset, 0} <=> now[<<"tri", s>>] = 0)
           ELSE vis # 0 =>
                \/ said # Unset /\ said = ValueOf(k, s, now)
                \/ /\ said = Unset
                   /\ \/ ValueOf(k, s, now) = StrDefault(k, s, now).v
                      \/ IsTri(k, s) /\ vis <= ExprValue(k, k.rev[s], now).v

SaysAgain(k, now, w) ==
    SaysModes(k, now, w) /\ SaysSelections(k, now, w) /\ SaysValues(k, now, w)

(* The values now, with other user values *)
With(k, now, w) ==
    [r \in UserEntries(k) \cup CacheEntries(k) |-> IF r \in UserEntries(k) THEN w[r] ELSE now[r]]

LEMMA WithIs ==
    ASSUME NEW k, NEW u, NEW now, Solves(k, u, now), NEW w
    PROVE  /\ \A r \in UserEntries(k) : Read(With(k, now, w), r).v = w[r]
           /\ \A e : e[1] \in {"vis", "tri", "str", "asg", "sel"} =>
                 Alike(Read(now, e), Read(With(k, now, w), e))
<1>1. DOMAIN now = UserEntries(k) \cup CacheEntries(k)
  BY DEF Solves
<1>2. \A e : e[1] \in {"vis", "tri", "str", "asg", "sel"} => e \notin UserEntries(k)
  BY DEF UserEntries
<1>3. \A r \in UserEntries(k) : With(k, now, w)[r] = w[r]
  BY DEF With
<1>4. \A r \in CacheEntries(k) : r \notin UserEntries(k) => With(k, now, w)[r] = now[r]
  BY DEF With
<1>5. DOMAIN With(k, now, w) = UserEntries(k) \cup CacheEntries(k)
  BY DEF With
<1>6. \A r \in UserEntries(k) : Read(With(k, now, w), r).v = w[r]
  BY <1>3, <1>5 DEF Read
<1>7. ASSUME NEW e, e[1] \in {"vis", "tri", "str", "asg", "sel"}
      PROVE  Alike(Read(now, e), Read(With(k, now, w), e))
  <2>1. e \notin UserEntries(k)
    BY <1>2, <1>7
  <2>2. e \in DOMAIN now => e \in DOMAIN With(k, now, w) /\ With(k, now, w)[e] = now[e]
    BY <1>1, <1>4, <1>5, <2>1
  <2>3. e \notin DOMAIN now => e \notin DOMAIN With(k, now, w)
    BY <1>1, <1>5
  <2> QED BY <2>2, <2>3 DEF Read, Alike
<1> QED BY <1>6, <1>7

(* A choice is as visible as its strongest prompt. *)
LEMMA ChoiceVisibilityIs ==
    ASSUME NEW k, NEW now, DependenciesMet(k, now), NEW c \in k.choices \ k.syms
    PROVE  Visibility(k, c, now).v \in 0..2
<1> DEFINE conds == [n \in DOMAIN k.prompts[c] |-> ExprValue(k, k.prompts[c][n], now)]
           strongest == StrongestPrompt(k, k.prompts[c], now)
           values == {0} \cup {conds[n].v : n \in DOMAIN conds}
<1>1. values \subseteq 0..2 /\ values # {}
  <2>1. \A n \in DOMAIN k.prompts[c] : conds[n].v \in 0..2
    BY DEF DependenciesMet
  <2> HIDE DEF conds
  <2>2. DOMAIN conds = DOMAIN k.prompts[c]
    BY DEF conds
  <2> QED BY <2>1, <2>2
<1>2. strongest.v = Max(values)
  BY DEF StrongestPrompt
<1>3. strongest.v \in 0..2
  <2> HIDE DEF values
  <2> QED BY <1>1, <1>2, MaxOfTristates
<1> HIDE DEF strongest
<1>4. Visibility(k, c, now) = PromoteVisibility(k, c, strongest, now)
  BY DEF Visibility, VisibilityByPrompt, strongest
<1> QED BY <1>3, <1>4 DEF PromoteVisibility, YesUnlessTristate, Also, Ret

(* Saying the mode of a choice again, or nothing where that is its mode    *)
(* anyway, leaves it as it is.                                             *)
LEMMA ModeAgain ==
    ASSUME NEW k, NEW depth, Given(k, depth), TheCodeOn(k),
           NEW u, NEW now, Solves(k, u, now), DependenciesMet(k, now),
           NEW w, SaysModes(k, now, w), NEW c \in k.choices
    PROVE  Alike(ChoiceTri(k, c, now), ChoiceTri(k, c, With(k, now, w)))
<1> DEFINE mid == With(k, now, w)
           least == IF c \in k.optional THEN 0 ELSE 1
           vis == Read(now, <<"vis", c>>).v
           bool == YesIfBool(ChoiceType(k, c, now)).v
           within(mode) == Min2(vis, IF mode = Unset THEN least ELSE Max2(least, mode))
           promoted(x) == IF x = 1 THEN bool ELSE x
           said == w[<<"mode", c>>]
<1>1. /\ Read(mid, <<"vis", c>>).v = vis /\ YesIfBool(ChoiceType(k, c, mid)).v = bool
      /\ Read(mid, <<"mode", c>>).v = said
  <2>1. <<"mode", c>> \in UserEntries(k)
    BY DEF UserEntries
  <2>2. Alike(Read(now, <<"tri", Modules>>), Read(mid, <<"tri", Modules>>))
    BY WithIs
  <2>3. Alike(YesIfBool(ChoiceType(k, c, now)), YesIfBool(ChoiceType(k, c, mid)))
    BY <2>2, AlikeModules
  <2>4. Alike(Read(now, <<"vis", c>>), Read(mid, <<"vis", c>>))
    BY WithIs
  <2>5. Read(mid, <<"mode", c>>).v = said
    BY <2>1, WithIs
  <2> QED BY <2>3, <2>4, <2>5 DEF Alike
<1>2. vis \in 0..2 /\ bool \in {1, 2} /\ least \in {0, 1}
  <2>1. <<"vis", c>> \in CacheEntries(k) /\ c \notin k.syms
    BY DEF CacheEntries, Given, WellFormed
  <2>2. Value(k, <<"vis", c>>, now) = Visibility(k, c, now)
    BY DEF Value
  <2>3. vis = Visibility(k, c, now).v
    BY <2>1, <2>2 DEF Solves, TheCodeOn, Read
  <2> QED BY <2>1, <2>3, ChoiceVisibilityIs DEF YesIfBool, Also, Ret
<1>3. /\ ChoiceTri(k, c, now).v = promoted(within(Read(now, <<"mode", c>>).v))
      /\ ChoiceTri(k, c, mid).v = promoted(within(said))
      /\ ModeUnset(k, c, now).v = promoted(within(Unset))
  <2>1. ASSUME NEW view, NEW mode, Read(view, <<"vis", c>>).v = vis,
               YesIfBool(ChoiceType(k, c, view)).v = bool
        PROVE  PromoteMode(k, c, WithinMode(k, c, mode, Read(view, <<"vis", c>>)), view).v
                 = promoted(within(mode.v))
    <3>1. WithinMode(k, c, mode, Read(view, <<"vis", c>>)).v = within(mode.v)
      BY <2>1 DEF WithinMode, MinOf, Also, Ret
    <3> HIDE DEF within, bool
    <3> QED BY <2>1, <3>1 DEF PromoteMode, Also
  <2> HIDE DEF within, bool, promoted, vis
  <2>2. ChoiceTri(k, c, now).v = promoted(within(Read(now, <<"mode", c>>).v))
    BY <2>1 DEF ChoiceTri, vis, bool
  <2>3. ChoiceTri(k, c, mid).v = promoted(within(said))
    BY <1>1, <2>1 DEF ChoiceTri
  <2>4. ModeUnset(k, c, now).v = promoted(within(Ret(Unset).v))
    BY <2>1 DEF ModeUnset, vis, bool
  <2> QED BY <2>2, <2>3, <2>4 DEF Ret
<1>4. CASE said = Unset /\ ModeUnset(k, c, now).v = ChoiceTri(k, c, now).v
  BY <1>3, <1>4 DEF Alike
<1>5. CASE ChoiceTri(k, c, now).v \in 1..2 /\ said = ChoiceTri(k, c, now).v
  <2> DEFINE x == within(Read(now, <<"mode", c>>).v)
  <2>1. x = vis \/ ~(vis < x)
    BY DEF Min2
  <2>2. said \in 1..2 /\ said # Unset /\ said = promoted(x)
    BY <1>3, <1>5, UnsetAssumption
  <2> HIDE DEF vis, bool, least, x, said
  <2>3. x \in {1, 2}
    BY <2>2
  <2>5. x <= vis
    BY <1>2, <2>1, <2>3
  <2>4. promoted(within(said)) = said
    BY <1>2, <2>2, <2>3, <2>5 DEF Min2, Max2
  <2> QED BY <1>3, <1>5, <2>4 DEF Alike
<1>6. \/ ChoiceTri(k, c, now).v \in 1..2 /\ said = ChoiceTri(k, c, now).v
      \/ said = Unset /\ ModeUnset(k, c, now).v = ChoiceTri(k, c, now).v
  BY DEF SaysModes
<1> QED BY <1>4, <1>5, <1>6

LEMMA WithAgrees ==
    ASSUME NEW k, NEW depth, Given(k, depth), TheCodeOn(k),
           NEW u, NEW now, Solves(k, u, now), DependenciesMet(k, now),
           NEW w, SaysModes(k, now, w)
    PROVE  Agreeing(k, now, With(k, now, w))
<1>1. \A i : \A attr \in {"vis", "tri", "str", "asg", "sel"} :
          Alike(Read(now, <<attr, i>>), Read(With(k, now, w), <<attr, i>>))
  BY WithIs
<1> QED BY <1>1, ModeAgain DEF Agreeing

(* What saying again does to a selection ... *)
LEMMA SelectionAgain ==
    ASSUME NEW k, NEW depth, Given(k, depth), TheCodeOn(k),
           NEW u, NEW now, Solves(k, u, now), NEW w, Agreeing(k, now, With(k, now, w)),
           SaysSelections(k, now, w), NEW c \in k.choices
    PROVE  Alike(Selection(k, c, now), Selection(k, c, With(k, now, w)))
<1> DEFINE mid == With(k, now, w)
           sel == Selection(k, c, now).v
           said == w[<<"pick", c>>]
<1>1. ChoiceTri(k, c, mid).v = ChoiceTri(k, c, now).v
  BY DEF Agreeing, Alike
<1>2. CASE ChoiceTri(k, c, now).v # 2
  <2>1. \A view : ChoiceTri(k, c, view).v # 2 => Selection(k, c, view).v = NoItem
    BY DEF Selection, SelectionIn, Also, Ret
  <2> QED BY <1>1, <1>2, <2>1 DEF Alike
<1>3. CASE ChoiceTri(k, c, now).v = 2
  <2>1. Read(mid, <<"pick", c>>).v = said
    <3>1. <<"pick", c>> \in UserEntries(k)
      BY DEF UserEntries
    <3> QED BY <3>1, WithIs
  <2>2. Selection(k, c, mid).v = Picked(k, c, Read(mid, <<"pick", c>>), mid).v
    BY <1>1, <1>3 DEF Selection, SelectionIn, Also
  <2>3. CASE sel # NoItem /\ said = sel /\ Read(now, <<"vis", sel>>).v # 0
    <3>1. Read(mid, <<"vis", sel>>).v # 0
      BY <2>3 DEF Agreeing, Alike
    <3>2. Picked(k, c, Read(mid, <<"pick", c>>), mid).v = sel
      <4> HIDE DEF mid, sel, said
      <4> QED BY <2>1, <2>3, <3>1 DEF Picked, PickIfVisible, Also, Ret
    <3> QED BY <2>2, <3>2 DEF Alike
  <2>4. CASE said = NoItem /\ SelectionFromDefaults(k, c, now).v = sel
    <3>1. Alike(SelectionFromDefaults(k, c, now), SelectionFromDefaults(k, c, mid))
      BY AlikeSelection
    <3>2. Picked(k, c, Read(mid, <<"pick", c>>), mid).v = SelectionFromDefaults(k, c, mid).v
      <4> HIDE DEF mid, said
      <4> QED BY <2>1, <2>4 DEF Picked, PickIfVisible, Also, Ret
    <3> QED BY <2>2, <2>4, <3>1, <3>2 DEF Alike
  <2> QED BY <1>3, <2>3, <2>4 DEF SaysSelections
<1> QED BY <1>2, <1>3

(* ... and to the value of a symbol outside of choices, which is           *)
OwnOf(vis, said, weak, met, def) ==
    IF said # Unset THEN Min2(said, vis)
    ELSE IF weak = 0 \/ met = 0 THEN def ELSE Max2(weak, def)

NotM(never, val) == IF val = 1 /\ never = 2 THEN 2 ELSE val

LEMMA PlainTriValue ==
    ASSUME NEW k, NEW s, NEW vis, NEW view
    PROVE  PlainTri(k, s, vis, view).v.val
             = NotM(NeverM(k, s, view).v,
                    Max2(ExprValue(k, k.rev[s], view).v,
                         OwnOf(vis, UserValue(s, vis, view).v, ExprValue(k, k.weak[s], view).v,
                               ExprValue(k, k.direct[s], view).v,
                               DefaultTri(k, s, FirstActive(k, k.defaults[s], view), view).v)))
<1> DEFINE rev == ExprValue(k, k.rev[s], view)
           weak == ExprValue(k, k.weak[s], view)
           met == ExprValue(k, k.direct[s], view)
           def == DefaultTri(k, s, FirstActive(k, k.defaults[s], view), view)
           input == UserValue(s, vis, view)
           never == NeverM(k, s, view)
           own == OwnValue(k, s, vis, view)
           val == Max2(rev.v, own.v.val)
           result == [val |-> val, write |-> own.v.write \/ rev.v # 0]
<1>1. own.v.val = OwnOf(vis, input.v, weak.v, met.v, def.v)
  <2>1. own = OwnOrUser(k, s, vis, input, view)
    BY DEF OwnValue
  <2> HIDE DEF input
  <2>2. CASE input.v # Unset
    BY <2>1, <2>2 DEF OwnOrUser, OwnOf, Also, Ret
  <2>3. CASE input.v = Unset
    <3>1. own.v = Implied(k, s, vis, def, weak, view).v
      BY <2>1, <2>3 DEF OwnOrUser, Also
    <3> HIDE DEF own, def, weak
    <3>2. Implied(k, s, vis, def, weak, view)
            = WithImply(vis, def, weak, IF weak.v = 0 THEN Ret(0) ELSE met)
      BY DEF Implied
    <3>3. (IF weak.v = 0 THEN Ret(0) ELSE met).v = IF weak.v = 0 THEN 0 ELSE met.v
      BY DEF Ret
    <3> HIDE DEF met
    <3>4. \A m : WithImply(vis, def, weak, m).v.val = IF m.v = 0 THEN def.v ELSE Max2(weak.v, def.v)
      BY DEF WithImply, Also, Ret
    <3> QED BY <2>3, <3>1, <3>2, <3>3, <3>4 DEF OwnOf
  <2> QED BY <2>2, <2>3
<1>2. PlainTri(k, s, vis, view).v.val = NotM(never.v, val)
  <2>1. PlainTri(k, s, vis, view).v
          = (IF val # 1 THEN Ret(result) ELSE Promoted(result, never)).v
    BY DEF PlainTri, WithSelect, Also
  <2> HIDE DEF val, never
  <2> QED BY <2>1 DEF NotM, Promoted, Also, Ret
<1> HIDE DEF own, rev, weak, met, def, input, never
<1>3. PlainTri(k, s, vis, view).v.val = NotM(never.v, Max2(rev.v, OwnOf(vis, input.v, weak.v, met.v, def.v)))
  BY <1>1, <1>2
<1> QED BY <1>3 DEF rev, weak, met, def, input, never

(* The arithmetic of it: said is what was said first, type whether it is    *)
(* bool, again what is said now.                                           *)
LEMMA TriArithmetic ==
    ASSUME NEW vis \in 1..2, NEW rev \in 0..2, NEW weak \in 0..2, NEW def \in 0..2, NEW met, met # 0,
           NEW bool \in BOOLEAN, NEW said, NEW again, said \in 0..2 \/ said = Unset,
           vis = 1 => (~bool /\ (def \in 0..1 \/ rev = 2 \/ weak = 2)),
           NEW val, val = NotM(IF bool THEN 2 ELSE weak, Max2(rev, OwnOf(vis, said, weak, met, def))),
           \/ again # Unset /\ again = val
           \/ /\ again = Unset
              /\ \/ vis <= rev
                 \/ val = NotM(IF bool THEN 2 ELSE 0, Max2(Max2(rev, weak), def))
    PROVE  val = NotM(IF bool THEN 2 ELSE weak, Max2(rev, OwnOf(vis, again, weak, met, def)))
<1> DEFINE never == IF bool THEN 2 ELSE weak
           out(own) == NotM(never, Max2(rev, own))
<1>1. CASE again # Unset /\ again = val
  <2>1. OwnOf(vis, again, weak, met, def) = Min2(val, vis)
    BY <1>1 DEF OwnOf
  <2>2. OwnOf(vis, said, weak, met, def) \in 0..2
    BY UnsetAssumption DEF OwnOf, Min2, Max2
  <2>3. val \in 0..2
    BY <2>2 DEF NotM, Max2
  <2>4. out(Min2(val, vis)) = val
    <3>1. CASE vis = 2
      <4> DEFINE own == OwnOf(vis, said, weak, met, def)
      <4>1. val = NotM(never, Max2(rev, own)) /\ own \in 0..2 /\ never \in 0..2
        BY <2>2
      <4>2. Min2(val, vis) = val
        BY <2>3, <3>1 DEF Min2
      <4> HIDE DEF own, never
      <4>3. NotM(never, Max2(rev, val)) = val
        BY <4>1, <2>3 DEF NotM, Max2
      <4> QED BY <4>2, <4>3
    <3>2. CASE vis = 1
      <4> DEFINE own == OwnOf(vis, said, weak, met, def)
      <4>1. val = NotM(weak, Max2(rev, own)) /\ own \in 0..2 /\ never = weak
        BY <2>2, <3>2
      <4>2. own = 2 => rev = 2 \/ weak = 2
        BY <3>2, UnsetAssumption DEF OwnOf, Min2, Max2
      <4>3. Min2(val, vis) = IF val = 2 THEN 1 ELSE val
        BY <2>3, <3>2 DEF Min2
      <4> HIDE DEF own, never
      <4>4. NotM(weak, Max2(rev, IF val = 2 THEN 1 ELSE val)) = val
        BY <4>1, <4>2, <2>3 DEF NotM, Max2
      <4> QED BY <4>1, <4>3, <4>4
    <3> QED BY <3>1, <3>2
  <2> QED BY <2>1, <2>4
<1>2. CASE again = Unset /\ vis <= rev
  <2>1. OwnOf(vis, again, weak, met, def) = IF weak = 0 THEN def ELSE Max2(weak, def)
    BY <1>2 DEF OwnOf
  <2>2. CASE said = Unset
    BY <1>2, <2>2
  <2>3. CASE said \in 0..2
    BY <1>2, <2>1, <2>3, UnsetAssumption DEF NotM, Max2, Min2, OwnOf
  <2> QED BY <2>2, <2>3
<1>3. CASE again = Unset /\ val = NotM(IF bool THEN 2 ELSE 0, Max2(Max2(rev, weak), def))
  <2>1. OwnOf(vis, again, weak, met, def) = IF weak = 0 THEN def ELSE Max2(weak, def)
    BY <1>3 DEF OwnOf
  <2> QED BY <1>3, <2>1 DEF NotM, Max2
<1> QED BY <1>1, <1>2, <1>3

LEMMA TriAgain ==
    ASSUME NEW k, NEW depth, Given(k, depth), TheCodeOn(k),
           NEW u, NEW now, Solves(k, u, now), DependenciesMet(k, now), DefaultsInReach(k, now),
           NEW w, Agreeing(k, now, With(k, now, w)), SaysValues(k, now, w),
           NEW s \in k.syms, IsTri(k, s), k.choiceOf[s] = NoItem,
           u[<<"user", s>>] \in 0..2 \cup {Unset}
    PROVE  TriValue(k, s, With(k, now, w)).v.val = TriValue(k, s, now).v.val
<1> DEFINE mid == With(k, now, w)
           vis == now[<<"vis", s>>]
           rev == ExprValue(k, k.rev[s], now).v
           weak == ExprValue(k, k.weak[s], now).v
           met == ExprValue(k, k.direct[s], now).v
           def == DefaultTri(k, s, FirstActive(k, k.defaults[s], now), now).v
           bool == SymType(k, s, now).v = "bool"
           val == now[<<"tri", s>>]
           said == UserValue(s, vis, now).v
           again == UserValue(s, vis, mid).v
           own(x) == NotM(IF bool THEN 2 ELSE weak, Max2(rev, OwnOf(vis, x, weak, met, def)))
<1>1. /\ Read(now, <<"vis", s>>).v = vis /\ Read(now, <<"user", s>>).v = u[<<"user", s>>]
      /\ val = TriValue(k, s, now).v.val /\ vis = Visibility(k, s, now).v
      /\ Read(mid, <<"vis", s>>).v = vis /\ Read(mid, <<"user", s>>).v = w[<<"user", s>>]
  <2>1. SymbolSolved(k, u, now, s)
    BY SolutionIs
  <2>2. <<"user", s>> \in UserEntries(k)
    BY DEF UserEntries
  <2>3. Alike(Read(now, <<"vis", s>>), Read(mid, <<"vis", s>>))
    BY DEF Agreeing
  <2> QED BY <2>1, <2>2, <2>3, WithIs DEF SymbolSolved, Alike
<1>2. /\ TriValue(k, s, now).v.val = own(said)
      /\ TriValue(k, s, mid).v.val = own(again)
  <2>1. AlikeTris(k, s, now, mid)
    BY AlikeSymbol
  <2>2. \A view : Read(view, <<"vis", s>>).v = vis =>
            TriValue(k, s, view).v = PlainTri(k, s, vis, view).v
    BY DEF TriValue, TriOfVisible, Also
  <2>3. \A view : NeverM(k, s, view).v = IF SymType(k, s, view).v = "bool" THEN 2
                                          ELSE ExprValue(k, k.weak[s], view).v
    BY DEF NeverM, NeverMOfType, Also, Ret
  <2>4. TriValue(k, s, now).v.val = own(said)
    <3>1. TriValue(k, s, now).v.val = PlainTri(k, s, vis, now).v.val
      BY <1>1, <2>2
    <3>2. NeverM(k, s, now).v = IF bool THEN 2 ELSE weak
      BY <2>3
    <3> QED BY <3>1, <3>2, PlainTriValue
  <2>5. TriValue(k, s, mid).v.val = own(again)
    <3>1. TriValue(k, s, mid).v.val = PlainTri(k, s, vis, mid).v.val
      BY <1>1, <2>2
    <3>2. /\ ExprValue(k, k.rev[s], mid).v = rev /\ ExprValue(k, k.weak[s], mid).v = weak
          /\ ExprValue(k, k.direct[s], mid).v = met
          /\ (SymType(k, s, mid).v = "bool") = bool
          /\ DefaultTri(k, s, FirstActive(k, k.defaults[s], mid), mid).v = def
      BY <2>1 DEF AlikeTris, Alike
    <3>3. NeverM(k, s, mid).v = IF bool THEN 2 ELSE weak
      BY <2>3, <3>2
    <3> HIDE DEF mid, rev, weak, met, def, bool, again, vis
    <3>4. \A v, V, view : v = NeverM(k, s, view).v => PlainTri(k, s, V, view).v.val
             = NotM(v, Max2(ExprValue(k, k.rev[s], view).v,
                         OwnOf(V, UserValue(s, V, view).v, ExprValue(k, k.weak[s], view).v,
                               ExprValue(k, k.direct[s], view).v,
                               DefaultTri(k, s, FirstActive(k, k.defaults[s], view), view).v)))
      BY PlainTriValue
    <3>5. PlainTri(k, s, vis, mid).v.val
             = NotM(IF bool THEN 2 ELSE weak, Max2(ExprValue(k, k.rev[s], mid).v,
                         OwnOf(vis, UserValue(s, vis, mid).v, ExprValue(k, k.weak[s], mid).v,
                               ExprValue(k, k.direct[s], mid).v,
                               DefaultTri(k, s, FirstActive(k, k.defaults[s], mid), mid).v)))
      BY <3>3, <3>4
    <3>6. again = UserValue(s, vis, mid).v
      BY DEF again
    <3> QED BY <3>1, <3>2, <3>5, <3>6
  <2> QED BY <2>4, <2>5
<1>3. CASE vis = 0
  <2>1. said = Unset /\ again = Unset
    BY <1>3 DEF UserValue, Ret
  <2> HIDE DEF own
  <2> QED BY <1>2, <2>1
<1>4. CASE vis # 0
  <2>1. vis \in 1..2 /\ (vis = 1 => ~bool) /\ met # 0
    <3>1. s \notin k.choices
      BY DEF Given, WellFormed
    <3>2. /\ Visibility(k, s, now).v \in 0..2
          /\ Visibility(k, s, now).v = 1 => SymType(k, s, now).v # "bool"
      BY <3>1, VisibilityIs
    <3>3. Visibility(k, s, now).v # 0 => met # 0
      BY VisibleIsMet
    <3> QED BY <1>1, <1>4, <3>2, <3>3
  <2>2. /\ rev \in 0..2 /\ weak \in 0..2 /\ def \in 0..2
        /\ vis = 1 => def \in 0..1 \/ rev = 2 \/ weak = 2
    BY DEF DefaultsInReach
  <2>3. said = u[<<"user", s>>] /\ again = w[<<"user", s>>]
    BY <1>1, <1>4 DEF UserValue
  <2>4. \/ again # Unset /\ again = val
        \/ /\ again = Unset
           /\ vis <= rev \/ val = StrDefault(k, s, now).v
    <3>1. val = ValueOf(k, s, now)
      BY DEF ValueOf
    <3>2. \/ w[<<"user", s>>] # Unset /\ w[<<"user", s>>] = ValueOf(k, s, now)
          \/ /\ w[<<"user", s>>] = Unset
             /\ \/ ValueOf(k, s, now) = StrDefault(k, s, now).v
                \/ IsTri(k, s) /\ vis <= ExprValue(k, k.rev[s], now).v
      BY <1>4 DEF SaysValues
    <3> HIDE DEF val, vis
    <3> QED BY <2>3, <3>1, <3>2
  <2>5. StrDefault(k, s, now).v = NotM(IF bool THEN 2 ELSE 0, Max2(Max2(rev, weak), def))
    <3>1. StrDefault(k, s, now).v = TriDefault(k, s, now).v
      BY DEF StrDefault
    <3>2. TriDefault(k, s, now).v = BoolIfM(MaxOf(MaxOf(ExprValue(k, k.rev[s], now),
                             ExprValue(k, k.weak[s], now)),
                       DefaultTri(k, s, FirstActive(k, k.defaults[s], now), now)), SymType(k, s, now)).v
      BY DEF TriDefault
    <3>3. \A x, type : BoolIfM(x, type).v = IF x.v = 1 /\ type.v = "bool" THEN 2 ELSE x.v
      BY DEF BoolIfM, Also, Ret
    <3>4. \A x, y : MaxOf(x, y).v = Max2(x.v, y.v)
      BY DEF MaxOf
    <3> QED BY <3>1, <3>2, <3>3, <3>4 DEF NotM
  <2>6. val = own(said)
    BY <1>1, <1>2
  <2>7. said \in 0..2 \/ said = Unset
    BY <2>3
  <2> HIDE DEF vis, rev, weak, met, def, bool, val, said, again, mid
  <2>8. bool \in BOOLEAN
    BY DEF bool
  <2>9. val = own(again)
    BY <2>1, <2>2, <2>4, <2>5, <2>6, <2>7, <2>8, TriArithmetic
  <2> QED BY <1>2, <2>6, <2>9 DEF mid
<1> QED BY <1>3, <1>4

(* Of a choice symbol the user's value only counts in m mode. *)
LEMMA MemberAgain ==
    ASSUME NEW k, NEW depth, Given(k, depth), TheCodeOn(k),
           NEW u, NEW now, Solves(k, u, now), DependenciesMet(k, now),
           NEW w, Agreeing(k, now, With(k, now, w)), SaysValues(k, now, w),
           NEW s \in k.syms, IsTri(k, s), k.choiceOf[s] # NoItem
    PROVE  TriValue(k, s, With(k, now, w)).v.val = TriValue(k, s, now).v.val
<1> DEFINE mid == With(k, now, w)
           vis == now[<<"vis", s>>]
           val == now[<<"tri", s>>]
           sel(view) == Read(view, <<"sel", k.choiceOf[s]>>)
<1>1. /\ Read(now, <<"vis", s>>).v = vis
      /\ val = TriValue(k, s, now).v.val /\ vis = Visibility(k, s, now).v
      /\ Read(mid, <<"vis", s>>).v = vis /\ Read(mid, <<"user", s>>).v = w[<<"user", s>>]
      /\ sel(mid).v = sel(now).v
  <2>1. SymbolSolved(k, u, now, s)
    BY SolutionIs
  <2>2. <<"user", s>> \in UserEntries(k)
    BY DEF UserEntries
  <2>3. /\ Alike(Read(now, <<"vis", s>>), Read(mid, <<"vis", s>>))
        /\ Alike(sel(now), sel(mid))
    BY DEF Agreeing
  <2> QED BY <2>1, <2>2, <2>3, WithIs DEF SymbolSolved, Alike
<1>2. vis \in 0..2
  <2>1. s \notin k.choices
    BY DEF Given, WellFormed
  <2> QED BY <1>1, <2>1, VisibilityIs
<1>3. \A view : Read(view, <<"vis", s>>).v = vis =>
          TriValue(k, s, view).v.val =
            CASE vis = 2 -> IF sel(view).v = s THEN 2 ELSE 0
              [] vis = 1 -> IF Read(view, <<"user", s>>).v \in {Unset, 0} THEN 0 ELSE 1
              [] OTHER -> 0
  <2>1. \A view : Read(view, <<"vis", s>>).v = vis =>
            TriValue(k, s, view).v = MemberTri(k, s, vis, view).v
    BY DEF TriValue, TriOfVisible, Also
  <2> HIDE DEF vis
  <2>2. \A view : MemberTri(k, s, vis, view).v.val =
            CASE vis = 2 -> IF sel(view).v = s THEN 2 ELSE 0
              [] vis = 1 -> IF Read(view, <<"user", s>>).v \in {Unset, 0} THEN 0 ELSE 1
              [] OTHER -> 0
    BY <1>2 DEF MemberTri, IfSelected, IfUser, UserValue, Also, Ret
  <2> QED BY <2>1, <2>2
<1>4. vis = 1 => (w[<<"user", s>>] \in {Unset, 0} <=> val = 0)
  BY DEF SaysValues
<1>5. /\ val =
            CASE vis = 2 -> IF sel(now).v = s THEN 2 ELSE 0
              [] vis = 1 -> IF Read(now, <<"user", s>>).v \in {Unset, 0} THEN 0 ELSE 1
              [] OTHER -> 0
      /\ TriValue(k, s, mid).v.val =
            CASE vis = 2 -> IF sel(mid).v = s THEN 2 ELSE 0
              [] vis = 1 -> IF Read(mid, <<"user", s>>).v \in {Unset, 0} THEN 0 ELSE 1
              [] OTHER -> 0
  <2> HIDE DEF vis, val, sel
  <2> QED BY <1>1, <1>3
<1> HIDE DEF vis, val, sel, mid
<1>6. TriValue(k, s, mid).v.val = val
  BY <1>1, <1>2, <1>4, <1>5
<1> QED BY <1>1, <1>6 DEF mid

(* The value of a string or int symbol: what the user says if it is in the *)
(* range, or the default brought into it.                                  *)
Into(range, text) ==
    CASE range.on /\ Number(text) < range.low -> range.low
      [] range.on /\ Number(text) >= range.low /\ Number(text) > range.high -> range.high
      [] OTHER -> text

TextValue(int, range, said, def) ==
    IF int
    THEN IF said # Unset /\ (~range.on \/ (range.low <= said /\ said <= range.high))
         THEN said ELSE Into(range, def)
    ELSE IF said # Unset THEN said ELSE def

LEMMA TextValueIs ==
    ASSUME NEW k, NEW s, ~IsTri(k, s), NEW view
    PROVE  StrValue(k, s, view).v.val
             = TextValue(k.type[s] = "int",
                         RangeOf(k, s, FirstActive(k, k.ranges[s], view), view).v,
                         UserValue(s, Read(view, <<"vis", s>>).v, view).v,
                         DefaultText(k, s, FirstActive(k, k.defaults[s], view), view).v)
<1> DEFINE vis == Read(view, <<"vis", s>>)
           range == RangeOf(k, s, FirstActive(k, k.ranges[s], view), view)
           input == UserValue(s, vis.v, view)
           first == FirstActive(k, k.defaults[s], view)
           text == DefaultText(k, s, first, view)
<1>1. StrValue(k, s, view).v = IF k.type[s] = "int" THEN IntValue(k, s, vis.v, view).v
                               ELSE StringValue(k, s, vis.v, view).v
  BY DEF StrValue, TextOfVisible, Also
<1>2. IntValue(k, s, vis.v, view) = IntInRange(k, s, vis.v, range, input, first, view)
  BY DEF IntValue
<1>3. StringValue(k, s, vis.v, view) = TextOrUser(k, s, vis.v, input, first, view)
  BY DEF StringValue
<1> HIDE DEF vis, range, input
<1>4. StringValue(k, s, vis.v, view).v.val = IF input.v # Unset THEN input.v ELSE text.v
  <2>1. TextOrUser(k, s, vis.v, input, first, view).v
          = (IF input.v # Unset THEN Ret([val |-> input.v, write |-> TRUE])
             ELSE Also(text, Ret([val |-> text.v, write |-> vis.v # 0 \/ first.v.at # 0]))).v
    BY DEF TextOrUser, Also
  <2> HIDE DEF text, first
  <2> QED BY <1>3, <2>1 DEF Also, Ret
<1>5. IntValue(k, s, vis.v, view).v.val
        = IF input.v # Unset /\ (~range.v.on \/ (range.v.low <= input.v /\ input.v <= range.v.high))
          THEN input.v ELSE Into(range.v, text.v)
  <2> DEFINE fits == ~range.v.on \/ (range.v.low <= input.v /\ input.v <= range.v.high)
  <2>1. IntInRange(k, s, vis.v, range, input, first, view).v
          = (IF input.v # Unset /\ fits THEN Ret([val |-> input.v, write |-> TRUE])
             ELSE Clamped(vis.v, range.v, first, text)).v
    BY DEF IntInRange, Also
  <2>2. Clamped(vis.v, range.v, first, text).v.val = Into(range.v, text.v)
    BY DEF Clamped, Into, Also, Ret
  <2> HIDE DEF text, first
  <2> QED BY <1>2, <2>1, <2>2 DEF Ret
<1>6. StrValue(k, s, view).v.val = TextValue(k.type[s] = "int", range.v, input.v, text.v)
  BY <1>1, <1>4, <1>5 DEF TextValue
<1> QED BY <1>6 DEF vis, range, input, text, first

LEMMA TextArithmetic ==
    ASSUME NEW int \in BOOLEAN, NEW range, NEW def, NEW said, NEW again, NEW val,
           int => def \in Int /\ range.low \in Int /\ range.high \in Int,
           val = TextValue(int, range, said, def),
           \/ again # Unset /\ again = val
           \/ again = Unset /\ val = def
    PROVE  val = TextValue(int, range, again, def)
<1>1. CASE again # Unset /\ again = val
  BY <1>1 DEF TextValue
<1>2. CASE again = Unset /\ val = def
  <2>1. CASE ~int
    BY <1>2, <2>1 DEF TextValue
  <2>2. CASE int /\ (val = Into(range, def) \/ ~range.on)
    <3>1. ~range.on => Into(range, def) = def
      BY DEF Into
    <3> QED BY <1>2, <2>2, <3>1 DEF TextValue
  <2>3. CASE int /\ range.low <= def /\ def <= range.high
    <3>1. def \in Int /\ range.low \in Int /\ range.high \in Int
      BY <2>3
    <3>2. def = Blank => Number(def) = 0 /\ def = -1
      BY DEF Number, Blank
    <3>3. def # Blank => Number(def) = def
      BY DEF Number
    <3>4. Into(range, def) = def
      <4>1. CASE def # Blank
        BY <2>3, <3>1, <3>3, <4>1 DEF Into
      <4>2. CASE def = Blank
        BY <2>3, <3>1, <3>2, <4>2 DEF Into
      <4> QED BY <4>1, <4>2
    <3> QED BY <1>2, <2>3, <3>4 DEF TextValue
  <2> QED BY <1>2, <2>1, <2>2, <2>3 DEF TextValue
<1> QED BY <1>1, <1>2

LEMMA TextAgain ==
    ASSUME NEW k, NEW depth, Given(k, depth), TheCodeOn(k),
           NEW u, NEW now, Solves(k, u, now), IntsRight(k, now),
           NEW w, Agreeing(k, now, With(k, now, w)), SaysValues(k, now, w),
           NEW s \in k.syms, ~IsTri(k, s), k.choiceOf[s] = NoItem
    PROVE  StrValue(k, s, With(k, now, w)).v.val = StrValue(k, s, now).v.val
<1> DEFINE mid == With(k, now, w)
           vis == now[<<"vis", s>>]
           int == k.type[s] = "int"
           range == RangeOf(k, s, FirstActive(k, k.ranges[s], now), now).v
           def == DefaultText(k, s, FirstActive(k, k.defaults[s], now), now).v
           val == now[<<"str", s>>]
           said == UserValue(s, vis, now).v
           again == UserValue(s, vis, mid).v
<1>1. /\ Read(now, <<"vis", s>>).v = vis
      /\ val = StrValue(k, s, now).v.val
      /\ Read(mid, <<"vis", s>>).v = vis /\ Read(mid, <<"user", s>>).v = w[<<"user", s>>]
  <2>1. SymbolSolved(k, u, now, s)
    BY SolutionIs
  <2>2. <<"user", s>> \in UserEntries(k) /\ <<"str", s>> \in CacheEntries(k)
    BY DEF UserEntries, CacheEntries
  <2>3. Alike(Read(now, <<"vis", s>>), Read(mid, <<"vis", s>>))
    BY DEF Agreeing
  <2>4. Value(k, <<"str", s>>, now).v = StrValue(k, s, now).v.val
    BY DEF Value, ValOf
  <2>5. val = StrValue(k, s, now).v.val
    BY <2>2, <2>4 DEF Solves, TheCodeOn
  <2> QED BY <2>1, <2>2, <2>3, <2>5, WithIs DEF SymbolSolved, Alike
<1>2. /\ StrValue(k, s, now).v.val = TextValue(int, range, said, def)
      /\ StrValue(k, s, mid).v.val = TextValue(int, range, again, def)
  <2>1. StrValue(k, s, now).v.val = TextValue(int, range, said, def)
    BY <1>1, TextValueIs
  <2>2. /\ RangeOf(k, s, FirstActive(k, k.ranges[s], mid), mid).v = range
        /\ DefaultText(k, s, FirstActive(k, k.defaults[s], mid), mid).v = def
    <3>1. AlikeTexts(k, s, now, mid)
      BY AlikeSymbol
    <3> QED BY <3>1 DEF AlikeTexts, Alike
  <2> HIDE DEF mid, range, def, vis, again, int
  <2>3. StrValue(k, s, mid).v.val
             = TextValue(int, RangeOf(k, s, FirstActive(k, k.ranges[s], mid), mid).v,
                         UserValue(s, Read(mid, <<"vis", s>>).v, mid).v,
                         DefaultText(k, s, FirstActive(k, k.defaults[s], mid), mid).v)
    BY TextValueIs DEF int
  <2>4. StrValue(k, s, mid).v.val = TextValue(int, range, again, def)
    BY <1>1, <2>2, <2>3 DEF again
  <2> QED BY <2>1, <2>4
<1>3. CASE vis = 0
  <2>1. said = Unset /\ again = Unset
    BY <1>3 DEF UserValue, Ret
  <2> HIDE DEF range, def, int
  <2> QED BY <1>2, <2>1
<1>4. CASE vis # 0
  <2>1. again = w[<<"user", s>>]
    BY <1>1, <1>4 DEF UserValue
  <2>2. \/ again # Unset /\ again = val
        \/ again = Unset /\ val = def
    <3>1. val = ValueOf(k, s, now) /\ def = StrDefault(k, s, now).v
      BY DEF ValueOf, StrDefault
    <3>2. \/ w[<<"user", s>>] # Unset /\ w[<<"user", s>>] = ValueOf(k, s, now)
          \/ w[<<"user", s>>] = Unset /\ ValueOf(k, s, now) = StrDefault(k, s, now).v
      BY <1>4 DEF SaysValues
    <3> HIDE DEF val, vis, def, again
    <3> QED BY <2>1, <3>1, <3>2
  <2>3. int => def \in Int /\ range.low \in Int /\ range.high \in Int
    BY DEF IntsRight
  <2>4. val = TextValue(int, range, said, def)
    BY <1>1, <1>2
  <2>5. int \in BOOLEAN
    OBVIOUS
  <2> HIDE DEF range, def, val, said, again, int
  <2>6. val = TextValue(int, range, again, def)
    BY <2>2, <2>3, <2>4, <2>5, TextArithmetic
  <2> QED BY <1>1, <1>2, <2>6
<1> QED BY <1>3, <1>4

(* Saying again what the values are gives them back.                       *)
Speakable(k, u, now) ==
    /\ DependenciesMet(k, now) /\ DefaultsInReach(k, now) /\ IntsRight(k, now) /\ MembersBelong(k)
    /\ \A s \in k.syms : IsTri(k, s) => u[<<"user", s>>] \in 0..2 \cup {Unset}

LEMMA SolvedAgain ==
    ASSUME NEW k, NEW depth, Given(k, depth), TheCodeOn(k),
           NEW u, NEW now, Solves(k, u, now), Speakable(k, u, now),
           NEW w, SaysAgain(k, now, w)
    PROVE  Solves(k, w, With(k, now, w))
<1> DEFINE mid == With(k, now, w)
<1>1. /\ DependenciesMet(k, now) /\ DefaultsInReach(k, now) /\ IntsRight(k, now) /\ MembersBelong(k)
      /\ \A s \in k.syms : IsTri(k, s) => u[<<"user", s>>] \in 0..2 \cup {Unset}
      /\ SaysModes(k, now, w) /\ SaysSelections(k, now, w) /\ SaysValues(k, now, w)
  BY DEF Speakable, SaysAgain
<1>2. Agreeing(k, now, mid)
  BY <1>1, WithAgrees
<1>3. ASSUME NEW e \in CacheEntries(k), Value(k, e, mid).v = Value(k, e, now).v
      PROVE  Eval(k, e, mid).v = mid[e]
  <2>1. e \notin UserEntries(k)
    BY Disjoint
  <2>2. mid[e] = now[e]
    BY <2>1 DEF With
  <2> HIDE DEF mid
  <2> QED BY <1>3, <2>2 DEF Solves, TheCodeOn
<1>4. ASSUME NEW i \in k.syms \cup k.choices
      PROVE  Value(k, <<"vis", i>>, mid).v = Value(k, <<"vis", i>>, now).v
  <2>1. Alike(Visibility(k, i, now), Visibility(k, i, mid))
    BY <1>2, AlikeVisibility
  <2> QED BY <2>1 DEF Value, Alike
<1>5. ASSUME NEW s \in k.syms
      PROVE  Value(k, <<"tri", s>>, mid).v = Value(k, <<"tri", s>>, now).v
  <2>1. \A view : Value(k, <<"tri", s>>, view).v = TriValue(k, s, view).v.val
    BY DEF Value, ValOf
  <2>2. TriValue(k, s, mid).v.val = TriValue(k, s, now).v.val
    <3>1. CASE ~IsTri(k, s)
      BY <3>1 DEF TriValue, Ret
    <3>2. CASE IsTri(k, s) /\ k.choiceOf[s] = NoItem
      <4>1. u[<<"user", s>>] \in 0..2 \cup {Unset}
        BY <1>1, <3>2
      <4> HIDE DEF mid
      <4> QED BY <1>1, <1>2, <3>2, <4>1, TriAgain DEF mid
    <3>3. CASE IsTri(k, s) /\ k.choiceOf[s] # NoItem
      BY <1>1, <1>2, <3>3, MemberAgain
    <3> QED BY <3>1, <3>2, <3>3
  <2> HIDE DEF mid
  <2> QED BY <2>1, <2>2
<1>6. ASSUME NEW s \in k.syms
      PROVE  Value(k, <<"str", s>>, mid).v = Value(k, <<"str", s>>, now).v
  <2>1. \A view : Value(k, <<"str", s>>, view).v = StrValue(k, s, view).v.val
    BY DEF Value, ValOf
  <2>2. CASE IsTri(k, s)
    <3>1. \A view : StrValue(k, s, view).v.val = Read(view, <<"tri", s>>).v
      BY <2>2 DEF StrValue, TextOfTri, Also, Ret
    <3>2. Read(mid, <<"tri", s>>).v = Read(now, <<"tri", s>>).v
      BY <1>2 DEF Agreeing, Alike
    <3> HIDE DEF mid
    <3> QED BY <2>1, <3>1, <3>2
  <2>3. CASE ~IsTri(k, s)
    <3>1. k.choiceOf[s] = NoItem
      <4>1. k.choiceOf[s] # NoItem => k.choiceOf[s] \in k.choices /\ s \in Members(k, k.choiceOf[s])
        BY DEF Given, WellFormed, ChoicesRight
      <4> QED BY <1>1, <2>3, <4>1 DEF MembersBelong
    <3>2. StrValue(k, s, mid).v.val = StrValue(k, s, now).v.val
      BY <1>1, <1>2, <2>3, <3>1, TextAgain
    <3> HIDE DEF mid
    <3> QED BY <2>1, <3>2
  <2> QED BY <2>2, <2>3
<1>7. ASSUME NEW i \in k.syms \cup k.choices
      PROVE  Value(k, <<"asg", i>>, mid).v = Value(k, <<"asg", i>>, now).v
  <2>1. /\ i \in k.syms => Alike(SymAssignable(k, i, now), SymAssignable(k, i, mid))
        /\ i \in k.choices => Alike(ChoiceAssignable(k, i, now), ChoiceAssignable(k, i, mid))
    BY <1>2, AlikeAssignable
  <2>2. \A view : Value(k, <<"asg", i>>, view) = IF i \in k.syms THEN SymAssignable(k, i, view)
                                                 ELSE ChoiceAssignable(k, i, view)
    BY DEF Value, Given, WellFormed
  <2> HIDE DEF mid
  <2> QED BY <2>1, <2>2 DEF Alike
<1>8. ASSUME NEW c \in k.choices
      PROVE  Value(k, <<"sel", c>>, mid).v = Value(k, <<"sel", c>>, now).v
  <2>1. Alike(Selection(k, c, now), Selection(k, c, mid))
    BY <1>1, <1>2, SelectionAgain
  <2>2. \A view : Value(k, <<"sel", c>>, view) = Selection(k, c, view)
    BY DEF Value
  <2> HIDE DEF mid
  <2> QED BY <2>1, <2>2 DEF Alike
<1>9. ASSUME NEW e \in CacheEntries(k) PROVE Eval(k, e, mid).v = mid[e]
  <2>1. PICK attr, i : e = <<attr, i>> /\ i \in k.syms \cup k.choices
                       /\ attr \in {"vis", "tri", "str", "asg", "sel"}
                       /\ (attr \in {"tri", "str"} => i \in k.syms)
                       /\ (attr = "sel" => i \in k.choices)
    BY DEF CacheEntries
  <2> HIDE DEF mid
  <2>2. Value(k, <<attr, i>>, mid).v = Value(k, <<attr, i>>, now).v
    BY <1>4, <1>5, <1>6, <1>7, <1>8, <2>1
  <2> QED BY <1>3, <2>1, <2>2
<1>10. \A r \in UserEntries(k) : mid[r] = w[r]
  BY DEF With
<1>11. DOMAIN mid = UserEntries(k) \cup CacheEntries(k)
  BY DEF With
<1> HIDE DEF mid
<1>12. Solves(k, w, mid)
  BY <1>9, <1>10, <1>11 DEF Solves
<1> QED BY <1>12 DEF mid

(* A solution is the only one where entries are ranked, so these are the   *)
(* values that the other user values determine.                            *)
LEMMA SaidAgain ==
    ASSUME NEW k, NEW depth, Given(k, depth), TheCodeOn(k),
           NEW u, NEW now, Solves(k, u, now), Speakable(k, u, now),
           NEW w, SaysAgain(k, now, w),
           NEW then, Solves(k, w, then), NEW rank, Ordered(k, then, rank),
           NEW e \in CacheEntries(k)
    PROVE  then[e] = now[e]
<1> DEFINE mid == With(k, now, w)
<1>1. Solves(k, w, mid)
  BY SolvedAgain
<1>2. rank[e] \in Nat
  BY DEF Ordered
<1>3. rank[e] + 1 \in Nat /\ rank[e] < rank[e] + 1
  BY <1>2
<1>4. mid[e] = now[e]
  <2>1. e \notin UserEntries(k)
    BY Disjoint
  <2> QED BY <2>1 DEF With
<1> HIDE DEF mid
<1>5. \A x \in CacheEntries(k) : rank[x] < rank[e] + 1 =>
          \A r \in Value(k, x, then).r \cap UserEntries(k) : w[r] = w[r]
  OBVIOUS
<1>6. \A x \in CacheEntries(k) : rank[x] < rank[e] + 1 => mid[x] = then[x]
  BY <1>1, <1>3, <1>5, Agree
<1> QED BY <1>3, <1>4, <1>6

(* What a file shows of a choice symbol: in y mode it is the selection or  *)
(* n, in m mode m or n.  It has a line where it is visible.                *)
MemberShown(k, now, s) ==
    LET mode == ChoiceTri(k, k.choiceOf[s], now).v
        vis == now[<<"vis", s>>]
        val == now[<<"tri", s>>]
    IN /\ vis \in 0..2 /\ val \in 0..2 /\ val <= vis /\ (val = 1 => vis = 1)
       /\ WriteToConf(k, s, now) <=> vis # 0
       /\ ValueOf(k, s, now) = val /\ StrDefault(k, s, now).v = 0
       /\ mode = 2 => vis # 1 /\ (val = 2 <=> vis # 0 /\ Selection(k, k.choiceOf[s], now).v = s)
       /\ vis = 2 => mode = 2
       /\ vis = 1 => mode = 1 /\ k.type[k.choiceOf[s]] = "tristate"

LEMMA MembersAre ==
    ASSUME NEW k, NEW depth, Given(k, depth), TheCodeOn(k),
           NEW u, NEW now, Solves(k, u, now), DependenciesMet(k, now), MembersFollow(k, now),
           NEW s \in k.syms, IsTri(k, s), k.choiceOf[s] # NoItem
    PROVE  MemberShown(k, now, s)
<1> DEFINE c == k.choiceOf[s]
           mode == ChoiceTri(k, c, now).v
           vis == now[<<"vis", s>>]
           val == now[<<"tri", s>>]
           sel == Read(now, <<"sel", c>>)
           strongest == StrongestPrompt(k, k.prompts[s], now).v
<1>1. /\ Read(now, <<"vis", s>>).v = vis /\ vis = Visibility(k, s, now).v
      /\ val = TriValue(k, s, now).v.val
  <2>1. SymbolSolved(k, u, now, s)
    BY SolutionIs
  <2> QED BY <2>1 DEF SymbolSolved
<1>2. c \in k.choices /\ s \notin k.choices /\ s \in TriSyms(k)
  BY DEF Given, WellFormed, ChoicesRight, TriSyms
<1>3. sel.v = Selection(k, c, now).v
  <2>1. ChoiceSolved(k, u, now, c)
    BY <1>2, SolutionIs
  <2> QED BY <2>1 DEF ChoiceSolved
<1>4. vis \in 0..2
  BY <1>1, <1>2, VisibilityIs
<1>5. TriValue(k, s, now).v =
          IF vis = 2 THEN [val |-> IF sel.v = s THEN 2 ELSE 0, write |-> TRUE]
          ELSE IfUser(UserValue(s, vis, now), vis).v
  <2>1. TriValue(k, s, now).v = MemberTri(k, s, vis, now).v
    BY <1>1 DEF TriValue, TriOfVisible, Also
  <2> HIDE DEF vis, sel
  <2> QED BY <2>1 DEF MemberTri, IfSelected, Also, Ret, sel
<1>6. IfUser(UserValue(s, vis, now), vis).v =
          [val |-> IF UserValue(s, vis, now).v \in {Unset, 0} THEN 0 ELSE 1, write |-> vis # 0]
  BY DEF IfUser, Also, Ret
<1>7. vis = 0 => UserValue(s, vis, now).v = Unset
  BY DEF UserValue, Ret
<1>8. val = IF vis = 2 THEN IF sel.v = s THEN 2 ELSE 0
            ELSE IF UserValue(s, vis, now).v \in {Unset, 0} THEN 0 ELSE 1
  BY <1>1, <1>5, <1>6
<1>9. WriteToConf(k, s, now) <=> vis # 0
  <2>1. WriteToConf(k, s, now) <=> TriValue(k, s, now).v.write
    BY DEF WriteToConf
  <2>2. CASE vis = 2
    BY <1>5, <2>1, <2>2
  <2>3. CASE vis # 2
    <3>1. TriValue(k, s, now).v.write = IfUser(UserValue(s, vis, now), vis).v.write
      BY <1>5, <2>3
    <3>2. IfUser(UserValue(s, vis, now), vis).v.write = (vis # 0)
      BY <1>6
    <3> QED BY <2>1, <3>1, <3>2
  <2> QED BY <2>2, <2>3
<1>10. ValueOf(k, s, now) = val /\ StrDefault(k, s, now).v = 0
  <2>1. \A type : BoolIfM(Ret(0), type).v = 0
    BY DEF BoolIfM, Also, Ret
  <2> QED BY <2>1 DEF ValueOf, StrDefault, TriDefault
<1>11. mode = 2 => vis # 1
  BY <1>1, <1>2, VisibleInChoice
<1>12. vis = 2 => mode = 2
  BY <1>1, <1>2, VisibleMeansYes
<1>13. vis = 1 => mode = 1 /\ k.type[c] = "tristate"
  <2>1. mode \in 0..2 /\ strongest <= mode
    BY StrongestInMode
  <2>2. strongest \in 0..2
    BY VisibleIsMet
  <2>3. strongest = 0 => Visibility(k, s, now).v = 0
    BY DEF Visibility, VisibilityByPrompt, VisibilityInMode, PromoteVisibility, Also, Ret
  <2>4. k.type[c] \in {"bool", "tristate"}
    BY DEF MembersFollow
  <2> HIDE DEF strongest, mode, vis
  <2>5. vis = 1 => mode = 1
    BY <1>1, <1>11, <2>1, <2>2, <2>3
  <2> QED BY <2>4, <2>5, BoolNotM DEF mode
<1> HIDE DEF vis, val, mode, sel, c
<1>14. /\ val \in 0..2 /\ val <= vis /\ (val = 1 => vis = 1)
       /\ mode = 2 => (val = 2 <=> vis # 0 /\ sel.v = s)
  BY <1>4, <1>7, <1>8, <1>11
<1> QED BY <1>3, <1>4, <1>9, <1>10, <1>11, <1>12, <1>13, <1>14 DEF MemberShown, vis, val, mode, sel, c

(* What a choice in y mode selects is one of its symbols and visible, and  *)
(* without a selection it has none by default.                             *)
LEMMA SelectedIs ==
    ASSUME NEW k, NEW depth, Given(k, depth), TheCodeOn(k), MembersBelong(k),
           NEW u, NEW now, Solves(k, u, now), NEW c \in k.choices,
           u[<<"pick", c>>] = NoItem \/ u[<<"pick", c>>] \in Members(k, c),
           ChoiceTri(k, c, now).v = 2, NEW t, t = Selection(k, c, now).v
    PROVE  /\ t # NoItem => t \in Members(k, c) /\ t \in k.syms /\ now[<<"vis", t>>] # 0
           /\ t = NoItem => SelectionFromDefaults(k, c, now).v = NoItem
<1> DEFINE pick == Read(now, <<"pick", c>>)
           vis == Read(now, <<"vis", pick.v>>)
           sel == SelectionFromDefaults(k, c, now)
           first == DefaultSelection(k, c, now)
<1>1. pick.v = u[<<"pick", c>>]
  <2>1. ChoiceSolved(k, u, now, c)
    BY SolutionIs
  <2> QED BY <2>1 DEF ChoiceSolved
<1>2. t = IF pick.v # NoItem /\ vis.v # 0 THEN pick.v ELSE sel.v
  <2>1. t = Picked(k, c, pick, now).v
    BY DEF Selection, SelectionIn, Also
  <2> HIDE DEF sel
  <2>2. CASE pick.v = NoItem
    BY <2>1, <2>2 DEF Picked, PickIfVisible, Also, Ret, sel
  <2>3. CASE pick.v # NoItem
    BY <2>1, <2>3 DEF Picked, PickIfVisible, Also, Ret, sel
  <2> QED BY <2>2, <2>3
<1>3. \A m \in Members(k, c) : m \in k.syms /\ Read(now, <<"vis", m>>).v = now[<<"vis", m>>]
  <2>1. \A s \in k.syms : SymbolSolved(k, u, now, s)
    BY SolutionIs
  <2>2. \A s \in k.syms : Read(now, <<"vis", s>>).v = now[<<"vis", s>>]
    BY <2>1 DEF SymbolSolved
  <2> QED BY <2>2 DEF MembersBelong
<1>4. sel.v # NoItem => sel.v \in Members(k, c) /\ Read(now, <<"vis", sel.v>>).v # 0
  <2>1. CASE first.v # 0
    <3> DEFINE results == [n \in DOMAIN k.defaults[c] |->
                  IfActive(ExprValue(k, k.defaults[c][n][2], now),
                           Read(now, <<"vis", k.defaults[c][n][1]>>))]
    <3>1. first = FirstOf(results)
      BY DEF DefaultSelection
    <3>2. DOMAIN results = DOMAIN k.defaults[c]
      OBVIOUS
    <3>3. DOMAIN k.defaults[c] \subseteq Nat
      BY DEF Given, WellFormed, ListsRight
    <3>4. \A n \in DOMAIN results : results[n].v # 0 => Read(now, <<"vis", k.defaults[c][n][1]>>).v # 0
      BY DEF IfActive, Also, Ret
    <3> HIDE DEF results
    <3>5. first.v \in DOMAIN results /\ results[first.v].v # 0
      <4>1. DOMAIN results \subseteq Nat
        BY <3>2, <3>3
      <4> QED BY <2>1, <3>1, <4>1, FirstIsOne
    <3>6. sel.v = k.defaults[c][first.v][1]
      BY <2>1 DEF SelectionFromDefaults, Also, Ret
    <3>7. k.defaults[c][first.v][1] \in Members(k, c)
      BY <3>2, <3>5 DEF Given, WellFormed, ChoicesRight
    <3> HIDE DEF first, sel
    <3> QED BY <3>2, <3>4, <3>5, <3>6, <3>7
  <2>2. CASE first.v = 0
    <3> DEFINE results == [n \in DOMAIN k.members[c] |-> Read(now, <<"vis", k.members[c][n]>>)]
               at == FirstOf(results).v
    <3>1. DOMAIN results = DOMAIN k.members[c]
      OBVIOUS
    <3>2. DOMAIN k.members[c] \subseteq Nat
      BY DEF Given, WellFormed, ListsRight
    <3>3. \A n \in DOMAIN results : results[n] = Read(now, <<"vis", k.members[c][n]>>)
      OBVIOUS
    <3>4. FirstMember(k, c, now).v = IF at = 0 THEN NoItem ELSE k.members[c][at]
      BY DEF FirstMember, Also, Ret
    <3> HIDE DEF results
    <3>5. at # 0 => at \in DOMAIN results /\ results[at].v # 0
      <4>1. DOMAIN results \subseteq Nat
        BY <3>1, <3>2
      <4> QED BY <4>1, FirstIsOne
    <3>6. sel.v = FirstMember(k, c, now).v
      BY <2>2 DEF SelectionFromDefaults, Also
    <3>7. \A n \in DOMAIN k.members[c] : k.members[c][n] \in Members(k, c)
      BY DEF Members
    <3> HIDE DEF at, sel
    <3> QED BY <3>1, <3>3, <3>4, <3>5, <3>6, <3>7
  <2> QED BY <2>1, <2>2
<1> HIDE DEF sel, pick, vis
<1>5. t # NoItem => t \in Members(k, c) /\ Read(now, <<"vis", t>>).v # 0
  BY <1>1, <1>2, <1>4 DEF vis
<1>6. t = NoItem => sel.v = NoItem
  BY <1>2
<1> QED BY <1>3, <1>5, <1>6 DEF sel

(* A bool choice that is not optional is in y mode without a word.         *)
LEMMA ModeUnsaid ==
    ASSUME NEW k, NEW depth, Given(k, depth), TheCodeOn(k),
           NEW u, NEW now, Solves(k, u, now), DependenciesMet(k, now),
           NEW c \in k.choices, c \notin k.optional, k.type[c] = "bool",
           ChoiceTri(k, c, now).v = 2
    PROVE  ModeUnset(k, c, now).v = 2
<1> DEFINE vis == Read(now, <<"vis", c>>)
           mode == Read(now, <<"mode", c>>)
<1>1. vis.v \in 0..2
  <2>1. <<"vis", c>> \in CacheEntries(k) /\ c \notin k.syms
    BY DEF CacheEntries, Given, WellFormed
  <2>2. Value(k, <<"vis", c>>, now) = Visibility(k, c, now)
    BY DEF Value
  <2>3. vis.v = Visibility(k, c, now).v
    BY <2>1, <2>2 DEF Solves, TheCodeOn, Read
  <2> QED BY <2>1, <2>3, ChoiceVisibilityIs
<1> HIDE DEF vis, mode
<1>2. YesIfBool(ChoiceType(k, c, now)).v = 2
  BY DEF ChoiceType, YesIfBool, Also, Ret
<1>3. \A x : PromoteMode(k, c, x, now).v = IF x.v = 1 THEN 2 ELSE x.v
  BY <1>2 DEF PromoteMode, Also
<1>4. vis.v # 0
  <2> SUFFICES ASSUME vis.v = 0 PROVE FALSE
    OBVIOUS
  <2>1. ChoiceTri(k, c, now) = PromoteMode(k, c, WithinMode(k, c, mode, vis), now)
    BY DEF ChoiceTri, vis, mode
  <2>2. WithinMode(k, c, mode, vis).v \in {1, 2}
    BY <1>3, <2>1
  <2>3. WithinMode(k, c, mode, vis).v = Min2(0, Max2(1, mode.v)) \/ WithinMode(k, c, mode, vis).v = Min2(0, 1)
    BY DEF WithinMode, MinOf, Also, Ret
  <2>4. \A x, y : Min2(x, y) \in {x, y}
    BY DEF Min2
  <2>5. ~(0 < Max2(1, mode.v)) /\ Max2(1, mode.v) \in {1, 2}
    BY <2>2, <2>3 DEF Min2
  <2> QED BY <2>5
<1>5. WithinMode(k, c, Ret(Unset), vis).v = 1
  BY <1>1, <1>4 DEF WithinMode, MinOf, Also, Ret, Min2
<1> QED BY <1>3, <1>5 DEF ModeUnset, vis

(* A visible symbol outside of choices has a line in .config.              *)
LEMMA PlainWritten ==
    ASSUME NEW k, NEW depth, Given(k, depth), TheCodeOn(k), MembersBelong(k),
           NEW u, NEW now, Solves(k, u, now),
           NEW s \in k.syms, k.choiceOf[s] = NoItem, now[<<"vis", s>>] # 0
    PROVE  WriteToConf(k, s, now)
<1> DEFINE vis == now[<<"vis", s>>]
           said == UserValue(s, vis, now)
           first == FirstActive(k, k.defaults[s], now)
<1>1. Read(now, <<"vis", s>>).v = vis /\ s \in k.prompted
  <2>1. SymbolSolved(k, u, now, s)
    BY SolutionIs
  <2> QED BY <2>1 DEF SymbolSolved
<1>2. CASE IsTri(k, s)
  <2>1. TriValue(k, s, now).v = PlainTri(k, s, vis, now).v
    BY <1>1, <1>2 DEF TriValue, TriOfVisible, Also
  <2>2. OwnValue(k, s, vis, now).v.write
    <3>1. ASSUME NEW def, NEW weak, NEW met PROVE WithImply(vis, def, weak, met).v.write
      <4>1. WithImply(vis, def, weak, met).v.write = (vis # 0 \/ def.v # 0 \/ met.v # 0)
        BY DEF WithImply, Also, Ret
      <4> QED BY <4>1
    <3>2. OwnValue(k, s, vis, now) = OwnOrUser(k, s, vis, said, now)
      BY DEF OwnValue
    <3> HIDE DEF vis, said
    <3> QED BY <3>1, <3>2 DEF OwnOrUser, Implied, Also, Ret
  <2>3. PlainTri(k, s, vis, now).v.write
    <3> DEFINE own == OwnValue(k, s, vis, now)
               rev == ExprValue(k, k.rev[s], now)
               val == Max2(rev.v, own.v.val)
               result == [val |-> val, write |-> own.v.write \/ rev.v # 0]
               never == NeverM(k, s, now)
    <3>1. PlainTri(k, s, vis, now).v
            = (IF val # 1 THEN Ret(result) ELSE Promoted(result, never)).v
      BY DEF PlainTri, WithSelect, Also
    <3>2. result.write
      BY <2>2
    <3> HIDE DEF result, never, val
    <3>3. Promoted(result, never).v.write = result.write
      <4>1. DOMAIN result = {"val", "write"}
        BY DEF result
      <4> QED BY <4>1 DEF Promoted, Also, Ret
    <3> QED BY <3>1, <3>2, <3>3 DEF Ret
  <2> QED BY <1>2, <2>1, <2>3 DEF WriteToConf
<1>3. CASE ~IsTri(k, s)
  <2>1. s \notin k.auto
    BY <1>1 DEF MembersBelong
  <2>2. StrValue(k, s, now).v = IF k.type[s] = "int" THEN IntValue(k, s, vis, now).v
                                ELSE StringValue(k, s, vis, now).v
    BY <1>1, <1>3 DEF StrValue, TextOfVisible, Also
  <2>3. StringValue(k, s, vis, now).v.write
    <3>1. StringValue(k, s, vis, now) = TextOrUser(k, s, vis, said, first, now)
      BY DEF StringValue
    <3> HIDE DEF vis, said, first
    <3>2. vis # 0
      BY DEF vis
    <3>3. CASE said.v # Unset
      BY <3>1, <3>3 DEF TextOrUser, Also, Ret
    <3>4. CASE said.v = Unset
      <4>1. StringValue(k, s, vis, now).v.write = (vis # 0 \/ first.v.at # 0)
        BY <3>1, <3>4 DEF TextOrUser, Also, Ret
      <4> QED BY <3>2, <4>1
    <3> QED BY <3>3, <3>4
  <2>4. IntValue(k, s, vis, now).v.write
    <3> DEFINE range == RangeOf(k, s, FirstActive(k, k.ranges[s], now), now)
               text == DefaultText(k, s, first, now)
               fits == ~range.v.on \/ (range.v.low <= said.v /\ said.v <= range.v.high)
    <3>1. IntValue(k, s, vis, now) = IntInRange(k, s, vis, range, said, first, now)
      BY DEF IntValue
    <3> HIDE DEF vis, said, first, range
    <3>2. IntInRange(k, s, vis, range, said, first, now).v
            = (IF said.v # Unset /\ fits THEN Ret([val |-> said.v, write |-> TRUE])
               ELSE Clamped(vis, range.v, first, text)).v
      BY DEF IntInRange, Also
    <3>3. vis # 0
      BY DEF vis
    <3>4. Clamped(vis, range.v, first, text).v.write
      BY <3>3 DEF Clamped, Also, Ret
    <3> HIDE DEF fits, text
    <3> QED BY <3>1, <3>2, <3>4 DEF Ret
  <2> QED BY <1>3, <2>1, <2>2, <2>3, <2>4 DEF WriteToConf
<1> QED BY <1>2, <1>3
=============================================================================
