---------------------------- MODULE SetupProofs ----------------------------
(***************************************************************************)
(* That set-up, its undoing, edits in between, and a kill at any write lose *)
(* nothing of the user's, for any files, entries and number of runs.        *)
(***************************************************************************)
EXTENDS Setup, SequenceTheorems, TLAPS

USE SetupAssumption

Contents == (SUBSET Written) \cup {NoFile, Torn, Emptied}
Clean(f) == spoilt[f] \cap {"edited", "same second", "backup cut"} = {}
Backed(f) == UNION {Own(c) : c \in ToSet(backups[f])}

SetupTypes ==
  /\ config \in [Files -> Contents] /\ backups \in [Files -> Seq(Contents)]
  /\ routes \in Tables \cup {Torn}
  /\ theirs \in [Files -> SUBSET Declared]
  /\ kept \in [Files -> {"new", "planned", "saved"}]
  /\ spoilt \in [Files -> SUBSET {"edited", "same second", "backup cut", "backup not theirs"}]
  /\ lost \subseteq Names /\ shared \subseteq Names

CliTypes ==
  /\ cli \in [does : {"nothing", "init", "restore"}, plans : {cli.plans},
             saved : BOOLEAN, routed : BOOLEAN, table : Tables]
  /\ DOMAIN cli.plans \subseteq Files
  /\ \A f \in DOMAIN cli.plans : cli.plans[f] \in Contents
  /\ cli.does = "nothing" => cli = Idle
  /\ cli.does = "restore" => ~cli.saved

Planning ==
  /\ cli.does = "init" => \A f \in DOMAIN cli.plans :
       /\ cli.plans[f] \in SUBSET Written
       /\ kept[f] # "new" =>
            cli.plans[f] = IF f = HookFile /\ config[f] \in {NoFile, Emptied} THEN {} ELSE config[f]
       /\ cli.saved /\ IsNext(f) /\ kept[f] # "new" /\ spoilt[f] = {} => config[f] # Emptied
  /\ cli.does = "restore" => \A f \in DOMAIN cli.plans :
       backups[f] # <<>> /\ cli.plans[f] = Last(backups[f])
  /\ \A f \in Files : kept[f] = "planned" =>
       cli.does = "init" /\ f \in DOMAIN cli.plans /\ (cli.saved => ~IsNext(f))

Safe(f) ==
  /\ theirs[f] \subseteq Own(config[f]) \cup Backed(f)
  /\ kept[f] = "saved" => theirs[f] \subseteq Backed(f)
Nowhere == \A f \in Files : Clean(f) => Safe(f)

Undoable(f) ==
  /\ kept[f] = "saved" => backups[f] # <<>> /\ Last(backups[f]) \in {theirs[f], Torn, Emptied}
  /\ \/ Own(config[f]) = theirs[f] /\ config[f] \notin {Torn, Emptied}
     \/ kept[f] = "saved" /\ config[f] \in {Torn, Emptied}
Undo == \A f \in Files : spoilt[f] = {} => Undoable(f)

Leading == (UNION {Redirected(config[f]) : f \in Files})
           \cup (UNION {Redirected(c) : c \in UNION {ToSet(backups[f]) : f \in Files}})
Planned == UNION {Urls(cli.plans[f]) : f \in DOMAIN cli.plans}
Routes ==
  /\ Contested \subseteq shared
  /\ cli.does # "init" /\ routes # Torn =>
       \A e \in Leading : e.name \notin lost \cup shared => routes[e.name] = e.target
  /\ cli.does = "init" =>
       /\ routes # Torn
       /\ ~cli.routed => cli.table = routes
       /\ \A e \in Leading \cup Planned :
            e.name \notin shared /\ (e.name \notin lost \/ cli.table[e.name] # routes[e.name])
            => cli.table[e.name] = e.target

SetupInv == SetupTypes /\ CliTypes /\ Planning /\ Nowhere /\ Undo /\ Routes

-----------------------------------------------------------------------------
(* Entries and contents.                                                    *)
Plain(e)  == [e EXCEPT !.via = FALSE]
Marked(e) == [e EXCEPT !.via = TRUE]

LEMMA DeclaredIs ==
  \A d \in Declared : /\ d \in Declarable /\ d # Hook /\ d.via = FALSE /\ d.kind # "hook"
                      /\ d \in Written /\ Plain(d) = d
<1> SUFFICES ASSUME NEW d \in Declared
             PROVE  /\ d \in Declarable /\ d # Hook /\ d.via = FALSE /\ d.kind # "hook"
                    /\ d \in Written /\ Plain(d) = d
  OBVIOUS
<1>1. d \in Declarable /\ d \in Written  BY DEF Declared, Written
<1>2. d.via = FALSE /\ d.kind # "hook" /\ Plain(d) = d  BY <1>1 DEF Declarable, Kinds, Plain
<1>3. Hook.via = TRUE  BY DEF Hook
<1>4. QED  BY <1>1, <1>2, <1>3

LEMMA HookIs == Hook \in Written /\ Hook.via = TRUE /\ Hook.kind = "hook"
BY DEF Hook, Written

LEMMA WrittenIs ==
  \A e \in Written \ {Hook} :
    /\ Plain(e) \in Declared
    /\ Plain(e).name = e.name /\ Plain(e).kind = e.kind /\ Plain(e).target = e.target
    /\ e.via \in BOOLEAN /\ (~e.via => e = Plain(e))
    /\ Marked(e) \in Written \ {Hook}
    /\ Plain(Marked(e)) = Plain(e)
    /\ Marked(e).via = TRUE
    /\ Marked(e).name = e.name /\ Marked(e).target = e.target
    /\ Marked(e).kind = e.kind
<1> SUFFICES ASSUME NEW e \in Written \ {Hook}
             PROVE  /\ Plain(e) \in Declared
                    /\ Plain(e).name = e.name /\ Plain(e).kind = e.kind
                    /\ Plain(e).target = e.target
                    /\ e.via \in BOOLEAN /\ (~e.via => e = Plain(e))
                    /\ Marked(e) \in Written \ {Hook}
                    /\ Plain(Marked(e)) = Plain(e)
                    /\ Marked(e).via = TRUE
                    /\ Marked(e).name = e.name
                    /\ Marked(e).target = e.target
                    /\ Marked(e).kind = e.kind
  OBVIOUS
<1>1. PICK d \in Declared : e = d \/ e = [d EXCEPT !.via = TRUE]  BY DEF Written
<1>2. d \in Declarable /\ d.via = FALSE /\ Plain(d) = d /\ d.kind # "hook"  BY DeclaredIs
<1>3. [d EXCEPT !.via = TRUE] \in Written  BY DEF Written
<1> DEFINE Entry == [name : Names, kind : Kinds, target : Targets, via : BOOLEAN]
<1>4. d \in Entry  BY <1>2 DEF Declarable
<1>5. /\ [d EXCEPT !.via = TRUE].via = TRUE /\ [d EXCEPT !.via = TRUE].name = d.name
      /\ [d EXCEPT !.via = TRUE].kind = d.kind
      /\ [d EXCEPT !.via = TRUE].target = d.target
      /\ [d EXCEPT !.via = TRUE] \in Entry
  BY <1>4
<1>6. [[d EXCEPT !.via = TRUE] EXCEPT !.via = FALSE] = [d EXCEPT !.via = FALSE]  BY <1>4
<1>7. [[d EXCEPT !.via = TRUE] EXCEPT !.via = TRUE] = [d EXCEPT !.via = TRUE]  BY <1>4
<1> HIDE DEF Entry
<1>8. Plain([d EXCEPT !.via = TRUE]) = d  BY <1>2, <1>6 DEF Plain
<1>9. [d EXCEPT !.via = TRUE] # Hook  BY <1>2, <1>5, HookIs
<1>10. CASE e = d
  <2>1. Marked(e) = [d EXCEPT !.via = TRUE]  BY <1>10 DEF Marked
  <2>2. QED  BY <1>2, <1>3, <1>5, <1>8, <1>9, <1>10, <2>1
<1>11. CASE e = [d EXCEPT !.via = TRUE]
  <2>1. Plain(e) = d /\ Marked(e) = e  BY <1>7, <1>8, <1>11 DEF Marked
  <2>2. e.via = TRUE /\ e.name = d.name /\ e.kind = d.kind /\ e.target = d.target
    BY <1>5, <1>11
  <2>3. QED  BY <1>3, <1>9, <1>11, <2>1, <2>2
<1>12. QED  BY <1>1, <1>10, <1>11

LEMMA LegibleIs ==
  /\ \A c \in SUBSET Written : Legible(c) /\ c \in Contents
                               /\ Own(c) = {Plain(e) : e \in c \ {Hook}}
  /\ \A c \in Contents : Legible(c) => c \in SUBSET Written
  /\ \A c \in {NoFile, Torn, Emptied} : ~Legible(c) /\ Own(c) = {} /\ c \in Contents
                                        /\ Urls(c) = {} /\ Redirected(c) = {}
  /\ Own({}) = {}
<1>1. \A c \in SUBSET Written : Legible(c) /\ c \in Contents  BY DEF Legible, Contents
<1>2. \A c \in SUBSET Written : Own(c) = {Plain(e) : e \in c \ {Hook}}
  BY <1>1 DEF Own, Plain
<1>3. \A c \in Contents : Legible(c) => c \in SUBSET Written  BY DEF Legible, Contents
<1>4. \A c \in {NoFile, Torn, Emptied} : ~Legible(c) /\ c \in Contents
  BY DEF Legible, Contents
<1>5. \A c \in {NoFile, Torn, Emptied} : Own(c) = {} /\ Urls(c) = {} /\ Redirected(c) = {}
  BY <1>4 DEF Own, Urls, Redirected
<1>6. Own({}) = {}  BY <1>2
<1>7. QED  BY <1>1, <1>2, <1>3, <1>4, <1>5, <1>6

LEMMA OwnDeclared == \A c \in SUBSET Declared : Own(c) = c
<1> SUFFICES ASSUME NEW c \in SUBSET Declared  PROVE Own(c) = c
  OBVIOUS
<1>1. c \in SUBSET Written /\ Hook \notin c  BY DeclaredIs
<1>2. Own(c) = {Plain(e) : e \in c}  BY <1>1, LegibleIs
<1>3. \A e \in c : Plain(e) = e  BY DeclaredIs
<1>4. QED  BY <1>2, <1>3

LEMMA OwnIsDeclared == \A c \in Contents : Own(c) \subseteq Declared
<1> SUFFICES ASSUME NEW c \in Contents  PROVE Own(c) \subseteq Declared
  OBVIOUS
<1>1. CASE c \in SUBSET Written
  <2>1. Own(c) = {Plain(e) : e \in c \ {Hook}}  BY <1>1, LegibleIs
  <2>2. \A e \in c \ {Hook} : Plain(e) \in Declared  BY <1>1, WrittenIs
  <2>3. QED  BY <2>1, <2>2
<1>2. CASE ~Legible(c)  BY <1>2 DEF Own
<1>3. QED  BY <1>1, <1>2, LegibleIs

(* What mcpwall writes has the same declarations in it.                     *)
LEMMA WrapIs ==
  \A e \in Written \ {Hook} :
     Wrap(e) \in Written \ {Hook} /\ Plain(Wrap(e)) = Plain(e)
     /\ Wrap(e).name = e.name /\ Wrap(e).target = e.target /\ Wrap(e).kind = e.kind
<1> SUFFICES ASSUME NEW e \in Written \ {Hook}
             PROVE  /\ Wrap(e) \in Written \ {Hook} /\ Plain(Wrap(e)) = Plain(e)
                    /\ Wrap(e).name = e.name /\ Wrap(e).target = e.target
                    /\ Wrap(e).kind = e.kind
  OBVIOUS
<1>1. CASE e.kind \in {"stdio", "http"}
  <2>1. Wrap(e) = Marked(e)  BY <1>1 DEF Wrap, Marked
  <2>2. QED  BY <2>1, WrittenIs
<1>2. CASE e.kind \notin {"stdio", "http"}
  <2>1. Wrap(e) = e  BY <1>2 DEF Wrap
  <2>2. QED  BY <2>1
<1>3. QED  BY <1>1, <1>2

LEMMA HookWrap == Wrap(Hook) = Hook
BY HookIs DEF Wrap

LEMMA AfterIs ==
  ASSUME NEW f, NEW c \in SUBSET Written
  PROVE  /\ After(f, c) \in SUBSET Written
         /\ Own(After(f, c)) = Own(c)
         /\ \A e \in Urls(After(f, c)) :
              \E x \in Urls(c) : x.name = e.name /\ x.target = e.target
<1>1. CASE f = HookFile
  <2>1. After(f, c) = c \cup {Hook}  BY <1>1 DEF After
  <2>2. After(f, c) \in SUBSET Written  BY <2>1, HookIs
  <2>3. After(f, c) \ {Hook} = c \ {Hook}  BY <2>1
  <2>4. Own(After(f, c)) = Own(c)  BY <2>2, <2>3, LegibleIs
  <2>5. Legible(After(f, c)) /\ Legible(c)  BY <2>2, LegibleIs
  <2>6. Urls(After(f, c)) = Urls(c)  BY <2>1, <2>5, HookIs DEF Urls
  <2>7. QED  BY <2>2, <2>4, <2>6
<1>2. CASE f # HookFile
  <2>1. After(f, c) = {Wrap(e) : e \in c}  BY <1>2 DEF After
  <2>2. After(f, c) \in SUBSET Written  BY <2>1, WrapIs, HookWrap
  <2>3. {Plain(e) : e \in After(f, c) \ {Hook}} = {Plain(e) : e \in c \ {Hook}}
    <3>1. ASSUME NEW e \in c \ {Hook}
          PROVE  Wrap(e) \in After(f, c) \ {Hook} /\ Plain(Wrap(e)) = Plain(e)
      BY <2>1, WrapIs
    <3>2. ASSUME NEW w \in After(f, c) \ {Hook}
          PROVE  \E e \in c \ {Hook} : Plain(e) = Plain(w)
      <4>1. PICK e \in c : w = Wrap(e)  BY <2>1
      <4>2. e # Hook  BY <4>1, HookWrap
      <4>3. QED  BY <4>1, <4>2, WrapIs
    <3>3. QED  BY <3>1, <3>2
  <2>4. Own(After(f, c)) = Own(c)  BY <2>2, <2>3, LegibleIs
  <2>5. Legible(After(f, c)) /\ Legible(c)  BY <2>2, LegibleIs
  <2>6. ASSUME NEW w \in Urls(After(f, c))
        PROVE  \E x \in Urls(c) : x.name = w.name /\ x.target = w.target
    <3>1. w \in After(f, c) /\ w.kind = "http"  BY <2>5 DEF Urls
    <3>2. PICK e \in c : w = Wrap(e)  BY <2>1, <3>1
    <3>3. e # Hook  BY <3>1, <3>2, HookWrap, HookIs
    <3>4. Wrap(e).kind = e.kind  BY <3>3, WrapIs
    <3>5. e \in Urls(c)  BY <2>5, <3>1, <3>2, <3>4 DEF Urls
    <3>6. QED  BY <3>2, <3>3, <3>5, WrapIs
  <2>7. QED  BY <2>2, <2>4, <2>6
<1>3. QED  BY <1>1, <1>2

LEMMA EditedIs ==
  ASSUME NEW c \in SUBSET Written, NEW e \in Declared, NEW adds \in BOOLEAN
  PROVE  /\ Edited(c, e, adds) \in SUBSET Written
         /\ Own(Edited(c, e, adds)) = Edited(Own(c), e, adds)
         /\ Redirected(Edited(c, e, adds)) \subseteq Redirected(c)
<1> DEFINE more == IF adds THEN {e} ELSE {}
           rest == {x \in c : x.name # e.name}
<1>1. /\ e \in Written /\ e # Hook /\ Plain(e) = e /\ e.via = FALSE  BY DeclaredIs
<1>2. Edited(c, e, adds) = rest \cup more  BY DEF Edited
<1>3. rest \cup more \in SUBSET Written  BY <1>1
<1>4. {Plain(x) : x \in (rest \cup more) \ {Hook}} = {Plain(x) : x \in rest \ {Hook}} \cup more
  BY <1>1
<1>5. {Plain(x) : x \in rest \ {Hook}} = {y \in {Plain(x) : x \in c \ {Hook}} : y.name # e.name}
  <2>1. ASSUME NEW x \in c \ {Hook}  PROVE Plain(x).name = x.name  BY <2>1, WrittenIs
  <2>2. QED  BY <2>1
<1>6. Own(Edited(c, e, adds)) = {Plain(x) : x \in (rest \cup more) \ {Hook}}
  BY <1>2, <1>3, LegibleIs
<1>7. Own(c) = {Plain(x) : x \in c \ {Hook}}  BY LegibleIs
<1>8. Own(Edited(c, e, adds)) = Edited(Own(c), e, adds)
  BY <1>4, <1>5, <1>6, <1>7 DEF Edited
<1>9. Legible(c) /\ Legible(Edited(c, e, adds))  BY <1>2, <1>3, LegibleIs
<1>10. Redirected(Edited(c, e, adds)) \subseteq Redirected(c)
  BY <1>1, <1>2, <1>9 DEF Redirected, Urls
<1>11. QED  BY <1>2, <1>3, <1>8, <1>10

-----------------------------------------------------------------------------
(* One file is next.                                                        *)
LEMMA NextIsOne ==
  ASSUME NEW f, NEW g, IsNext(f), IsNext(g)
  PROVE  f = g
<1> DEFINE order == IF cli.does = "init" THEN Discovered ELSE PathOrder
<1>1. order \in Seq(Files) /\ IsInjective(order)  OBVIOUS
<1> HIDE DEF order
<1>2. Precedes(order, f, g) /\ Precedes(order, g, f)  BY DEF IsNext, order
<1>3. PICK i \in DOMAIN order, j \in DOMAIN order : i <= j /\ order[i] = f /\ order[j] = g
  BY <1>2 DEF Precedes
<1>4. PICK k \in DOMAIN order, l \in DOMAIN order : k <= l /\ order[k] = g /\ order[l] = f
  BY <1>2 DEF Precedes
<1>5. k = j /\ l = i  BY <1>1, <1>3, <1>4 DEF IsInjective
<1>6. DOMAIN order = 1..Len(order) /\ Len(order) \in Nat  BY <1>1
<1>7. i = j  BY <1>3, <1>4, <1>5, <1>6
<1>8. QED  BY <1>3, <1>7

(* A backup that is added is the last; one of the same second takes the     *)
(* place of the last.                                                       *)
LEMMA AddedIs ==
  ASSUME backups \in [Files -> Seq(Contents)], NEW f \in Files, NEW c \in Contents,
         NEW sameSecond \in BOOLEAN, sameSecond => backups[f] # <<>>,
         backups' = [backups EXCEPT ![f] = Append(IF sameSecond THEN Front(@) ELSE @, c)]
  PROVE  /\ backups' \in [Files -> Seq(Contents)]
         /\ \A g \in Files : g # f => backups'[g] = backups[g]
         /\ backups'[f] # <<>> /\ Last(backups'[f]) = c
         /\ ToSet(backups'[f]) \subseteq ToSet(backups[f]) \cup {c}
         /\ ~sameSecond => ToSet(backups'[f]) = ToSet(backups[f]) \cup {c}
         /\ sameSecond => Len(backups'[f]) = Len(backups[f])
<1> DEFINE s == backups[f]
           kept_ == IF sameSecond THEN Front(s) ELSE s
           t == Append(kept_, c)
<1>1. s \in Seq(Contents)  OBVIOUS
<1>2. sameSecond => s # <<>>  OBVIOUS
<1>3. backups' = [backups EXCEPT ![f] = t]  OBVIOUS
<1>4. kept_ \in Seq(Contents) /\ ToSet(kept_) \subseteq ToSet(s)
      /\ (~sameSecond => kept_ = s) /\ (sameSecond => Len(kept_) = Len(s) - 1)
  <2>1. CASE ~sameSecond  BY <1>1, <2>1
  <2>2. CASE sameSecond
    <3>1. s # <<>> /\ Len(s) \in Nat /\ Len(s) >= 1  BY <1>1, <1>2, <2>2, EmptySeq
    <3> HIDE DEF s
    <3>2. Front(s) = SubSeq(s, 1, Len(s) - 1)  BY DEF Front
    <3>3. /\ SubSeq(s, 1, Len(s) - 1) \in Seq(Contents)
          /\ Len(SubSeq(s, 1, Len(s) - 1)) = Len(s) - 1
          /\ \A i \in 1..(Len(s) - 1) : SubSeq(s, 1, Len(s) - 1)[i] = s[i]
      <4>1. \A i \in 1..(Len(s) - 1) : s[i] \in Contents  BY <1>1, <3>1 DEF s
      <4> DEFINE n == Len(s) - 1
      <4>n. n \in Nat  BY <3>1
      <4> HIDE DEF n
      <4>2. n \in Int /\ n - 1 + 1 = n /\ (IF 1 <= n THEN n - 1 + 1 ELSE 0) = n
            /\ \A i \in 1..n : 1 + i - 1 = i
        BY <4>n
      <4>3. /\ SubSeq(s, 1, n) \in Seq(Contents)
            /\ Len(SubSeq(s, 1, n)) = IF 1 <= n THEN n - 1 + 1 ELSE 0
            /\ \A i \in 1..(n - 1 + 1) : SubSeq(s, 1, n)[i] = s[1 + i - 1]
        BY <4>1, <4>2, SubSeqProperties DEF n
      <4>4. QED  BY <4>2, <4>3 DEF n
    <3>4. ToSet(SubSeq(s, 1, Len(s) - 1)) \subseteq ToSet(s)
      <4> DEFINE r == SubSeq(s, 1, Len(s) - 1)
      <4> HIDE DEF r
      <4>1. DOMAIN r = 1..(Len(s) - 1) /\ DOMAIN s = 1..Len(s)  BY <1>1, <3>3 DEF r, s
      <4>2. 1..(Len(s) - 1) \subseteq 1..Len(s)  BY <3>1
      <4>3. \A i \in DOMAIN r : i \in DOMAIN s /\ r[i] = s[i]
        BY <3>3, <4>1, <4>2 DEF r
      <4>4. ToSet(r) \subseteq ToSet(s)  BY <4>3 DEF ToSet
      <4>5. QED  BY <4>4 DEF r
    <3>5. QED  BY <2>2, <3>2, <3>3, <3>4 DEF s
  <2>3. QED  BY <2>1, <2>2
<1> HIDE DEF s, kept_
<1>5. /\ t \in Seq(Contents) /\ Len(t) = Len(kept_) + 1 /\ t[Len(kept_) + 1] = c
      /\ \A i \in 1..Len(kept_) : t[i] = kept_[i]
  BY <1>4, AppendProperties
<1>6. Len(kept_) \in Nat /\ DOMAIN kept_ = 1..Len(kept_)  BY <1>4
<1> HIDE DEF t
<1>7. DOMAIN t = 1..(Len(kept_) + 1)  BY <1>5
<1>8. ToSet(t) = ToSet(kept_) \cup {c}
  <2>1. ASSUME NEW x \in ToSet(t)  PROVE x \in ToSet(kept_) \cup {c}
    <3>1. PICK i \in 1..(Len(kept_) + 1) : x = t[i]  BY <1>7 DEF ToSet
    <3>2. CASE i = Len(kept_) + 1  BY <1>5, <3>1, <3>2
    <3>3. CASE i \in 1..Len(kept_)  BY <1>5, <1>6, <3>1, <3>3 DEF ToSet
    <3>4. QED  BY <1>6, <3>2, <3>3
  <2>2. ASSUME NEW x \in ToSet(kept_)  PROVE x \in ToSet(t)
    <3>1. PICK i \in 1..Len(kept_) : x = kept_[i]  BY <1>6 DEF ToSet
    <3>2. i \in 1..(Len(kept_) + 1)  BY <1>6
    <3>3. QED  BY <1>5, <1>7, <3>1, <3>2 DEF ToSet
  <2>3. c \in ToSet(t)
    <3>1. Len(kept_) + 1 \in 1..(Len(kept_) + 1)  BY <1>6
    <3>2. QED  BY <1>5, <1>7, <3>1 DEF ToSet
  <2>4. QED  BY <2>1, <2>2, <2>3
<1>9. t # <<>> /\ Last(t) = c
  <2>1. Len(t) # 0  BY <1>5, <1>6
  <2>2. t # <<>>  BY <2>1
  <2>3. QED  BY <1>5, <2>2 DEF Last
<1>10. backups'[f] = t /\ \A g \in Files : g # f => backups'[g] = backups[g]
  BY <1>3
<1>11. backups' \in [Files -> Seq(Contents)]  BY <1>3, <1>5
<1>12. sameSecond => Len(t) = Len(s)
  <2>1. Len(s) \in Nat  BY <1>1
  <2>2. QED  BY <1>4, <1>5, <2>1
<1>c. QED  BY <1>4, <1>8, <1>9, <1>10, <1>11, <1>12 DEF s

LEMMA InBackups ==
  ASSUME backups \in [Files -> Seq(Contents)], NEW f \in Files
  PROVE  /\ ToSet(backups[f]) \subseteq Contents
         /\ backups[f] # <<>> => Last(backups[f]) \in ToSet(backups[f])
<1>1. backups[f] \in Seq(Contents)  OBVIOUS
<1> DEFINE s == backups[f]
<1> HIDE DEF s
<1>2. s \in Seq(Contents)  BY <1>1 DEF s
<1>3. ToSet(s) \subseteq Contents  BY <1>2 DEF ToSet
<1>4. ASSUME s # <<>>  PROVE Last(s) \in ToSet(s)
  <2>1. Len(s) \in DOMAIN s  BY <1>2, <1>4, EmptySeq
  <2>2. QED  BY <2>1 DEF Last, ToSet
<1>5. QED  BY <1>3, <1>4 DEF s

(* The command.                                                             *)
LEMMA IdleIs ==
  /\ Idle.does = "nothing" /\ Idle.plans = NoPlans /\ ~Idle.saved /\ ~Idle.routed
  /\ Idle.table = NoTable /\ NoTable \in Tables
  /\ DOMAIN NoPlans = {}
BY DEF Idle, NoPlans, NoTable, Tables

LEMMA LeftIs ==
  ASSUME NEW f
  PROVE  /\ DOMAIN PlansLeft(f) = DOMAIN cli.plans \ {f}
         /\ \A g \in DOMAIN PlansLeft(f) : PlansLeft(f)[g] = cli.plans[g]
BY DEF PlansLeft, Restrict

LEMMA CliMoves ==
  ASSUME CliTypes, NEW p, NEW b \in BOOLEAN
  PROVE  /\ LET c == [cli EXCEPT !.plans = p, !.saved = b]
            IN c.does = cli.does /\ c.plans = p /\ c.saved = b /\ c.routed = cli.routed
               /\ c.table = cli.table
               /\ c \in [does : {"nothing", "init", "restore"}, plans : {c.plans},
                         saved : BOOLEAN, routed : BOOLEAN, table : Tables]
         /\ LET c == [cli EXCEPT !.saved = b]
            IN c.does = cli.does /\ c.plans = cli.plans /\ c.saved = b
               /\ c.routed = cli.routed /\ c.table = cli.table
               /\ c \in [does : {"nothing", "init", "restore"}, plans : {c.plans},
                         saved : BOOLEAN, routed : BOOLEAN, table : Tables]
         /\ LET c == [cli EXCEPT !.plans = p]
            IN c.does = cli.does /\ c.plans = p /\ c.saved = cli.saved
               /\ c.routed = cli.routed /\ c.table = cli.table
               /\ c \in [does : {"nothing", "init", "restore"}, plans : {c.plans},
                         saved : BOOLEAN, routed : BOOLEAN, table : Tables]
BY DEF CliTypes

-----------------------------------------------------------------------------
(* What a step does to one file.                                            *)
FileTypes(f) ==
  /\ config[f] \in Contents /\ backups[f] \in Seq(Contents)
  /\ theirs[f] \in SUBSET Declared /\ kept[f] \in {"new", "planned", "saved"}
  /\ spoilt[f] \in SUBSET {"edited", "same second", "backup cut", "backup not theirs"}

LEMMA TypesOf ==
  ASSUME SetupTypes, NEW f \in Files
  PROVE  FileTypes(f)
BY DEF SetupTypes, FileTypes

(* A file and a history that no step has touched.                           *)
LEMMA StillSafe ==
  ASSUME NEW f \in Files, Clean(f) => Safe(f),
         UNCHANGED <<config[f], backups[f], theirs[f], spoilt[f]>>,
         kept'[f] = "saved" => kept[f] = "saved"
  PROVE  (Clean(f) => Safe(f))'
BY DEF Clean, Safe, Backed

LEMMA StillUndoable ==
  ASSUME NEW f \in Files, spoilt[f] = {} => Undoable(f),
         UNCHANGED <<config[f], backups[f], theirs[f], spoilt[f]>>,
         kept'[f] = "saved" <=> kept[f] = "saved"
  PROVE  (spoilt[f] = {} => Undoable(f))'
BY DEF Undoable

(* A url that leads to the proxy has a route, whoever it came from: the     *)
(* routes, and what is known of them, have not changed.                     *)
LEMMA StillRouted ==
  ASSUME Routes, cli.does # "init", cli'.does # "init",
         UNCHANGED <<routes, lost>>, shared' = shared \cup Contested',
         \A e \in Leading' : \E x \in Leading : x.name = e.name /\ x.target = e.target
  PROVE  Routes'
<1>1. Contested' \subseteq shared' /\ shared \subseteq shared'  OBVIOUS
<1>2. ASSUME routes # Torn, NEW e \in Leading', e.name \notin lost \cup shared'
      PROVE  routes[e.name] = e.target
  <2>1. PICK x \in Leading : x.name = e.name /\ x.target = e.target  OBVIOUS
  <2>2. x.name \notin lost \cup shared  BY <1>1, <1>2, <2>1
  <2>3. QED  BY <1>2, <2>1, <2>2 DEF Routes
<1>3. QED  BY <1>1, <1>2 DEF Routes

LEMMA StillPlanned ==
  ASSUME Routes, cli.does = "init", cli'.does = "init",
         cli'.table = cli.table, cli'.routed = cli.routed,
         UNCHANGED <<routes, lost>>, shared' = shared \cup Contested',
         \A e \in Leading' \cup Planned' :
            \E x \in Leading \cup Planned : x.name = e.name /\ x.target = e.target
  PROVE  Routes'
<1>1. Contested' \subseteq shared' /\ shared \subseteq shared'  OBVIOUS
<1>2. ASSUME NEW e \in Leading' \cup Planned', e.name \notin shared',
             e.name \notin lost \/ cli.table[e.name] # routes[e.name]
      PROVE  cli.table[e.name] = e.target
  <2>1. PICK x \in Leading \cup Planned : x.name = e.name /\ x.target = e.target  OBVIOUS
  <2>2. x.name \notin shared  BY <1>1, <1>2, <2>1
  <2>3. QED  BY <1>2, <2>1, <2>2 DEF Routes
<1>3. routes # Torn /\ (~cli.routed => cli.table = routes)  BY DEF Routes
<1>4. QED  BY <1>1, <1>2, <1>3 DEF Routes

(* The run is over, its table written, or its routes lost.                  *)
LEMMA RunIsOver ==
  ASSUME Routes, cli.does = "init", cli' = Idle, shared' = shared \cup Contested',
         \A e \in Leading' : /\ \E x \in Leading \cup Planned : x.name = e.name /\ x.target = e.target
                             /\ e.name \in Names,
         \/ routes' = Torn
         \/ routes' = cli.table /\ lost' = {n \in lost : cli.table[n] = routes[n]}
         \/ routes' = routes /\ lost' = lost \cup {n \in Names : cli.table[n] # routes[n]}
         \/ routes' = routes /\ lost' = lost /\ cli.table = routes
  PROVE  Routes'
<1>1. Contested' \subseteq shared' /\ shared \subseteq shared'  OBVIOUS
<1>2. cli'.does = "nothing"  BY IdleIs
<1>3. ASSUME routes' # Torn, NEW e \in Leading', e.name \notin lost' \cup shared'
      PROVE  routes'[e.name] = e.target
  <2>1. PICK x \in Leading \cup Planned : x.name = e.name /\ x.target = e.target  OBVIOUS
  <2>2. x.name \notin shared  BY <1>1, <1>3, <2>1
  <2>3. x.name \notin lost \/ cli.table[x.name] # routes[x.name] => cli.table[x.name] = x.target
    BY <2>2 DEF Routes
  <2>4. e.name \in Names  OBVIOUS
  <2>5. QED  BY <1>3, <2>1, <2>3, <2>4
<1>4. QED  BY <1>1, <1>2, <1>3 DEF Routes

(* Where the urls that lead to the proxy are.                               *)
LEMMA LeadingIs ==
  ASSUME NEW e
  PROVE  e \in Leading <=>
           \/ \E f \in Files : e \in Redirected(config[f])
           \/ \E f \in Files : \E c \in ToSet(backups[f]) : e \in Redirected(c)
<1>1. e \in UNION {Redirected(config[f]) : f \in Files}
      <=> \E f \in Files : e \in Redirected(config[f])
  OBVIOUS
<1>2. ASSUME NEW c
      PROVE  c \in UNION {ToSet(backups[f]) : f \in Files}
             <=> \E f \in Files : c \in ToSet(backups[f])
  OBVIOUS
<1>3. e \in UNION {Redirected(c) : c \in UNION {ToSet(backups[f]) : f \in Files}}
      <=> \E c \in UNION {ToSet(backups[f]) : f \in Files} : e \in Redirected(c)
  OBVIOUS
<1>4. QED  BY <1>1, <1>2, <1>3 DEF Leading

LEMMA LeadingWillBe ==
  ASSUME NEW e
  PROVE  e \in Leading' <=>
           \/ \E f \in Files : e \in Redirected(config'[f])
           \/ \E f \in Files : \E c \in ToSet(backups'[f]) : e \in Redirected(c)
<1>1. e \in UNION {Redirected(config'[f]) : f \in Files}
      <=> \E f \in Files : e \in Redirected(config'[f])
  OBVIOUS
<1>2. ASSUME NEW c
      PROVE  c \in UNION {ToSet(backups'[f]) : f \in Files}
             <=> \E f \in Files : c \in ToSet(backups'[f])
  OBVIOUS
<1>3. e \in UNION {Redirected(c) : c \in UNION {ToSet(backups'[f]) : f \in Files}}
      <=> \E c \in UNION {ToSet(backups'[f]) : f \in Files} : e \in Redirected(c)
  OBVIOUS
<1>4. QED  BY <1>1, <1>2, <1>3 DEF Leading

LEMMA PlannedIs ==
  /\ \A e : e \in Planned <=> \E f \in DOMAIN cli.plans : e \in Urls(cli.plans[f])
  /\ \A e : e \in Planned' <=> \E f \in DOMAIN cli'.plans : e \in Urls(cli'.plans[f])
BY DEF Planned

LEMMA UrlsAreNamed ==
  ASSUME NEW c \in Contents, NEW e \in Urls(c)
  PROVE  e.name \in Names /\ (e.via => e \in Redirected(c))
<1>1. Legible(c) /\ e \in c /\ e.kind = "http"  BY DEF Urls
<1>2. e \in Written \ {Hook}  BY <1>1, HookIs, LegibleIs
<1>3. Plain(e) \in Declarable /\ Plain(e).name = e.name  BY <1>2, WrittenIs, DeclaredIs
<1>4. Plain(e).name \in Names  BY <1>3 DEF Declarable
<1>5. QED  BY <1>3, <1>4 DEF Redirected

LEMMA LeadingAreNamed ==
  ASSUME SetupTypes', NEW e \in Leading'
  PROVE  e.name \in Names
<1>1. CASE \E f \in Files : e \in Redirected(config'[f])
  <2>1. PICK f \in Files : e \in Redirected(config'[f])  BY <1>1
  <2>2. config'[f] \in Contents  BY DEF SetupTypes
  <2>3. e \in Urls(config'[f])  BY <2>1 DEF Redirected
  <2>4. QED  BY <2>2, <2>3, UrlsAreNamed
<1>2. CASE \E f \in Files : \E c \in ToSet(backups'[f]) : e \in Redirected(c)
  <2>1. PICK f \in Files : \E c \in ToSet(backups'[f]) : e \in Redirected(c)  BY <1>2
  <2>2. PICK c \in ToSet(backups'[f]) : e \in Redirected(c)  BY <2>1
  <2>3. backups'[f] \in Seq(Contents)  BY DEF SetupTypes
  <2>4. c \in Contents  BY <2>2, <2>3 DEF ToSet
  <2>5. e \in Urls(c)  BY <2>2 DEF Redirected
  <2>6. QED  BY <2>4, <2>5, UrlsAreNamed
<1>3. QED  BY <1>1, <1>2, LeadingWillBe

(* A step that touches one file at most.                                    *)
LEMMA OneFile ==
  ASSUME NEW f \in Files, Nowhere, Undo,
         \A g \in Files \ {f} :
            /\ config'[g] = config[g] /\ backups'[g] = backups[g]
            /\ theirs'[g] = theirs[g] /\ spoilt'[g] = spoilt[g]
            /\ kept'[g] = "saved" <=> kept[g] = "saved",
         (Clean(f) => Safe(f))', (spoilt[f] = {} => Undoable(f))'
  PROVE  Nowhere' /\ Undo'
<1>1. ASSUME NEW g \in Files \ {f}
      PROVE  (Clean(g) => Safe(g))' /\ (spoilt[g] = {} => Undoable(g))'
  <2>1. Clean(g) => Safe(g)  BY DEF Nowhere
  <2>2. spoilt[g] = {} => Undoable(g)  BY DEF Undo
  <2>3. QED  BY <2>1, <2>2, StillSafe, StillUndoable
<1>2. QED  BY <1>1 DEF Nowhere, Undo

LEMMA NoFileTouched ==
  ASSUME Nowhere, Undo, UNCHANGED <<config, backups, theirs, spoilt>>,
         \A g \in Files : kept'[g] = "saved" <=> kept[g] = "saved"
  PROVE  Nowhere' /\ Undo'
<1>1. ASSUME NEW g \in Files
      PROVE  (Clean(g) => Safe(g))' /\ (spoilt[g] = {} => Undoable(g))'
  <2>1. Clean(g) => Safe(g)  BY DEF Nowhere
  <2>2. spoilt[g] = {} => Undoable(g)  BY DEF Undo
  <2>3. QED  BY <2>1, <2>2, StillSafe, StillUndoable
<1>2. QED  BY <1>1 DEF Nowhere, Undo

-----------------------------------------------------------------------------
LEMMA SharedIs ==
  ASSUME shared \subseteq Names, shared' = shared \cup Contested'
  PROVE  shared' \subseteq Names /\ Contested' \subseteq shared'
BY DEF Contested

LEMMA InitSetup == SetupInit => SetupInv
<1> SUFFICES ASSUME SetupInit PROVE SetupInv
  OBVIOUS
<1>1. \A f \in Files : config[f] = NoFile /\ backups[f] = <<>> /\ theirs[f] = {}
                       /\ kept[f] = "new" /\ spoilt[f] = {}
  BY DEF SetupInit
<1>2. NoFile \in Contents /\ NoTable \in Tables  BY DEF Contents, NoTable, Tables
<1>3. SetupTypes
  <2>1. <<>> \in Seq(Contents)  OBVIOUS
  <2>2. QED  BY <1>2, <2>1 DEF SetupInit, SetupTypes
<1>4. cli = Idle  BY DEF SetupInit
<1>5. CliTypes
  <2>1. Idle \in [does : {"nothing", "init", "restore"}, plans : {Idle.plans},
                  saved : BOOLEAN, routed : BOOLEAN, table : Tables]
    BY <1>2 DEF Idle
  <2>2. QED  BY <1>4, <2>1, IdleIs DEF CliTypes
<1>6. Planning  BY <1>1, <1>4, IdleIs DEF Planning
<1>7. \A f \in Files : Own(config[f]) = {}  BY <1>1, LegibleIs
<1>8. Nowhere  BY <1>1 DEF Nowhere, Safe
<1>9. Undo  BY <1>1, <1>7 DEF Undo, Undoable
<1>10. \A f \in Files : Urls(config[f]) = {} /\ Redirected(config[f]) = {}
                       /\ ToSet(backups[f]) = {}
  BY <1>1, LegibleIs DEF ToSet
<1>11. Known = {}
  <2>1. UNION {Urls(config[f]) : f \in Files} = {}  BY <1>10
  <2>2. UNION {ToSet(backups[f]) : f \in Files} = {}  BY <1>10
  <2>3. QED  BY <2>1, <2>2 DEF Known
<1>12. Contested = {}  BY <1>11 DEF Contested
<1>c. \A e : e \notin Leading  BY <1>10, LeadingIs
<1>14. cli.does = "nothing"  BY <1>4, IdleIs
<1>15. Routes  BY <1>12, <1>c, <1>14 DEF Routes
<1>16. QED  BY <1>3, <1>5, <1>6, <1>8, <1>9, <1>15 DEF SetupInv

(* A command that is over, or has not begun.                                *)
LEMMA IsIdle ==
  ASSUME cli' = Idle
  PROVE  CliTypes' /\ cli'.does = "nothing"
<1>1. Idle \in [does : {"nothing", "init", "restore"}, plans : {Idle.plans},
                saved : BOOLEAN, routed : BOOLEAN, table : Tables]
  BY IdleIs DEF Idle
<1>2. QED  BY <1>1, IdleIs DEF CliTypes

LEMMA BeforeIs ==
  ASSUME SetupTypes, NEW f \in Files
  PROVE  /\ Before(f) \in Contents
         /\ Legible(Before(f)) => Before(f) \in SUBSET Written
         /\ \A e \in Urls(Before(f)) : e \in Urls(config[f])
         /\ Urls(Before(f)) \subseteq Known
<1>1. config[f] \in Contents  BY DEF SetupTypes
<1>2. Before(f) = config[f] \/ Before(f) = {}  BY DEF Before
<1>3. {} \in SUBSET Written  OBVIOUS
<1>4. Urls({}) = {}  BY DEF Urls
<1>5. Before(f) \in Contents  BY <1>1, <1>2, <1>3, LegibleIs
<1>6. Urls(config[f]) \subseteq Known
  <2>1. Urls(config[f]) \in {Urls(config[g]) : g \in Files}  OBVIOUS
  <2>2. QED  BY <2>1 DEF Known
<1>7. QED  BY <1>2, <1>4, <1>5, <1>6, LegibleIs

LEMMA LeadingIsKnown == Leading \subseteq Known
<1> SUFFICES ASSUME NEW e \in Leading  PROVE e \in Known
  OBVIOUS
<1>1. CASE \E f \in Files : e \in Redirected(config[f])
  <2>1. PICK f \in Files : e \in Redirected(config[f])  BY <1>1
  <2>2. e \in Urls(config[f])  BY <2>1 DEF Redirected
  <2>3. Urls(config[f]) \in {Urls(config[g]) : g \in Files}  OBVIOUS
  <2>4. QED  BY <2>2, <2>3 DEF Known
<1>2. CASE e \notin UNION {Redirected(config[f]) : f \in Files}
  BY <1>2 DEF Leading, Known
<1>3. QED  BY <1>1, <1>2

(* What a run has read that found these files.                              *)
Begun(found, table) ==
  [does   |-> "init",
   plans  |-> [f \in found |-> Before(f)],
   saved  |-> FALSE,
   routed |-> \E f \in found, n \in Names : Replaced(f, n) # {},
   table  |-> table]
Marks(found) ==
  [f \in Files |-> IF f \in found /\ kept[f] = "new" THEN "planned" ELSE kept[f]]

LEMMA ReadsStep ==
  ASSUME SetupInv, InitReads, shared' = shared \cup Contested'
  PROVE  SetupInv'
<1> USE DEF SetupInv
<1>1. /\ cli.does = "nothing" /\ routes # Torn
      /\ UNCHANGED <<config, backups, routes, theirs, spoilt, lost>>
  BY DEF InitReads, diskVars
<1>2. PICK found : \E table \in Tables :
        /\ found \subseteq Files /\ \A f \in found : Plannable(f)
        /\ \A n \in Names : table[n] \in Routed(n, found)
        /\ cli' = Begun(found, table) /\ kept' = Marks(found)
  <2>1. PICK projects \in SUBSET ProjectFiles :
          LET found == {f \in (Files \ ProjectFiles) \cup projects : Plannable(f)}
          IN  /\ found # {}
              /\ \E table \in Tables :
                   /\ \A n \in Names : table[n] \in Routed(n, found)
                   /\ cli' = Begun(found, table)
              /\ kept' = Marks(found)
    BY DEF InitReads, Begun, Marks
  <2> DEFINE found == {f \in (Files \ ProjectFiles) \cup projects : Plannable(f)}
  <2>2. found \subseteq Files /\ \A f \in found : Plannable(f)  BY <2>1
  <2> HIDE DEF found
  <2>3. PICK table \in Tables :
          (\A n \in Names : table[n] \in Routed(n, found)) /\ cli' = Begun(found, table)
    BY <2>1 DEF found
  <2>4. kept' = Marks(found)  BY <2>1 DEF found
  <2>5. QED  BY <2>2, <2>3, <2>4
<1>3. PICK table \in Tables :
        /\ found \subseteq Files /\ \A f \in found : Plannable(f)
        /\ \A n \in Names : table[n] \in Routed(n, found)
        /\ cli' = Begun(found, table) /\ kept' = Marks(found)
  BY <1>2
<1> DEFINE routing == \E f \in found, n \in Names : Replaced(f, n) # {}
           plans == [f \in found |-> Before(f)]
<1>c. /\ cli'.does = "init" /\ cli'.plans = plans /\ cli'.saved = FALSE
      /\ cli'.routed = routing /\ cli'.table = table
  BY <1>3 DEF Begun
<1>4. DOMAIN plans = found /\ \A f \in found : plans[f] = Before(f)  OBVIOUS
<1>5. \A f \in found : Before(f) \in SUBSET Written
  BY <1>3, BeforeIs DEF Plannable
<1>6. \A f \in Files : /\ kept'[f] \in {"new", "planned", "saved"}
                       /\ kept'[f] = "saved" <=> kept[f] = "saved"
                       /\ kept'[f] = "planned" => f \in found
  <2>1. ASSUME NEW f \in Files, kept[f] = "planned"  PROVE FALSE
    BY <1>1, <2>1 DEF Planning
  <2>2. QED  BY <1>3, <2>1 DEF SetupTypes, Marks
<1>7. SetupTypes'
  <2>1. kept' \in [Files -> {"new", "planned", "saved"}]
    <3>1. DOMAIN kept' = Files /\ kept' = [f \in Files |-> kept'[f]]  BY <1>3 DEF Marks
    <3>2. QED  BY <1>6, <3>1
  <2>2. QED  BY <1>1, <2>1, SharedIs DEF SetupTypes
<1>8. CliTypes'
  <2>1. routing \in BOOLEAN  OBVIOUS
  <2> HIDE DEF routing, plans
  <2>2. cli' \in [does : {"nothing", "init", "restore"}, plans : {plans},
                  saved : BOOLEAN, routed : BOOLEAN, table : Tables]
    BY <1>3, <2>1 DEF routing, plans, Begun
  <2>3. \A f \in DOMAIN plans : plans[f] \in Contents  BY <1>3, <1>4, BeforeIs
  <2>4. QED  BY <1>3, <1>c, <1>4, <2>2, <2>3 DEF CliTypes
<1> HIDE DEF plans
<1>9. Planning'
  <2>1. ASSUME NEW f \in found
        PROVE  cli'.plans[f] = IF f = HookFile /\ config'[f] \in {NoFile, Emptied} THEN {} ELSE config'[f]
    BY <1>1, <1>c, <1>4 DEF Before
  <2>2. \A f \in found : cli'.plans[f] \in SUBSET Written  BY <1>c, <1>4, <1>5
  <2>3. QED  BY <1>c, <1>4, <1>6, <2>1, <2>2 DEF Planning
<1>10. Nowhere' /\ Undo'  BY <1>1, <1>6, NoFileTouched
<1>11. Routes'
  <2>1. Contested' = Contested /\ Leading' = Leading
    BY <1>1 DEF Contested, Known, Leading
  <2>2. Contested' \subseteq shared' /\ shared \subseteq shared'
    BY SharedIs DEF SetupTypes
  <2>3. ASSUME ~routing  PROVE table = routes
    <3>1. ASSUME NEW n \in Names  PROVE table[n] = routes[n]
      <4>1. {f \in found : Replaced(f, n) # {}} = {}  BY <2>3
      <4>2. Routed(n, found) = {routes[n]}  BY <4>1 DEF Routed
      <4>3. QED  BY <1>3, <4>2
    <3>2. routes \in Tables  BY <1>1 DEF SetupTypes
    <3>3. QED  BY <1>3, <3>1, <3>2 DEF Tables
  <2>4. ASSUME NEW e \in Leading' \cup Planned', e.name \notin shared',
               e.name \notin lost \/ table[e.name] # routes[e.name]
        PROVE  table[e.name] = e.target
    <3> DEFINE n == e.name
               giving == {f \in found : Replaced(f, n) # {}}
               last == {f \in giving : \A g \in giving : Precedes(Discovered, g, f)}
    <3>1. ASSUME e \in Planned'
          PROVE  \E f \in found : e \in Urls(Before(f))
      BY <1>c, <1>4, <3>1, PlannedIs
    <3>2. e \in Known /\ n \in Names
      <4>1. CASE e \in Leading'
        <5>1. SetupTypes'  BY <1>7
        <5>2. n \in Names  BY <4>1, <5>1, LeadingAreNamed
        <5>3. QED  BY <2>1, <4>1, <5>2, LeadingIsKnown
      <4>2. CASE e \in Planned'
        <5>1. PICK f \in found : e \in Urls(Before(f))  BY <3>1, <4>2
        <5>2. e \in Known  BY <1>3, <5>1, BeforeIs
        <5>3. n \in Names  BY <1>3, <5>1, BeforeIs, UrlsAreNamed
        <5>4. QED  BY <5>2, <5>3
      <4>3. QED  BY <4>1, <4>2
    <3>3. n \notin Contested  BY <2>1, <2>2, <2>4
    <3>4. \A x \in Known : x.name = n => x.target = e.target
      BY <3>2, <3>3 DEF Contested
    <3>5. CASE giving = {}
      <4>1. Routed(n, found) = {routes[n]}  BY <3>5 DEF Routed
      <4>2. table[n] = routes[n]  BY <1>3, <3>2, <4>1
      <4>3. n \notin lost \cup shared  BY <2>2, <2>4, <4>2
      <4>4. ASSUME e \in Planned', ~e.via  PROVE FALSE
        <5>1. PICK f \in found : e \in Urls(Before(f))  BY <3>1, <4>4
        <5>2. e \in Before(f) /\ e.kind = "http"  BY <5>1 DEF Urls
        <5>3. e \in Replaced(f, n)  BY <4>4, <5>2 DEF Replaced
        <5>4. QED  BY <3>5, <5>3
      <4>5. ASSUME e \in Planned', e.via  PROVE e \in Leading
        <5>1. PICK f \in found : e \in Urls(Before(f))  BY <3>1, <4>5
        <5>2. f \in Files /\ e \in Urls(config[f])  BY <1>3, <5>1, BeforeIs
        <5>3. e \in Redirected(config[f])  BY <4>5, <5>2 DEF Redirected
        <5>4. QED  BY <5>2, <5>3, LeadingIs
      <4>6. e \in Leading  BY <2>1, <4>4, <4>5
      <4>7. routes[n] = e.target  BY <1>1, <4>3, <4>6 DEF Routes
      <4>8. QED  BY <4>2, <4>7
    <3>6. CASE giving # {}
      <4>1. Routed(n, found) = {x.target : x \in UNION {Replaced(f, n) : f \in last}}
        BY <3>6 DEF Routed
      <4>2. PICK x \in UNION {Replaced(f, n) : f \in last} : table[n] = x.target
        BY <1>3, <3>2, <4>1
      <4>3. PICK f \in found : x \in Replaced(f, n)  BY <4>2
      <4>4. x \in Before(f) /\ x.kind = "http" /\ x.name = n  BY <4>3 DEF Replaced
      <4>5. x \in Urls(Before(f))  BY <1>3, <4>3, <4>4 DEF Urls, Plannable
      <4>6. x \in Known  BY <1>3, <4>3, <4>5, BeforeIs
      <4>7. QED  BY <3>4, <4>2, <4>4, <4>6
    <3>7. QED  BY <3>5, <3>6
  <2>5. cli'.does = "init" /\ cli'.table = table /\ cli'.routed = routing  BY <1>c
  <2> HIDE DEF routing
  <2>6. QED  BY <1>1, <2>2, <2>3, <2>4, <2>5 DEF Routes
<1>12. QED  BY <1>7, <1>8, <1>9, <1>10, <1>11

(* A file that is next in a run, and what the run has read of it.           *)
LEMMA NextIs ==
  ASSUME SetupTypes, CliTypes, Planning, NEW f \in Files, IsNext(f), cli.does = "init"
  PROVE  /\ f \in DOMAIN cli.plans /\ cli.plans[f] \in SUBSET Written
         /\ kept[f] # "new" =>
              /\ Own(cli.plans[f]) = Own(config[f])
              /\ config[f] \notin {Torn, Emptied} \/ config[f] = Emptied
         /\ cli.saved => kept[f] # "planned"
<1>1. f \in DOMAIN cli.plans  BY DEF IsNext
<1>2. cli.plans[f] \in SUBSET Written  BY <1>1 DEF Planning
<1>3. ASSUME kept[f] # "new"
      PROVE  /\ Own(cli.plans[f]) = Own(config[f])
             /\ config[f] \notin {Torn, Emptied} \/ config[f] = Emptied
  <2>1. cli.plans[f] = IF f = HookFile /\ config[f] \in {NoFile, Emptied} THEN {} ELSE config[f]
    BY <1>1, <1>3 DEF Planning
  <2>2. CASE f = HookFile /\ config[f] \in {NoFile, Emptied}
    <3>1. cli.plans[f] = {}  BY <2>1, <2>2
    <3>2. Own(config[f]) = {} /\ Own({}) = {}  BY <2>2, LegibleIs
    <3>3. QED  BY <2>2, <3>1, <3>2
  <2>3. CASE ~(f = HookFile /\ config[f] \in {NoFile, Emptied})
    <3>1. cli.plans[f] = config[f]  BY <2>1, <2>3
    <3>2. config[f] \notin {Torn, Emptied}  BY <1>2, <3>1
    <3>3. QED  BY <3>1, <3>2
  <2>4. QED  BY <2>2, <2>3
<1>4. QED  BY <1>1, <1>2, <1>3 DEF Planning

LEMMA BackUpStep ==
  ASSUME SetupInv, BackUp, shared' = shared \cup Contested'
  PROVE  SetupInv'
<1> USE DEF SetupInv
<1>1. /\ cli.does = "init" /\ ~cli.saved /\ cli' = [cli EXCEPT !.saved = TRUE]
      /\ UNCHANGED <<config, routes, theirs, lost>>
  BY DEF BackUp
<1>2. PICK f \in Files, b \in BOOLEAN :
        /\ IsNext(f) /\ MayAdd(f, b) /\ Added(f, cli.plans[f], b)
        /\ kept' = [kept EXCEPT ![f] = IF @ = "planned" THEN "saved" ELSE @]
        /\ spoilt' = [spoilt EXCEPT ![f] = @ \cup Faults(f, b)]
  BY DEF BackUp
<1>4. /\ cli'.does = "init" /\ cli'.plans = cli.plans /\ cli'.saved = TRUE
      /\ cli'.routed = cli.routed /\ cli'.table = cli.table
      /\ cli' \in [does : {"nothing", "init", "restore"}, plans : {cli'.plans},
                   saved : BOOLEAN, routed : BOOLEAN, table : Tables]
  BY <1>1, CliMoves
<1>a. PICK plan : plan = cli.plans[f]  OBVIOUS
<1>5. f \in DOMAIN cli.plans /\ plan \in SUBSET Written  BY <1>1, <1>2, <1>a, NextIs
<1>6. plan \in Contents  BY <1>5, LegibleIs
<1>7. /\ backups' \in [Files -> Seq(Contents)]
      /\ \A g \in Files : g # f => backups'[g] = backups[g]
      /\ backups'[f] # <<>> /\ Last(backups'[f]) = plan
      /\ ToSet(backups'[f]) \subseteq ToSet(backups[f]) \cup {plan}
      /\ ~b => ToSet(backups'[f]) = ToSet(backups[f]) \cup {plan}
  <2>1. backups \in [Files -> Seq(Contents)]  BY DEF SetupTypes
  <2>2. backups' = [backups EXCEPT ![f] = Append(IF b THEN Front(@) ELSE @, plan)]
    BY <1>2, <1>a DEF Added
  <2>3. b => backups[f] # <<>>  BY <1>2 DEF MayAdd
  <2>4. QED  BY <1>6, <2>1, <2>2, <2>3, AddedIs
<1>8. /\ \A g \in Files : g # f => kept'[g] = kept[g] /\ spoilt'[g] = spoilt[g]
      /\ kept'[f] = IF kept[f] = "planned" THEN "saved" ELSE kept[f]
      /\ spoilt[f] \subseteq spoilt'[f]
      /\ b => "same second" \in spoilt'[f]
      /\ (\E e \in plan : e.via) \/ config[f] = Emptied => "backup not theirs" \in spoilt'[f]
  BY <1>2, <1>a DEF SetupTypes, Faults
<1>9. FileTypes(f)  BY TypesOf
<1>10. SetupTypes'
  <2>1. kept' \in [Files -> {"new", "planned", "saved"}]
    BY <1>2 DEF SetupTypes
  <2>2. spoilt' \in [Files -> SUBSET {"edited", "same second", "backup cut", "backup not theirs"}]
    BY <1>2 DEF SetupTypes, Faults
  <2>3. QED  BY <1>1, <1>7, <2>1, <2>2, SharedIs DEF SetupTypes
<1>11. CliTypes'  BY <1>4 DEF CliTypes
<1>12. \A g : IsNext(g)' <=> IsNext(g)  BY <1>1, <1>4 DEF IsNext
<1>13. Planning'
  <2>1. ASSUME NEW g \in DOMAIN cli.plans
        PROVE  /\ g \in Files /\ cli.plans[g] \in SUBSET Written
               /\ kept'[g] # "new" => kept[g] # "new"
               /\ kept[g] # "new" =>
                    cli.plans[g] = IF g = HookFile /\ config[g] \in {NoFile, Emptied} THEN {} ELSE config[g]
    BY <1>1, <1>8 DEF Planning, CliTypes
  <2>2. ASSUME NEW g \in DOMAIN cli.plans, IsNext(g)', spoilt'[g] = {}
        PROVE  config[g] # Emptied
    <3>1. g = f  BY <1>2, <1>12, <2>2, NextIsOne
    <3>2. QED  BY <1>8, <2>2, <3>1
  <2>3. ASSUME NEW g \in Files, kept'[g] = "planned"
        PROVE  g \in DOMAIN cli.plans /\ ~IsNext(g)'
    <3>1. g # f  BY <1>8, <2>3
    <3>2. kept[g] = "planned"  BY <1>8, <2>3, <3>1
    <3>3. QED  BY <1>2, <1>12, <3>1, <3>2, NextIsOne DEF Planning
  <2>4. QED  BY <1>1, <1>4, <2>1, <2>2, <2>3 DEF Planning
<1>14. (Clean(f) => Safe(f))'
  <2>1. SUFFICES ASSUME Clean(f)' PROVE Safe(f)'
    OBVIOUS
  <2>2. ~b /\ Clean(f)  BY <1>8, <2>1 DEF Clean
  <2>3. Safe(f)  BY <2>2 DEF Nowhere
  <2>4. Backed(f)' = Backed(f) \cup Own(plan)
    <3>1. ToSet(backups'[f]) = ToSet(backups[f]) \cup {plan}  BY <1>7, <2>2
    <3>2. QED  BY <3>1 DEF Backed
  <2>5. theirs[f] \subseteq Own(config[f]) \cup Backed(f)  BY <2>3 DEF Safe
  <2>6. ASSUME kept'[f] = "saved"  PROVE theirs[f] \subseteq Backed(f) \cup Own(plan)
    <3>1. CASE kept[f] = "saved"  BY <2>3, <3>1 DEF Safe
    <3>2. CASE kept[f] = "planned"
      <4>1. Own(plan) = Own(config[f])  BY <1>1, <1>2, <3>2, <1>a, NextIs
      <4>2. QED  BY <2>5, <4>1
    <3>3. QED  BY <1>8, <2>6, <3>1, <3>2
  <2>7. QED  BY <1>1, <2>4, <2>5, <2>6 DEF Safe
<1>15. (spoilt[f] = {} => Undoable(f))'
  <2>1. SUFFICES ASSUME spoilt'[f] = {} PROVE Undoable(f)'
    OBVIOUS
  <2>2. spoilt[f] = {} /\ ~(\E e \in plan : e.via) /\ config[f] # Emptied
    BY <1>8, <2>1
  <2>3. Undoable(f)  BY <2>2 DEF Undo
  <2>4. ASSUME kept'[f] = "saved"  PROVE Last(backups'[f]) = theirs[f]
    <3>1. kept[f] # "new"  BY <1>8, <2>4
    <3>2. Own(plan) = Own(config[f]) /\ config[f] \notin {Torn, Emptied}
      BY <1>1, <1>2, <2>2, <3>1, <1>a, NextIs
    <3>3. Own(config[f]) = theirs[f]  BY <2>3, <3>2 DEF Undoable
    <3>4. Own(plan) = plan
      <4>1. Hook \notin plan /\ \A e \in plan : ~e.via  BY <2>2, HookIs
      <4>2. Own(plan) = {Plain(e) : e \in plan}  BY <1>5, <4>1, LegibleIs
      <4>3. \A e \in plan : e \in Written \ {Hook}  BY <1>5, <4>1
      <4>4. \A e \in plan : Plain(e) = e  BY <4>1, <4>3, WrittenIs
      <4>5. QED  BY <4>2, <4>4
    <3>5. QED  BY <1>7, <3>2, <3>3, <3>4
  <2>5. kept[f] = "saved" => kept'[f] = "saved"  BY <1>8
  <2>6. QED  BY <1>1, <1>7, <2>3, <2>4, <2>5 DEF Undoable
<1>16. Nowhere' /\ Undo'
  <2>1. \A g \in Files \ {f} :
            /\ config'[g] = config[g] /\ backups'[g] = backups[g]
            /\ theirs'[g] = theirs[g] /\ spoilt'[g] = spoilt[g]
            /\ kept'[g] = "saved" <=> kept[g] = "saved"
    BY <1>1, <1>7, <1>8
  <2>2. QED  BY <1>14, <1>15, <2>1, OneFile
<1>17. Routes'
  <2>1. \A e : e \in Planned' <=> e \in Planned  BY <1>4, PlannedIs
  <2>2. ASSUME NEW e \in Leading'  PROVE e \in Leading \cup Planned
    <3>1. CASE \E g \in Files : e \in Redirected(config'[g])
      BY <1>1, <3>1, LeadingIs
    <3>2. CASE \E g \in Files : \E c \in ToSet(backups'[g]) : e \in Redirected(c)
      <4>1. PICK g \in Files : \E c \in ToSet(backups'[g]) : e \in Redirected(c)  BY <3>2
      <4>2. PICK c \in ToSet(backups'[g]) : e \in Redirected(c)  BY <4>1
      <4>3. CASE c \in ToSet(backups[g])  BY <4>2, <4>3, LeadingIs
      <4>4. CASE c = plan
        <5>1. e \in Urls(cli.plans[f])  BY <1>a, <4>2, <4>4 DEF Redirected
        <5>2. QED  BY <1>5, <5>1, PlannedIs
      <4>5. QED  BY <1>7, <4>2, <4>3, <4>4
    <3>3. QED  BY <3>1, <3>2, LeadingWillBe
  <2>3. \A e \in Leading' \cup Planned' :
            \E x \in Leading \cup Planned : x.name = e.name /\ x.target = e.target
    BY <2>1, <2>2
  <2>4. QED  BY <1>1, <1>4, <2>3, StillPlanned
<1>18. QED  BY <1>10, <1>11, <1>13, <1>16, <1>17

LEMMA WriteConfigStep ==
  ASSUME SetupInv, WriteConfig, shared' = shared \cup Contested'
  PROVE  SetupInv'
<1> USE DEF SetupInv
<1>1. cli.does = "init" /\ cli.saved /\ UNCHANGED <<backups, routes, theirs, kept, lost>>
  BY DEF WriteConfig
<1>2. PICK f \in Files :
        /\ IsNext(f) /\ config' = [config EXCEPT ![f] = After(f, cli.plans[f])]
        /\ spoilt' = [spoilt EXCEPT ![f] = @ \cup (IF kept[f] = "new" THEN {"edited"} ELSE {})]
        /\ cli' = Proceed(f)
  BY DEF WriteConfig
<1>3. PICK plan : plan = cli.plans[f]  OBVIOUS
<1>4. f \in DOMAIN cli.plans /\ plan \in SUBSET Written /\ kept[f] # "planned"
  BY <1>1, <1>2, <1>3, NextIs
<1>5. PICK new : new = After(f, plan)  OBVIOUS
<1>6. /\ new \in SUBSET Written /\ Own(new) = Own(plan)
      /\ \A e \in Urls(new) : \E x \in Urls(plan) : x.name = e.name /\ x.target = e.target
  BY <1>4, <1>5, AfterIs
<1>7. new \in Contents /\ new \notin {Torn, Emptied}  BY <1>6, LegibleIs
<1>8. /\ config' \in [Files -> Contents] /\ config'[f] = new
      /\ \A g \in Files : g # f => config'[g] = config[g]
  <2>1. config' = [config EXCEPT ![f] = new]  BY <1>2, <1>3, <1>5
  <2>2. QED  BY <1>7, <2>1 DEF SetupTypes
<1>9. /\ \A g \in Files : g # f => spoilt'[g] = spoilt[g]
      /\ spoilt[f] \subseteq spoilt'[f] /\ (kept[f] = "new" => "edited" \in spoilt'[f])
  BY <1>2 DEF SetupTypes
<1>10. kept[f] \in {"new", "saved"}  BY <1>4 DEF SetupTypes
<1>11. SetupTypes'
  <2>1. spoilt' \in [Files -> SUBSET {"edited", "same second", "backup cut", "backup not theirs"}]
    BY <1>2 DEF SetupTypes
  <2>2. QED  BY <1>1, <1>8, <2>1, SharedIs DEF SetupTypes
<1>12. (Clean(f) => Safe(f))'
  <2>1. SUFFICES ASSUME Clean(f)' PROVE Safe(f)'
    OBVIOUS
  <2>2. Clean(f) /\ kept[f] = "saved"  BY <1>9, <1>10, <2>1 DEF Clean
  <2>3. theirs[f] \subseteq Backed(f)  BY <2>2 DEF Nowhere, Safe
  <2>4. Backed(f)' = Backed(f) /\ theirs' = theirs  BY <1>1 DEF Backed
  <2>5. QED  BY <2>3, <2>4 DEF Safe
<1>13. (spoilt[f] = {} => Undoable(f))'
  <2>1. SUFFICES ASSUME spoilt'[f] = {} PROVE Undoable(f)'
    OBVIOUS
  <2>2. spoilt[f] = {} /\ kept[f] = "saved"  BY <1>9, <1>10, <2>1
  <2>3. Undoable(f)  BY <2>2 DEF Undo
  <2>4. config[f] # Emptied  BY <1>1, <1>2, <1>4, <2>2 DEF Planning
  <2>5. Own(plan) = Own(config[f]) /\ config[f] \notin {Torn, Emptied}
    BY <1>1, <1>2, <1>3, <2>2, <2>4, NextIs
  <2>6. Own(config[f]) = theirs[f]  BY <2>3, <2>5 DEF Undoable
  <2>7. Own(new) = theirs[f]  BY <1>6, <2>5, <2>6
  <2>8. QED  BY <1>1, <1>7, <1>8, <2>2, <2>3, <2>7 DEF Undoable
<1>14. Nowhere' /\ Undo'
  <2>1. \A g \in Files \ {f} :
            /\ config'[g] = config[g] /\ backups'[g] = backups[g]
            /\ theirs'[g] = theirs[g] /\ spoilt'[g] = spoilt[g]
            /\ kept'[g] = "saved" <=> kept[g] = "saved"
    BY <1>1, <1>8, <1>9
  <2>2. QED  BY <1>12, <1>13, <2>1, OneFile
<1>15. ASSUME NEW e \in Leading'
       PROVE  \E x \in Leading \cup Planned : x.name = e.name /\ x.target = e.target
  <2>1. CASE \E g \in Files : e \in Redirected(config'[g])
    <3>1. PICK g \in Files : e \in Redirected(config'[g])  BY <2>1
    <3>2. CASE g = f
      <4>1. e \in Urls(new)  BY <1>8, <3>1, <3>2 DEF Redirected
      <4>2. PICK x \in Urls(plan) : x.name = e.name /\ x.target = e.target  BY <1>6, <4>1
      <4>3. x \in Planned  BY <1>3, <1>4, <4>2, PlannedIs
      <4>4. QED  BY <4>2, <4>3
    <3>3. CASE g # f
      <4>1. e \in Leading  BY <1>8, <3>1, <3>3, LeadingIs
      <4>2. QED  BY <4>1
    <3>4. QED  BY <3>2, <3>3
  <2>2. CASE \E g \in Files : \E c \in ToSet(backups'[g]) : e \in Redirected(c)
    <3>1. e \in Leading  BY <1>1, <2>2, LeadingIs
    <3>2. QED  BY <3>1
  <2>3. QED  BY <2>1, <2>2, LeadingWillBe
<1>16. CASE DOMAIN cli.plans = {f} /\ ~cli.routed
  <2>1. cli' = Idle  BY <1>2, <1>16 DEF Proceed
  <2>2. CliTypes' /\ cli'.does = "nothing"  BY <2>1, IsIdle
  <2>3. Planning'
    <3>1. ASSUME NEW g \in Files, kept[g] = "planned"  PROVE FALSE
      <4>1. g \in DOMAIN cli.plans  BY <3>1 DEF Planning
      <4>2. QED  BY <1>4, <1>16, <3>1, <4>1
    <3>2. QED  BY <1>1, <2>2, <3>1 DEF Planning
  <2>4. Routes'
    <3>1. cli.table = routes  BY <1>1, <1>16 DEF Routes
    <3>2. \A e \in Leading' : e.name \in Names  BY <1>11, LeadingAreNamed
    <3>3. QED  BY <1>1, <1>15, <2>1, <3>1, <3>2, RunIsOver
  <2>5. QED  BY <1>11, <1>14, <2>2, <2>3, <2>4
<1>17. CASE ~(DOMAIN cli.plans = {f} /\ ~cli.routed)
  <2>1. cli' = [cli EXCEPT !.plans = PlansLeft(f), !.saved = FALSE]
    BY <1>2, <1>17 DEF Proceed
  <2>2. /\ cli'.does = "init" /\ cli'.plans = PlansLeft(f) /\ cli'.saved = FALSE
        /\ cli'.routed = cli.routed /\ cli'.table = cli.table
        /\ cli' \in [does : {"nothing", "init", "restore"}, plans : {cli'.plans},
                     saved : BOOLEAN, routed : BOOLEAN, table : Tables]
    BY <1>1, <2>1, CliMoves
  <2>3. /\ DOMAIN cli'.plans = DOMAIN cli.plans \ {f}
        /\ \A g \in DOMAIN cli'.plans : cli'.plans[g] = cli.plans[g]
    <3>1. /\ DOMAIN PlansLeft(f) = DOMAIN cli.plans \ {f}
          /\ \A g \in DOMAIN PlansLeft(f) : PlansLeft(f)[g] = cli.plans[g]
      BY LeftIs
    <3>2. cli'.plans = PlansLeft(f)  BY <2>2
    <3>3. QED  BY <3>1, <3>2
  <2>4. CliTypes'  BY <2>2, <2>3 DEF CliTypes
  <2>5. Planning'
    <3>1. ASSUME NEW g \in DOMAIN cli'.plans
          PROVE  /\ cli'.plans[g] \in SUBSET Written
                 /\ kept'[g] # "new" =>
                      cli'.plans[g] = IF g = HookFile /\ config'[g] \in {NoFile, Emptied} THEN {} ELSE config'[g]
      <4>1. g \in DOMAIN cli.plans /\ g # f /\ g \in Files /\ cli'.plans[g] = cli.plans[g]
        BY <2>3 DEF CliTypes
      <4>2. config'[g] = config[g] /\ kept'[g] = kept[g]  BY <1>1, <1>8, <4>1
      <4>3. QED  BY <1>1, <4>1, <4>2 DEF Planning
    <3>2. ASSUME NEW g \in Files, kept'[g] = "planned"  PROVE g \in DOMAIN cli'.plans
      BY <1>1, <1>4, <2>3, <3>2 DEF Planning
    <3>3. QED  BY <2>2, <3>1, <3>2 DEF Planning
  <2>6. Routes'
    <3>1. ASSUME NEW e \in Planned'  PROVE e \in Planned
      <4>1. PICK g \in DOMAIN cli'.plans : e \in Urls(cli'.plans[g])  BY PlannedIs
      <4>2. QED  BY <2>3, <4>1, PlannedIs
    <3>2. \A e \in Leading' \cup Planned' :
             \E x \in Leading \cup Planned : x.name = e.name /\ x.target = e.target
      BY <1>15, <3>1
    <3>3. QED  BY <1>1, <2>2, <3>2, StillPlanned
  <2>7. QED  BY <1>11, <1>14, <2>4, <2>5, <2>6
<1>18. QED  BY <1>16, <1>17

LEMMA WriteRoutesStep ==
  ASSUME SetupInv, WriteRoutes, shared' = shared \cup Contested'
  PROVE  SetupInv'
<1> USE DEF SetupInv
<1>1. /\ cli.does = "init" /\ DOMAIN cli.plans = {} /\ routes' = cli.table /\ cli' = Idle
      /\ lost' = {n \in lost : cli.table[n] = routes[n]}
      /\ UNCHANGED <<config, backups, theirs, kept, spoilt>>
  BY DEF WriteRoutes
<1>2. SetupTypes'
  <2>1. routes' \in Tables  BY <1>1 DEF CliTypes
  <2>2. QED  BY <1>1, <2>1, SharedIs DEF SetupTypes
<1>3. CliTypes' /\ cli'.does = "nothing"  BY <1>1, IsIdle
<1>4. Planning'
  <2>1. \A f \in Files : kept[f] # "planned"  BY <1>1 DEF Planning
  <2>2. QED  BY <1>1, <1>3, <2>1 DEF Planning
<1>5. Nowhere' /\ Undo'  BY <1>1, NoFileTouched
<1>6. Routes'
  <2>1. Leading' = Leading  BY <1>1 DEF Leading
  <2>2. \A e \in Leading' : e.name \in Names  BY <1>2, LeadingAreNamed
  <2>3. \A e \in Leading' :
           /\ \E x \in Leading \cup Planned : x.name = e.name /\ x.target = e.target
           /\ e.name \in Names
    BY <2>1, <2>2
  <2>4. QED  BY <1>1, <2>3, RunIsOver
<1>7. QED  BY <1>2, <1>3, <1>4, <1>5, <1>6

LEMMA RestoreReadsStep ==
  ASSUME SetupInv, RestoreReads, shared' = shared \cup Contested'
  PROVE  SetupInv'
<1> USE DEF SetupInv
<1>1. /\ cli.does = "nothing"
      /\ UNCHANGED <<config, backups, routes, theirs, kept, spoilt, lost>>
  BY DEF RestoreReads, diskVars, causeVars
<1>2. PICK found \in SUBSET Files :
        /\ \A f \in found : backups[f] # <<>>
        /\ cli' = [Idle EXCEPT !.does = "restore", !.plans = [f \in found |-> Latest(f)]]
  <2>1. PICK here \in {{}} \cup {{f} : f \in ProjectFiles} :
          LET found == {f \in (Files \ ProjectFiles) \cup here : backups[f] # <<>>}
          IN  cli' = [Idle EXCEPT !.does = "restore", !.plans = [f \in found |-> Latest(f)]]
    BY DEF RestoreReads
  <2> DEFINE found == {f \in (Files \ ProjectFiles) \cup here : backups[f] # <<>>}
  <2>2. found \in SUBSET Files /\ \A f \in found : backups[f] # <<>>  BY <2>1
  <2>3. cli' = [Idle EXCEPT !.does = "restore", !.plans = [f \in found |-> Latest(f)]]
    BY <2>1
  <2> HIDE DEF found
  <2>4. QED  BY <2>2, <2>3
<1> DEFINE plans == [f \in found |-> Latest(f)]
<1>3. DOMAIN plans = found /\ \A f \in found : plans[f] = Last(backups[f])  BY DEF Latest
<1>4. cli' = [Idle EXCEPT !.does = "restore", !.plans = plans]  BY <1>2
<1> HIDE DEF plans
<1>5. /\ cli'.does = "restore" /\ cli'.plans = plans /\ cli'.saved = FALSE
      /\ cli' \in [does : {"nothing", "init", "restore"}, plans : {plans},
                   saved : BOOLEAN, routed : BOOLEAN, table : Tables]
  BY <1>4, IdleIs DEF Idle
<1>6. \A f \in found : plans[f] \in Contents
  <2>1. backups \in [Files -> Seq(Contents)]  BY DEF SetupTypes
  <2>2. QED  BY <1>2, <1>3, <2>1, InBackups
<1>7. SetupTypes'  BY <1>1, SharedIs DEF SetupTypes
<1>8. CliTypes'  BY <1>2, <1>3, <1>5, <1>6 DEF CliTypes
<1>9. Planning'
  <2>1. \A f \in Files : kept[f] # "planned"  BY <1>1 DEF Planning
  <2>2. QED  BY <1>1, <1>2, <1>3, <1>5, <2>1 DEF Planning
<1>10. Nowhere' /\ Undo'  BY <1>1, NoFileTouched
<1>11. Routes'
  <2>1. Leading' = Leading  BY <1>1 DEF Leading
  <2>2. cli.does # "init" /\ cli'.does # "init"  BY <1>1, <1>5
  <2>3. QED  BY <1>1, <2>1, <2>2, StillRouted
<1>12. QED  BY <1>7, <1>8, <1>9, <1>10, <1>11

LEMMA RestoreFileStep ==
  ASSUME SetupInv, NEW f \in Files, RestoreFile(f), shared' = shared \cup Contested'
  PROVE  SetupInv'
<1> USE DEF SetupInv
<1>1. /\ cli.does = "restore" /\ IsNext(f) /\ config' = [config EXCEPT ![f] = cli.plans[f]]
      /\ spoilt' = [spoilt EXCEPT ![f] =
           @ \cup (IF kept[f] = "new" THEN {"edited"} ELSE {})
             \cup (IF Legible(cli.plans[f]) THEN {} ELSE {"backup cut"})]
      /\ cli' = IF DOMAIN cli.plans = {f} THEN Idle ELSE [cli EXCEPT !.plans = PlansLeft(f)]
      /\ UNCHANGED <<backups, routes, theirs, kept, lost>>
  BY DEF RestoreFile
<1>2. PICK plan : plan = cli.plans[f]  OBVIOUS
<1>3. f \in DOMAIN cli.plans /\ backups[f] # <<>> /\ plan = Last(backups[f])
  BY <1>1, <1>2 DEF IsNext, Planning
<1>4. plan \in Contents /\ plan \in ToSet(backups[f])
  <2>1. backups \in [Files -> Seq(Contents)]  BY DEF SetupTypes
  <2>2. QED  BY <1>3, <2>1, InBackups
<1>5. /\ config' \in [Files -> Contents] /\ config'[f] = plan
      /\ \A g \in Files : g # f => config'[g] = config[g]
  BY <1>1, <1>2, <1>4 DEF SetupTypes
<1>6. /\ \A g \in Files : g # f => spoilt'[g] = spoilt[g]
      /\ spoilt[f] \subseteq spoilt'[f] /\ (kept[f] = "new" => "edited" \in spoilt'[f])
      /\ ~Legible(plan) => "backup cut" \in spoilt'[f]
  BY <1>1, <1>2 DEF SetupTypes
<1>7. \A g \in Files : kept[g] # "planned"  BY <1>1 DEF Planning
<1>8. kept[f] \in {"new", "saved"}  BY <1>7 DEF SetupTypes
<1>9. SetupTypes'
  <2>1. spoilt' \in [Files -> SUBSET {"edited", "same second", "backup cut", "backup not theirs"}]
    BY <1>1 DEF SetupTypes
  <2>2. QED  BY <1>1, <1>5, <2>1, SharedIs DEF SetupTypes
<1>10. (Clean(f) => Safe(f))'
  <2>1. SUFFICES ASSUME Clean(f)' PROVE Safe(f)'
    OBVIOUS
  <2>2. Clean(f) /\ kept[f] = "saved"  BY <1>6, <1>8, <2>1 DEF Clean
  <2>3. theirs[f] \subseteq Backed(f)  BY <2>2 DEF Nowhere, Safe
  <2>4. Backed(f)' = Backed(f) /\ theirs' = theirs  BY <1>1 DEF Backed
  <2>5. QED  BY <2>3, <2>4 DEF Safe
<1>11. spoilt'[f] = {} => config'[f] = theirs[f] /\ spoilt[f] = {} /\ kept[f] = "saved"
  <2>1. SUFFICES ASSUME spoilt'[f] = {}
                 PROVE  config'[f] = theirs[f] /\ spoilt[f] = {} /\ kept[f] = "saved"
    OBVIOUS
  <2>2. spoilt[f] = {} /\ kept[f] = "saved" /\ Legible(plan)  BY <1>6, <1>8, <2>1
  <2>3. plan \in {theirs[f], Torn, Emptied}  BY <1>3, <2>2 DEF Undo, Undoable
  <2>4. QED  BY <1>5, <2>2, <2>3 DEF Legible
<1>12. (spoilt[f] = {} => Undoable(f))'
  <2>1. SUFFICES ASSUME spoilt'[f] = {} PROVE Undoable(f)'
    OBVIOUS
  <2>2. config'[f] = theirs[f] /\ Undoable(f)  BY <1>11, <2>1 DEF Undo
  <2>3. theirs[f] \in SUBSET Declared  BY DEF SetupTypes
  <2>4. Own(theirs[f]) = theirs[f]  BY <2>3, OwnDeclared
  <2>5. theirs[f] \notin {Torn, Emptied}
    <3>1. theirs[f] \in SUBSET Written  BY <2>3 DEF Written
    <3>2. QED  BY <3>1
  <2>6. QED  BY <1>1, <2>2, <2>4, <2>5 DEF Undoable
<1>13. Nowhere' /\ Undo'
  <2>1. \A g \in Files \ {f} :
            /\ config'[g] = config[g] /\ backups'[g] = backups[g]
            /\ theirs'[g] = theirs[g] /\ spoilt'[g] = spoilt[g]
            /\ kept'[g] = "saved" <=> kept[g] = "saved"
    BY <1>1, <1>5, <1>6
  <2>2. QED  BY <1>10, <1>12, <2>1, OneFile
<1>14. ASSUME NEW e \in Leading'  PROVE e \in Leading
  <2>1. CASE \E g \in Files : e \in Redirected(config'[g])
    <3>1. PICK g \in Files : e \in Redirected(config'[g])  BY <2>1
    <3>2. CASE g = f  BY <1>4, <1>5, <3>1, <3>2, LeadingIs
    <3>3. CASE g # f  BY <1>5, <3>1, <3>3, LeadingIs
    <3>4. QED  BY <3>2, <3>3
  <2>2. CASE \E g \in Files : \E c \in ToSet(backups'[g]) : e \in Redirected(c)
    BY <1>1, <2>2, LeadingIs
  <2>3. QED  BY <2>1, <2>2, LeadingWillBe
<1>15. cli'.does # "init" /\ CliTypes' /\ Planning'
  <2>1. CASE DOMAIN cli.plans = {f}
    <3>1. CliTypes' /\ cli'.does = "nothing"  BY <1>1, <2>1, IsIdle
    <3>2. QED  BY <1>1, <1>7, <3>1 DEF Planning
  <2>2. CASE DOMAIN cli.plans # {f}
    <3>1. cli' = [cli EXCEPT !.plans = PlansLeft(f)]  BY <1>1, <2>2
    <3>2. /\ cli'.does = "restore" /\ cli'.plans = PlansLeft(f) /\ cli'.saved = cli.saved
          /\ cli' \in [does : {"nothing", "init", "restore"}, plans : {cli'.plans},
                       saved : BOOLEAN, routed : BOOLEAN, table : Tables]
      BY <1>1, <3>1, CliMoves
    <3>3. /\ DOMAIN PlansLeft(f) = DOMAIN cli.plans \ {f}
          /\ \A g \in DOMAIN PlansLeft(f) : PlansLeft(f)[g] = cli.plans[g]
      BY LeftIs
    <3>4. CliTypes'
      <4>1. ~cli.saved  BY <1>1 DEF CliTypes
      <4>2. QED  BY <3>2, <3>3, <4>1 DEF CliTypes
    <3>5. Planning'  BY <1>1, <1>7, <3>2, <3>3 DEF Planning
    <3>6. QED  BY <3>2, <3>4, <3>5
  <2>3. QED  BY <2>1, <2>2
<1>16. Routes'  BY <1>1, <1>14, <1>15, StillRouted
<1>17. QED  BY <1>9, <1>13, <1>15, <1>16

(* What a run that is killed leaves.                                        *)
LEMMA CutStep ==
  ASSUME SetupInv, IsCut, shared' = shared \cup Contested'
  PROVE  SetupInv'
<1> USE DEF SetupInv
<1>1. /\ cli.does # "nothing" /\ cli' = Idle /\ theirs' = theirs
      /\ lost' = IF cli.does = "init"
                   THEN lost \cup {n \in Names : cli.table[n] # routes[n]} ELSE lost
      /\ kept' = [f \in Files |-> IF kept[f] = "planned" THEN "new" ELSE kept[f]]
      /\ spoilt' = [f \in Files |->
           spoilt[f] \cup (IF Len(backups'[f]) = Len(backups[f]) /\ backups'[f] # backups[f]
                             THEN {"same second"} ELSE {})
                     \cup (IF config'[f] # config[f] /\ kept[f] = "new" THEN {"edited"} ELSE {})]
  BY DEF IsCut
<1>2. \A f \in Files : kept'[f] \in {"new", "saved"} /\ (kept'[f] = "saved" <=> kept[f] = "saved")
  BY <1>1 DEF SetupTypes
<1>3. ASSUME NEW f \in Files
      PROVE  /\ spoilt[f] \subseteq spoilt'[f]
             /\ Len(backups'[f]) = Len(backups[f]) /\ backups'[f] # backups[f]
                => "same second" \in spoilt'[f]
             /\ config'[f] # config[f] /\ kept[f] = "new" => "edited" \in spoilt'[f]
             /\ backups'[f] = backups[f] /\ config'[f] = config[f] => spoilt'[f] = spoilt[f]
  BY <1>1
<1>4. PICK f \in Files :
        /\ \A g \in Files : g # f => config'[g] = config[g] /\ backups'[g] = backups[g]
        /\ config' \in [Files -> Contents] /\ backups' \in [Files -> Seq(Contents)]
        /\ routes' = routes \/ routes' = Torn
        /\ \/ config'[f] = config[f] /\ backups'[f] = backups[f]
           \/ /\ config'[f] = config[f] /\ backups'[f] # <<>>
              /\ Last(backups'[f]) \in {Torn, Emptied}
              /\ ToSet(backups'[f]) \subseteq ToSet(backups[f]) \cup {Torn, Emptied}
              /\ ToSet(backups[f]) \subseteq ToSet(backups'[f])
                 \/ Len(backups'[f]) = Len(backups[f])
           \/ /\ backups'[f] = backups[f] /\ config'[f] \in {Torn, Emptied}
              /\ kept[f] # "planned"
  <2>1. config \in [Files -> Contents] /\ backups \in [Files -> Seq(Contents)]
    BY DEF SetupTypes
  <2>2. CASE UNCHANGED diskVars
    <3>1. HookFile \in Files  OBVIOUS
    <3>2. QED  BY <2>1, <2>2, <3>1 DEF diskVars
  <2>3. CASE CutsRoutes
    <3>1. HookFile \in Files  OBVIOUS
    <3>2. QED  BY <2>1, <2>3, <3>1 DEF CutsRoutes
  <2>4. ASSUME NEW f \in Files, IsNext(f), CutsBackup(f)
        PROVE  /\ \A g \in Files : g # f => config'[g] = config[g] /\ backups'[g] = backups[g]
               /\ config' \in [Files -> Contents] /\ backups' \in [Files -> Seq(Contents)]
               /\ routes' = routes /\ config'[f] = config[f] /\ backups'[f] # <<>>
               /\ Last(backups'[f]) \in {Torn, Emptied}
               /\ ToSet(backups'[f]) \subseteq ToSet(backups[f]) \cup {Torn, Emptied}
               /\ ToSet(backups[f]) \subseteq ToSet(backups'[f])
                  \/ Len(backups'[f]) = Len(backups[f])
    <3>1. config' = config /\ routes' = routes  BY <2>4 DEF CutsBackup
    <3>2. PICK cut \in {Torn, Emptied}, b \in BOOLEAN : MayAdd(f, b) /\ Added(f, cut, b)
      BY <2>4 DEF CutsBackup, Cut
    <3>3. backups' = [backups EXCEPT ![f] = Append(IF b THEN Front(@) ELSE @, cut)]
      BY <3>2 DEF Added
    <3>4. b => backups[f] # <<>>  BY <3>2 DEF MayAdd
    <3>5. cut \in Contents  BY DEF Contents
    <3>6. /\ backups' \in [Files -> Seq(Contents)]
          /\ \A g \in Files : g # f => backups'[g] = backups[g]
          /\ backups'[f] # <<>> /\ Last(backups'[f]) = cut
          /\ ToSet(backups'[f]) \subseteq ToSet(backups[f]) \cup {cut}
          /\ ~b => ToSet(backups'[f]) = ToSet(backups[f]) \cup {cut}
          /\ b => Len(backups'[f]) = Len(backups[f])
      BY <2>1, <3>3, <3>4, <3>5, AddedIs
    <3>7. QED  BY <2>1, <3>1, <3>2, <3>6
  <2>5. ASSUME NEW f \in Files, IsNext(f), CutsConfig(f)
        PROVE  /\ \A g \in Files : g # f => config'[g] = config[g] /\ backups'[g] = backups[g]
               /\ config' \in [Files -> Contents] /\ backups' \in [Files -> Seq(Contents)]
               /\ routes' = routes /\ backups'[f] = backups[f]
               /\ config'[f] \in {Torn, Emptied} /\ kept[f] # "planned"
    <3>1. backups' = backups /\ routes' = routes /\ (cli.does = "restore" \/ cli.saved)
      BY <2>5 DEF CutsConfig
    <3>2. PICK cut \in {Torn, Emptied} : config' = [config EXCEPT ![f] = cut]
      BY <2>5 DEF CutsConfig, Cut
    <3>3. cut \in Contents  BY DEF Contents
    <3>4. kept[f] # "planned"  BY <2>5, <3>1 DEF Planning
    <3>5. QED  BY <2>1, <3>1, <3>2, <3>3, <3>4
  <2>6. \/ UNCHANGED diskVars \/ CutsRoutes
        \/ \E f \in Files : IsNext(f) /\ (CutsBackup(f) \/ CutsConfig(f))
    BY DEF IsCut
  <2>7. CASE \E f \in Files : IsNext(f) /\ CutsBackup(f)
    <3>1. PICK f \in Files : IsNext(f) /\ CutsBackup(f)  BY <2>7
    <3>2. QED  BY <2>4, <3>1
  <2>8. CASE \E f \in Files : IsNext(f) /\ CutsConfig(f)
    <3>1. PICK f \in Files : IsNext(f) /\ CutsConfig(f)  BY <2>8
    <3>2. QED  BY <2>5, <3>1
  <2>9. QED  BY <2>2, <2>3, <2>6, <2>7, <2>8
<1>5. \A c \in {Torn, Emptied} : Own(c) = {} /\ Redirected(c) = {} /\ Urls(c) = {}
  BY LegibleIs
<1>6. SetupTypes'
  <2>1. spoilt' \in [Files -> SUBSET {"edited", "same second", "backup cut", "backup not theirs"}]
    BY <1>1 DEF SetupTypes
  <2>2. kept' \in [Files -> {"new", "planned", "saved"}]  BY <1>1 DEF SetupTypes
  <2>3. lost' \subseteq Names  BY <1>1 DEF SetupTypes
  <2>4. routes' \in Tables \cup {Torn}  BY <1>4 DEF SetupTypes
  <2>5. QED  BY <1>1, <1>4, <2>1, <2>2, <2>3, <2>4, SharedIs DEF SetupTypes
<1>7. CliTypes' /\ cli'.does = "nothing"  BY <1>1, IsIdle
<1>8. Planning'
  <2>1. \A g \in Files : kept'[g] # "planned"  BY <1>2
  <2>2. QED  BY <1>7, <2>1 DEF Planning
<1>9. (Clean(f) => Safe(f))'
  <2>1. SUFFICES ASSUME Clean(f)' PROVE Safe(f)'
    OBVIOUS
  <2>2. Clean(f)  BY <1>3, <2>1 DEF Clean
  <2>3. Safe(f)  BY <2>2 DEF Nowhere
  <2>4. Backed(f) \subseteq Backed(f)'
    <3>1. ToSet(backups[f]) \subseteq ToSet(backups'[f])
      BY <1>3, <1>4, <2>1 DEF Clean
    <3>2. QED  BY <3>1 DEF Backed
  <2>5. kept'[f] = "saved" => theirs[f] \subseteq Backed(f)  BY <1>2, <2>3 DEF Safe
  <2>6. theirs[f] \subseteq Own(config'[f]) \cup Backed(f)
    <3>1. CASE config'[f] = config[f]  BY <2>3, <3>1 DEF Safe
    <3>2. CASE config'[f] # config[f]
      <4>1. kept[f] = "saved"
        <5>1. kept[f] # "new"  BY <1>3, <2>1, <3>2 DEF Clean
        <5>2. kept[f] # "planned"  BY <1>4, <3>2
        <5>3. QED  BY <5>1, <5>2 DEF SetupTypes
      <4>2. QED  BY <2>3, <4>1 DEF Safe
    <3>3. QED  BY <3>1, <3>2
  <2>7. QED  BY <1>1, <2>4, <2>5, <2>6 DEF Safe
<1>10. (spoilt[f] = {} => Undoable(f))'
  <2>1. SUFFICES ASSUME spoilt'[f] = {} PROVE Undoable(f)'
    OBVIOUS
  <2>2. spoilt[f] = {}  BY <1>3, <2>1
  <2>3. Undoable(f)  BY <2>2 DEF Undo
  <2>4. kept'[f] = "saved" =>
          backups'[f] # <<>> /\ Last(backups'[f]) \in {theirs[f], Torn, Emptied}
    <3>1. kept[f] = "saved" =>
            backups[f] # <<>> /\ Last(backups[f]) \in {theirs[f], Torn, Emptied}
      BY <2>3 DEF Undoable
    <3>2. QED  BY <1>2, <1>4, <3>1
  <2>5. \/ Own(config'[f]) = theirs[f] /\ config'[f] \notin {Torn, Emptied}
        \/ kept'[f] = "saved" /\ config'[f] \in {Torn, Emptied}
    <3>1. CASE config'[f] = config[f]  BY <1>2, <2>3, <3>1 DEF Undoable
    <3>2. CASE config'[f] # config[f]
      <4>1. kept[f] # "new"  BY <1>3, <2>1, <3>2
      <4>2. kept[f] # "planned" /\ config'[f] \in {Torn, Emptied}  BY <1>4, <3>2
      <4>3. kept[f] = "saved"  BY <4>1, <4>2 DEF SetupTypes
      <4>4. QED  BY <1>2, <4>2, <4>3
    <3>3. QED  BY <3>1, <3>2
  <2>6. QED  BY <1>1, <2>4, <2>5 DEF Undoable
<1>11. Nowhere' /\ Undo'
  <2>1. \A g \in Files \ {f} :
            /\ config'[g] = config[g] /\ backups'[g] = backups[g]
            /\ theirs'[g] = theirs[g] /\ spoilt'[g] = spoilt[g]
            /\ kept'[g] = "saved" <=> kept[g] = "saved"
    BY <1>1, <1>2, <1>3, <1>4
  <2>2. QED  BY <1>9, <1>10, <2>1, OneFile
<1>12. ASSUME NEW e \in Leading'  PROVE e \in Leading
  <2>1. CASE \E g \in Files : e \in Redirected(config'[g])
    <3>1. PICK g \in Files : e \in Redirected(config'[g])  BY <2>1
    <3>2. config'[g] = config[g]  BY <1>4, <1>5, <3>1
    <3>3. QED  BY <3>1, <3>2, LeadingIs
  <2>2. CASE \E g \in Files : \E c \in ToSet(backups'[g]) : e \in Redirected(c)
    <3>1. PICK g \in Files : \E c \in ToSet(backups'[g]) : e \in Redirected(c)  BY <2>2
    <3>2. PICK c \in ToSet(backups'[g]) : e \in Redirected(c)  BY <3>1
    <3>3. c \in ToSet(backups[g])  BY <1>4, <1>5, <3>2
    <3>4. QED  BY <3>2, <3>3, LeadingIs
  <2>3. QED  BY <2>1, <2>2, LeadingWillBe
<1>13. Routes'
  <2>1. CASE routes' = Torn
    <3>1. Contested' \subseteq shared'  BY SharedIs DEF SetupTypes
    <3>2. QED  BY <1>7, <2>1, <3>1 DEF Routes
  <2>2. CASE routes' = routes
    <3>1. CASE cli.does = "init"
      <4>1. \A e \in Leading' :
              /\ \E x \in Leading \cup Planned : x.name = e.name /\ x.target = e.target
              /\ e.name \in Names
        BY <1>6, <1>12, LeadingAreNamed
      <4>2. lost' = lost \cup {n \in Names : cli.table[n] # routes[n]}  BY <1>1, <3>1
      <4>3. QED  BY <1>1, <2>2, <3>1, <4>1, <4>2, RunIsOver
    <3>2. CASE cli.does # "init"
      <4>1. lost' = lost  BY <1>1, <3>2
      <4>2. QED  BY <1>7, <1>12, <2>2, <3>2, <4>1, StillRouted
    <3>3. QED  BY <3>1, <3>2
  <2>3. QED  BY <1>4, <2>1, <2>2
<1>14. QED  BY <1>6, <1>7, <1>8, <1>11, <1>13

(* A command that an edit, or the proxy, leaves as it is.                   *)
LEMMA StillLed ==
  ASSUME Routes, UNCHANGED <<cli, routes, lost>>, shared' = shared \cup Contested',
         \A e \in Leading' : e \in Leading
  PROVE  Routes'
<1>1. CASE cli.does = "init"
  <2>1. \A e : e \in Planned' => e \in Planned  BY PlannedIs
  <2>2. \A e \in Leading' \cup Planned' :
            \E x \in Leading \cup Planned : x.name = e.name /\ x.target = e.target
    BY <2>1
  <2>3. cli'.does = "init" /\ cli'.table = cli.table /\ cli'.routed = cli.routed  BY <1>1
  <2>4. QED  BY <1>1, <2>2, <2>3, StillPlanned
<1>2. CASE cli.does # "init"
  <2>1. cli'.does # "init"  BY <1>2
  <2>2. QED  BY <1>2, <2>1, StillRouted
<1>3. QED  BY <1>1, <1>2

LEMMA EditStep ==
  ASSUME SetupInv, EditConfig, shared' = shared \cup Contested'
  PROVE  SetupInv'
<1> USE DEF SetupInv
<1>1. UNCHANGED <<backups, routes, spoilt, lost, cli>>  BY DEF EditConfig
<1>2. PICK f \in Files : \E e \in Declares[f], adds \in BOOLEAN :
        LET was == IF config[f] = NoFile THEN {} ELSE config[f]
        IN  /\ config[f] \notin {Torn, Emptied}
            /\ config' = [config EXCEPT ![f] = Edited(was, e, adds)]
            /\ theirs' = [theirs EXCEPT ![f] = Edited(@, e, adds)]
            /\ kept' = [kept EXCEPT ![f] = "new"]
  BY DEF EditConfig
<1>3. PICK was : was = IF config[f] = NoFile THEN {} ELSE config[f]  OBVIOUS
<1>4. PICK e \in Declares[f], adds \in BOOLEAN :
        /\ config[f] \notin {Torn, Emptied}
        /\ config' = [config EXCEPT ![f] = Edited(was, e, adds)]
        /\ theirs' = [theirs EXCEPT ![f] = Edited(@, e, adds)]
        /\ kept' = [kept EXCEPT ![f] = "new"]
  BY <1>2, <1>3
<1>5. e \in Declared  BY DEF Declared
<1>6. config[f] \in Contents /\ theirs[f] \in SUBSET Declared  BY DEF SetupTypes
<1>7. was \in SUBSET Written /\ Own(was) = Own(config[f]) /\ Redirected(was) \subseteq Redirected(config[f])
  <2>1. CASE config[f] = NoFile
    <3>1. was = {}  BY <1>3, <2>1
    <3>2. Own(config[f]) = {} /\ Own({}) = {}  BY <2>1, LegibleIs
    <3>3. Redirected({}) = {}  BY DEF Redirected, Urls
    <3>4. QED  BY <3>1, <3>2, <3>3
  <2>2. CASE config[f] # NoFile
    <3>1. was = config[f] /\ Legible(config[f])  BY <1>3, <1>4, <2>2 DEF Legible
    <3>2. QED  BY <1>6, <3>1, LegibleIs
  <2>3. QED  BY <2>1, <2>2
<1>8. PICK new : new = Edited(was, e, adds)  OBVIOUS
<1>9. /\ new \in SUBSET Written /\ Own(new) = Edited(Own(was), e, adds)
      /\ Redirected(new) \subseteq Redirected(was)
  BY <1>5, <1>7, <1>8, EditedIs
<1>10. new \in Contents /\ new \notin {Torn, Emptied}  BY <1>9, LegibleIs
<1>11. /\ config' \in [Files -> Contents] /\ config'[f] = new
       /\ \A g \in Files : g # f => config'[g] = config[g]
  <2>1. config' = [config EXCEPT ![f] = new]  BY <1>4, <1>8
  <2>2. QED  BY <1>10, <2>1 DEF SetupTypes
<1>12. /\ theirs' \in [Files -> SUBSET Declared] /\ theirs'[f] = Edited(theirs[f], e, adds)
       /\ \A g \in Files : g # f => theirs'[g] = theirs[g]
  <2>1. Edited(theirs[f], e, adds) \in SUBSET Declared  BY <1>5, <1>6 DEF Edited
  <2>2. QED  BY <1>4, <2>1 DEF SetupTypes
<1>13. /\ kept' \in [Files -> {"new", "planned", "saved"}] /\ kept'[f] = "new"
       /\ \A g \in Files : g # f => kept'[g] = kept[g]
  BY <1>4 DEF SetupTypes
<1>14. SetupTypes'  BY <1>1, <1>11, <1>12, <1>13, SharedIs DEF SetupTypes
<1>15. CliTypes'  BY <1>1 DEF CliTypes
<1>16. Planning'
  <2>1. \A g : IsNext(g)' <=> IsNext(g)  BY <1>1 DEF IsNext
  <2>2. ASSUME cli.does = "init", NEW g \in DOMAIN cli.plans
        PROVE  /\ cli.plans[g] \in SUBSET Written
               /\ kept'[g] # "new" =>
                    cli.plans[g] = IF g = HookFile /\ config'[g] \in {NoFile, Emptied} THEN {} ELSE config'[g]
               /\ cli.saved /\ IsNext(g) /\ kept'[g] # "new" /\ spoilt[g] = {}
                  => config'[g] # Emptied
    <3>1. g \in Files  BY <2>2 DEF CliTypes
    <3>2. CASE g = f  BY <1>13, <2>2, <3>2 DEF Planning
    <3>3. CASE g # f
      <4>1. config'[g] = config[g] /\ kept'[g] = kept[g]  BY <1>11, <1>13, <3>1, <3>3
      <4>2. QED  BY <2>2, <4>1 DEF Planning
    <3>4. QED  BY <3>2, <3>3
  <2>3. ASSUME NEW g \in Files, kept'[g] = "planned"
        PROVE  cli.does = "init" /\ g \in DOMAIN cli.plans /\ (cli.saved => ~IsNext(g))
    <3>1. kept[g] = "planned"  BY <1>13, <2>3
    <3>2. QED  BY <3>1 DEF Planning
  <2>4. QED  BY <1>1, <2>1, <2>2, <2>3 DEF Planning
<1>17. \A r : \A s, t \in SUBSET Declared :
          s \subseteq t \cup r => Edited(s, e, adds) \subseteq Edited(t, e, adds) \cup r
  BY DEF Edited
<1>18. (Clean(f) => Safe(f))'
  <2>1. SUFFICES ASSUME Clean(f)' PROVE Safe(f)'
    OBVIOUS
  <2>2. Safe(f)  BY <1>1, <2>1 DEF Clean, Nowhere
  <2>3. theirs[f] \subseteq Own(was) \cup Backed(f)  BY <1>7, <2>2 DEF Safe
  <2>4. Own(was) \in SUBSET Declared
    <3>1. was \in Contents  BY <1>7, LegibleIs
    <3>2. QED  BY <3>1, OwnIsDeclared
  <2>5. Edited(theirs[f], e, adds) \subseteq Edited(Own(was), e, adds) \cup Backed(f)
    BY <1>6, <1>17, <2>3, <2>4
  <2>6. Backed(f)' = Backed(f)  BY <1>1 DEF Backed
  <2>7. QED  BY <1>9, <1>11, <1>12, <1>13, <2>5, <2>6 DEF Safe
<1>19. (spoilt[f] = {} => Undoable(f))'
  <2>1. SUFFICES ASSUME spoilt'[f] = {} PROVE Undoable(f)'
    OBVIOUS
  <2>2. Undoable(f)  BY <1>1, <2>1 DEF Undo
  <2>3. Own(config[f]) = theirs[f]  BY <1>4, <2>2 DEF Undoable
  <2>4. Own(new) = theirs'[f]  BY <1>7, <1>9, <1>12, <2>3
  <2>5. QED  BY <1>10, <1>11, <1>13, <2>4 DEF Undoable
<1>20. Nowhere' /\ Undo'
  <2>1. \A g \in Files \ {f} :
            /\ config'[g] = config[g] /\ backups'[g] = backups[g]
            /\ theirs'[g] = theirs[g] /\ spoilt'[g] = spoilt[g]
            /\ kept'[g] = "saved" <=> kept[g] = "saved"
    BY <1>1, <1>11, <1>12, <1>13
  <2>2. QED  BY <1>18, <1>19, <2>1, OneFile
<1>21. ASSUME NEW x \in Leading'  PROVE x \in Leading
  <2>1. CASE \E g \in Files : x \in Redirected(config'[g])
    <3>1. PICK g \in Files : x \in Redirected(config'[g])  BY <2>1
    <3>2. x \in Redirected(config[g])  BY <1>7, <1>9, <1>11, <3>1
    <3>3. QED  BY <3>2, LeadingIs
  <2>2. CASE \E g \in Files : \E c \in ToSet(backups'[g]) : x \in Redirected(c)
    BY <1>1, <2>2, LeadingIs
  <2>3. QED  BY <2>1, <2>2, LeadingWillBe
<1>22. Routes'  BY <1>1, <1>21, StillLed
<1>23. QED  BY <1>14, <1>15, <1>16, <1>20, <1>22

(* The proxy reads, and writes nothing.                                     *)
LEMMA ProxyStep ==
  ASSUME SetupInv, UNCHANGED <<diskVars, causeVars, cli>>, shared' = shared \cup Contested'
  PROVE  SetupInv'
<1> USE DEF SetupInv
<1>1. UNCHANGED <<config, backups, routes, theirs, kept, spoilt, lost, cli>>
  BY DEF diskVars, causeVars
<1>2. SetupTypes'  BY <1>1, SharedIs DEF SetupTypes
<1>3. CliTypes'  BY <1>1 DEF CliTypes
<1>4. Planning'  BY <1>1 DEF Planning, IsNext
<1>5. Nowhere' /\ Undo'  BY <1>1, NoFileTouched
<1>6. Leading' = Leading  BY <1>1 DEF Leading
<1>7. Routes'  BY <1>1, <1>6, StillLed
<1>8. QED  BY <1>2, <1>3, <1>4, <1>5, <1>7

LEMMA StepSetup == SetupInv /\ [SetupNext]_setupVars => SetupInv'
<1> SUFFICES ASSUME SetupInv, [SetupNext]_setupVars PROVE SetupInv'
  OBVIOUS
<1>1. CASE SetupNext
  <2>1. shared' = shared \cup Contested'  BY <1>1 DEF SetupNext
  <2>2. CASE InitReads  BY <2>1, <2>2, ReadsStep
  <2>3. CASE BackUp  BY <2>1, <2>3, BackUpStep
  <2>4. CASE WriteConfig  BY <2>1, <2>4, WriteConfigStep
  <2>5. CASE WriteRoutes  BY <2>1, <2>5, WriteRoutesStep
  <2>6. CASE RestoreReads  BY <2>1, <2>6, RestoreReadsStep
  <2>7. ASSUME NEW f \in Files, RestoreFile(f)  PROVE SetupInv'
    BY <2>1, <2>7, RestoreFileStep
  <2>8. CASE IsCut  BY <2>1, <2>8, CutStep
  <2>9. CASE EditConfig  BY <2>1, <2>9, EditStep
  <2>10. CASE ProxyStarts
    <3>1. UNCHANGED <<diskVars, causeVars, cli>>  BY <2>10 DEF ProxyStarts
    <3>2. QED  BY <2>1, <3>1, ProxyStep
  <2>11. CASE ProxyDies
    <3>1. UNCHANGED <<diskVars, causeVars, cli>>  BY <2>11 DEF ProxyDies
    <3>2. QED  BY <2>1, <3>1, ProxyStep
  <2>12. QED
    BY <1>1, <2>2, <2>3, <2>4, <2>5, <2>6, <2>7, <2>8, <2>9, <2>10, <2>11 DEF SetupNext
<1>2. CASE UNCHANGED setupVars
  <2>1. UNCHANGED <<config, backups, routes, theirs, kept, spoilt, lost, cli, shared>>
    BY <1>2 DEF setupVars, diskVars, causeVars
  <2>2. SetupTypes' /\ CliTypes' /\ Planning' /\ Nowhere' /\ Undo'
    BY <2>1 DEF SetupInv, SetupTypes, CliTypes, Planning, IsNext, Nowhere, Clean, Safe,
                Backed, Undo, Undoable
  <2>3. Routes'
    <3>1. Contested' = Contested /\ Leading' = Leading
      BY <2>1 DEF Contested, Known, Leading
    <3>2. Planned' = Planned  BY <2>1 DEF Planned
    <3>3. QED  BY <2>1, <3>1, <3>2 DEF SetupInv, Routes
  <2>4. QED  BY <2>2, <2>3 DEF SetupInv
<1>3. QED  BY <1>1, <1>2

THEOREM SetupHolds == SetupSpec => []SetupInv
<1>1. SetupInv /\ [SetupNext]_setupVars => SetupInv'  BY StepSetup
<1>2. QED  BY InitSetup, <1>1, PTL DEF SetupSpec

-----------------------------------------------------------------------------
(* Whatever the user declares is in the file or in a backup of it, between  *)
(* any two writes of mcpwall and after a kill at any of them.               *)
THEOREM TheirsIsKept == SetupSpec => []NothingIsLost
<1>1. SetupInv => NothingIsLost
  <2> SUFFICES ASSUME SetupInv, NEW f \in Files, Clean(f)
               PROVE  theirs[f] \subseteq UNION {Own(c) : c \in {config[f]} \cup ToSet(backups[f])}
    BY DEF NothingIsLost, Clean
  <2>1. theirs[f] \subseteq Own(config[f]) \cup Backed(f)
    BY DEF SetupInv, Nowhere, Safe
  <2>2. QED  BY <2>1 DEF Backed
<1>2. QED  BY SetupHolds, <1>1, PTL

(* A restore that meets what an init backed up and nobody wrote since gives *)
(* the file back as the user wrote it.                                      *)
THEOREM RestoreGivesBack == SetupSpec => RestoreUndoes
<1>1. SetupInv /\ [SetupNext]_setupVars =>
        [\A f \in Files :
           (RestoreFile(f) /\ kept[f] = "saved" /\ spoilt'[f] = {}) => config'[f] = theirs[f]]_setupVars
  <2> SUFFICES ASSUME SetupInv, NEW f \in Files, RestoreFile(f),
                      kept[f] = "saved", spoilt'[f] = {}
               PROVE  config'[f] = theirs[f]
    OBVIOUS
  <2>1. PICK plan : plan = cli.plans[f]  OBVIOUS
  <2>2. /\ cli.does = "restore" /\ f \in DOMAIN cli.plans
        /\ config' = [config EXCEPT ![f] = plan]
        /\ spoilt' = [spoilt EXCEPT ![f] =
             @ \cup (IF kept[f] = "new" THEN {"edited"} ELSE {})
               \cup (IF Legible(plan) THEN {} ELSE {"backup cut"})]
    BY <2>1 DEF RestoreFile, IsNext
  <2>3. config'[f] = plan /\ spoilt[f] = {} /\ Legible(plan)
    BY <2>2 DEF SetupInv, SetupTypes
  <2>4. plan = Last(backups[f])  BY <2>1, <2>2 DEF SetupInv, Planning
  <2>5. Last(backups[f]) \in {theirs[f], Torn, Emptied}
    BY <2>3 DEF SetupInv, Undo, Undoable
  <2>6. QED  BY <2>3, <2>4, <2>5 DEF Legible
<1>2. QED  BY SetupHolds, <1>1, PTL DEF SetupSpec, RestoreUndoes

(* Between two commands every url that leads to the proxy has its route.    *)
THEOREM UrlsAreRouted == SetupSpec => []RoutedToItsServer
<1>1. SetupInv => RoutedToItsServer
  <2> SUFFICES ASSUME SetupInv, cli.does = "nothing", routes # Torn,
                      NEW f \in Files, NEW e \in Redirected(config[f]),
                      e.name \notin lost \cup shared
               PROVE  routes[e.name] = e.target
    BY DEF RoutedToItsServer
  <2>1. e \in Leading  BY LeadingIs
  <2>2. QED  BY <2>1 DEF SetupInv, Routes
<1>2. QED  BY SetupHolds, <1>1, PTL
=============================================================================
