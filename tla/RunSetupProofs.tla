--------------------------- MODULE RunSetupProofs ---------------------------
(***************************************************************************)
(* Proofs about RunSetup, for any keys, files, options, machines, configs, *)
(* rings of keys and hosts: the invariant of each phase is kept by its own *)
(* steps, and the steps of the others leave its variables alone.           *)
(***************************************************************************)
EXTENDS RunSetup, FiniteSetTheorems, SequenceTheorems, WellFoundedInduction, TLAPS

-----------------------------------------------------------------------------
(* The settings.                                                            *)

\* What one more layer does to a list that holds lower ones in order.
LEMMA AddLayer ==
  ASSUME NEW s \in Seq(Layers), NEW n \in Layers,
         \A i \in 1..Len(s) : s[i] < n, InOrder(s)
  PROVE  /\ Append(s, n) \in Seq(Layers) /\ InOrder(Append(s, n))
         /\ \A m : Holds(Append(s, n), m) <=> Holds(s, m) \/ m = n
<1> DEFINE t == Append(s, n)
<1>1. /\ t \in Seq(Layers) /\ Len(t) = Len(s) + 1 /\ Len(s) \in Nat
      /\ t[Len(s) + 1] = n /\ \A i \in 1..Len(s) : t[i] = s[i]
      OBVIOUS
<1> HIDE DEF t
<1>2. ASSUME NEW m PROVE Holds(t, m) <=> Holds(s, m) \/ m = n
  <2>1. ASSUME Holds(t, m) PROVE Holds(s, m) \/ m = n
    <3>1. PICK i \in 1..Len(t) : t[i] = m
          BY <2>1 DEF Holds
    <3>2. i \in 1..Len(s) \/ i = Len(s) + 1
          BY <1>1
    <3>3. QED
          BY <3>1, <3>2, <1>1 DEF Holds
  <2>2. ASSUME Holds(s, m) PROVE Holds(t, m)
    <3>1. PICK i \in 1..Len(s) : s[i] = m
          BY <2>2 DEF Holds
    <3>2. i \in 1..Len(t)
          BY <1>1
    <3>3. QED
          BY <3>1, <3>2, <1>1 DEF Holds
  <2>3. Holds(t, n)
    <3>1. Len(s) + 1 \in 1..Len(t)
          BY <1>1
    <3>2. QED
          BY <3>1, <1>1 DEF Holds
  <2>4. QED
        BY <2>1, <2>2, <2>3
<1>3. InOrder(t)
  <2> SUFFICES ASSUME NEW i \in 1..Len(t), NEW j \in 1..Len(t), i < j
               PROVE  t[i] < t[j]
      BY DEF InOrder
  <2>1. i \in 1..Len(s) /\ t[i] = s[i]
        BY <1>1
  <2>2. CASE j \in 1..Len(s)
        BY <2>1, <2>2, <1>1 DEF InOrder
  <2>3. CASE j = Len(s) + 1
        BY <2>1, <2>3, <1>1
  <2>4. QED
        BY <2>2, <2>3, <1>1
<1>4. QED
      BY <1>1, <1>2, <1>3 DEF t

\* As long as no option is looked at, only files that were read give anything.
LEMMA FilesGive ==
  ASSUME CInv, cpc = "read", NEW n \in Layers, NEW k, Gives(n, k)
  PROVE  n \in 1..Len(seen)
  BY DEF CInv, CTypeOK, FilesOnly, NoOptions, Gives, GivenBy, Layers, EnvVar, Before, After

\* Overlaying the settings g as layer n, when that is all it adds.
LEMMA Overlaid ==
  ASSUME CInv, cpc = "read", NEW g, NEW n \in 1..3, n = Len(seen) + 1, Overlay(g, n),
         g.copyBack \in {"on", "off"}, g.copyBack = seen'[n].copyBack,
         \A m \in Layers, k \in Keys :
           GivenBy(seen', options', m, k) <=> Gives(m, k) \/ (m = n /\ k \in g.set),
         \A m \in 1..Len(seen) : seen'[m] = seen[m], Len(seen') = n
  PROVE  /\ source' \in [Scalars -> 0..6] /\ items' \in [Lists -> Seq(Layers)]
         /\ copyBack' \in CopyWords
         /\ ScalarsWin' /\ ListsGather'
         /\ copyBack' = FileWord'
         /\ source'["host"] = IF "host" \in g.set THEN n ELSE source["host"]
<1>1. /\ source \in [Scalars -> 0..6] /\ items \in [Lists -> Seq(Layers)]
      /\ copyBack \in CopyWords /\ ScalarsWin /\ ListsGather /\ Len(seen) \in Nat
      /\ copyBack = FileWord
      BY DEF CInv, CTypeOK, FilesOnly
<1>2. /\ n \in Layers /\ n \in 1..6 /\ Layers = 1..6
      /\ {"host", "copy_back"} \subseteq Scalars /\ Scalars \subseteq Keys /\ Lists \subseteq Keys
      BY KeysAssumption DEF Layers, Keys
<1>3. \A k : \A m \in Layers : Gives(m, k) => m < n
      BY FilesGive, <1>1
<1>4. /\ source' = [k \in Scalars |-> IF k \in g.set THEN n ELSE source[k]]
      /\ items' = [k \in Lists |-> Add(items[k], n, k \in g.set)]
      /\ copyBack' = IF "copy_back" \in g.set THEN g.copyBack ELSE copyBack
      BY DEF Overlay
<1>5. source' \in [Scalars -> 0..6] /\ copyBack' \in CopyWords
      BY <1>1, <1>2, <1>4 DEF CopyWords
<1>6. ScalarsWin'
  <2> SUFFICES ASSUME NEW k \in Scalars
               PROVE  /\ source'[k] # 0 => GivenBy(seen', options', source'[k], k)
                      /\ \A m \in Layers : GivenBy(seen', options', m, k) => m <= source'[k]
      BY DEF ScalarsWin, Gives
  <2>1. CASE k \in g.set
    <3>1. source'[k] = n
          BY <2>1, <1>4
    <3>2. GivenBy(seen', options', n, k)
          BY <2>1, <1>2
    <3>3. GivenBy(seen', options', source'[k], k)
          BY <3>1, <3>2
    <3>4. ASSUME NEW m \in Layers, GivenBy(seen', options', m, k) PROVE m <= n
          BY <3>4, <1>2, <1>3
    <3>5. QED
          BY <3>1, <3>3, <3>4
  <2>2. CASE k \notin g.set
    <3>1. source'[k] = source[k]
          BY <2>2, <1>4
    <3>2. source[k] # 0 => source[k] \in Layers
          BY <1>1, <1>2
    <3>3. source[k] # 0 => Gives(source[k], k)
          BY <1>1 DEF ScalarsWin
    <3>4. source[k] # 0 => GivenBy(seen', options', source'[k], k)
          BY <3>1, <3>2, <3>3, <1>2
    <3>5. ASSUME NEW m \in Layers, GivenBy(seen', options', m, k) PROVE m <= source[k]
          BY <3>5, <2>2, <1>1, <1>2 DEF ScalarsWin
    <3>6. QED
          BY <3>1, <3>4, <3>5
  <2>3. QED
        BY <2>1, <2>2
<1>7. items' \in [Lists -> Seq(Layers)] /\ ListsGather'
  <2>1. ASSUME NEW k \in Lists
        PROVE  /\ items'[k] \in Seq(Layers) /\ InOrder(items'[k])
               /\ \A m \in Layers : Holds(items'[k], m) <=> GivenBy(seen', options', m, k)
    <3>1. /\ items[k] \in Seq(Layers) /\ InOrder(items[k])
          /\ \A m \in Layers : Holds(items[k], m) <=> Gives(m, k)
          BY <1>1 DEF ListsGather
    <3>2. \A i \in 1..Len(items[k]) : items[k][i] < n
          BY <3>1, <1>3 DEF Holds
    <3>3. CASE k \in g.set
      <4>1. items'[k] = Append(items[k], n)
            BY <3>3, <1>4 DEF Add
      <4>2. n \in Layers
            BY <1>2
      <4>3. /\ items'[k] \in Seq(Layers) /\ InOrder(items'[k])
            /\ \A m : Holds(items'[k], m) <=> Holds(items[k], m) \/ m = n
            BY <3>1, <3>2, <4>1, <4>2, AddLayer
      <4>4. QED
            BY <3>1, <3>3, <4>3, <1>2
    <3>4. CASE k \notin g.set
      <4>1. items'[k] = items[k]
            BY <3>4, <1>4 DEF Add
      <4>2. QED
            BY <3>1, <3>4, <4>1, <1>2
    <3>5. QED
          BY <3>3, <3>4
  <2>2. items' \in [Lists -> Seq(Layers)]
        BY <2>1, <1>4
  <2>3. QED
        BY <2>1, <2>2 DEF ListsGather, Gives
<1>8. copyBack' = FileWord'
  <2>1. CASE "copy_back" \in g.set
    <3>1. source'["copy_back"] = n /\ n # 0
          BY <2>1, <1>2, <1>4
    <3>2. QED
          BY <2>1, <3>1, <1>4 DEF FileWord
  <2>2. CASE "copy_back" \notin g.set
    <3>1. source'["copy_back"] = source["copy_back"] /\ copyBack' = copyBack
          BY <2>2, <1>2, <1>4
    <3>2. CASE source["copy_back"] = 0
          BY <3>1, <3>2, <1>1 DEF FileWord
    <3>3. CASE source["copy_back"] # 0
      <4>1. source["copy_back"] \in Layers /\ Gives(source["copy_back"], "copy_back")
            BY <3>3, <1>1, <1>2 DEF ScalarsWin
      <4>2. source["copy_back"] \in 1..Len(seen)
            BY <4>1, FilesGive
      <4>3. seen'[source["copy_back"]] = seen[source["copy_back"]]
            BY <4>2
      <4>4. QED
            BY <3>1, <3>3, <4>3, <1>1 DEF FileWord
    <3>4. QED
          BY <3>2, <3>3
  <2>3. QED
        BY <2>1, <2>2
<1>9. source'["host"] = IF "host" \in g.set THEN n ELSE source["host"]
      BY <1>2, <1>4
<1>10. QED
      BY <1>5, <1>6, <1>7, <1>8, <1>9

\* Before any file is read the settings are the defaults.
LEMMA InitCInv == CInit => CInv
<1> SUFFICES ASSUME CInit PROVE CInv
    OBVIOUS
<1>1. CTypeOK
  <2>1. NoOptions \in OptionSets
        BY DEF NoOptions, OptionSets, CopyWords
  <2>2. items \in [Lists -> Seq(Layers)] /\ seen \in Seq(Files) /\ Len(seen) <= 3
        BY DEF CInit
  <2>3. source \in [Scalars -> 0..6]
        BY DEF CInit
  <2>4. QED
        BY <2>1, <2>2, <2>3 DEF CInit, CTypeOK, CopyWords
<1>2. \A n, k : ~ Gives(n, k)
  <2>1. Len(seen) = 0
        BY DEF CInit
  <2>2. ~ options.env /\ options.before = {} /\ options.after = {}
        BY DEF CInit, NoOptions
  <2>3. QED
        BY <2>1, <2>2 DEF Gives, GivenBy
<1>3. "host" \in Scalars /\ "copy_back" \in Scalars
      BY KeysAssumption
<1>4. FilesOnly
      BY <1>3 DEF CInit, FilesOnly, FileWord, Project
<1>5. ScalarsWin /\ ListsGather /\ Heard /\ CopyBackFollowsHost
      BY <1>2 DEF CInit, ScalarsWin, ListsGather, Holds, InOrder, Heard, CopyBackFollowsHost
<1>6. QED
      BY <1>1, <1>4, <1>5 DEF CInv

\* The global file gives all it sets.
LEMMA ReadGlobalCInv == CInv /\ ReadGlobal => CInv'
<1> SUFFICES ASSUME CInv, ReadGlobal PROVE CInv'
    OBVIOUS
<1>1. PICK f \in GlobalFiles : seen' = <<f>> /\ Overlay(f, Global)
      BY DEF ReadGlobal
<1>2. /\ CTypeOK /\ FilesOnly /\ cpc = "read" /\ Len(seen) = 0 /\ f \in Files
      /\ UNCHANGED <<cpc, fromProject, warned, options>> /\ options = NoOptions
      BY FilesAssumption DEF ReadGlobal, CInv, FilesOnly
<1>3. /\ seen' \in Seq(Files) /\ Len(seen') = 1 /\ seen'[1] = f
      /\ f.copyBack \in {"on", "off"}
      BY <1>1, <1>2 DEF Files
<1>4. \A m \in Layers, k \in Keys :
        GivenBy(seen', options', m, k) <=> Gives(m, k) \/ (m = 1 /\ k \in f.set)
      BY <1>2, <1>3 DEF Gives, GivenBy, NoOptions, Project, Layers
<1>5. /\ source' \in [Scalars -> 0..6] /\ items' \in [Lists -> Seq(Layers)]
      /\ copyBack' \in CopyWords /\ ScalarsWin' /\ ListsGather'
      /\ copyBack' = FileWord'
      BY <1>1, <1>2, <1>3, <1>4, Overlaid DEF Global
<1>6. source["host"] \notin Project
  <2>1. \A n, k : ~ Gives(n, k)
        BY <1>2 DEF Gives, GivenBy, NoOptions
  <2>2. QED
        BY <2>1, KeysAssumption DEF CInv, ScalarsWin, Project
<1>7. source'["host"] \notin Project
  <2>1. source'["host"] \in {1, source["host"]}
        BY <1>1, KeysAssumption DEF Overlay, Global
  <2>2. QED
        BY <2>1, <1>6 DEF Project
<1>8. CTypeOK'
      BY <1>2, <1>3, <1>5 DEF CTypeOK
<1>9. FilesOnly'
      BY <1>2, <1>5, <1>6, <1>7 DEF FilesOnly
<1>10. Heard'
      BY <1>3 DEF Heard, Project
<1>11. CopyBackFollowsHost'
      BY <1>2 DEF CopyBackFollowsHost
<1>12. QED
      BY <1>5, <1>8, <1>9, <1>10, <1>11 DEF CInv

\* A project file gives what it sets, but a control key only when it is trusted.
LEMMA ReadProjectCInv == CInv /\ ReadProject => CInv'
<1> SUFFICES ASSUME CInv, ReadProject PROVE CInv'
    OBVIOUS
<1> DEFINE n == Len(seen) + 1
<1>1. PICK f \in ProjectFiles :
        /\ seen' = Append(seen, f)
        /\ Overlay(IF Trusted THEN f ELSE Clean(f), n)
        /\ fromProject' = (fromProject \/ (Trusted /\ "host" \in f.set))
        /\ warned' = IF ~ Trusted /\ f.set \cap Control # {}
                     THEN warned \cup {n} ELSE warned
      BY DEF ReadProject
<1> DEFINE g == IF Trusted THEN f ELSE Clean(f)
<1>2. /\ CTypeOK /\ FilesOnly /\ cpc = "read" /\ Len(seen) \in 1..2 /\ f \in Files
      /\ seen \in Seq(Files) /\ UNCHANGED <<cpc, options>> /\ options = NoOptions
      BY FilesAssumption DEF ReadProject, CInv, CTypeOK, FilesOnly
<1>3. /\ seen' \in Seq(Files) /\ Len(seen') = n /\ seen'[n] = f
      /\ \A m \in 1..Len(seen) : seen'[m] = seen[m]
      BY <1>1, <1>2
<1>4. n \in 2..3 /\ n \in Project /\ n \in Layers /\ f.copyBack \in {"on", "off"}
  <2>1. n \in 2..3
    <3>1. PICK x \in 1..2 : Len(seen) = x
          BY <1>2
    <3>2. n = x + 1
          BY <3>1
    <3>3. QED
          BY <3>2
  <2>2. f.copyBack \in {"on", "off"}
        BY <1>2 DEF Files
  <2>3. QED
        BY <2>1, <2>2 DEF Project, Layers
<1>5. g.copyBack = f.copyBack
      BY <1>2 DEF Clean, Files
<1>6. \A k : k \in g.set <=> k \in f.set /\ (Trusted \/ k \notin Control)
      BY <1>2 DEF Clean, Files
<1>7. Trusted = seen[1].trusts /\ seen'[1] = seen[1] /\ seen[1].trusts \in BOOLEAN
  <2>1. 1 \in 1..Len(seen)
        BY <1>2
  <2>2. seen[1] \in Files
        BY <2>1, <1>2
  <2>3. seen[1].trusts \in BOOLEAN
        BY <2>2 DEF Files
  <2>4. QED
        BY <2>1, <2>3, <1>3 DEF Trusted, Global
<1> HIDE DEF g, n
<1>8. \A m \in Layers, k \in Keys :
        GivenBy(seen', options', m, k) <=> Gives(m, k) \/ (m = n /\ k \in g.set)
  <2> SUFFICES ASSUME NEW m \in Layers, NEW k \in Keys
               PROVE  GivenBy(seen', options', m, k)
                        <=> Gives(m, k) \/ (m = n /\ k \in g.set)
      OBVIOUS
  <2>1. CASE m = n
    <3>1. n \notin 1..Len(seen) /\ n \in 1..Len(seen')
          BY <1>2, <1>3, <1>4 DEF n
    <3>2. GivenBy(seen', options', n, k) <=> k \in f.set /\ (k \in Control => Trusted)
          BY <3>1, <1>2, <1>3, <1>4, <1>7
             DEF GivenBy, NoOptions, Global, EnvVar, Before, After
    <3>3. ~ Gives(n, k)
          BY <3>1, <1>2 DEF Gives, GivenBy, NoOptions, EnvVar, Before, After
    <3>4. QED
          BY <2>1, <3>2, <3>3, <1>6
  <2>2. CASE m # n
    <3>1. m \in 1..Len(seen') <=> m \in 1..Len(seen)
          BY <2>2, <1>2, <1>3 DEF Layers, n
    <3>2. QED
          BY <2>2, <3>1, <1>2, <1>3, <1>7 DEF Gives, GivenBy, NoOptions, Global
  <2>3. QED
        BY <2>1, <2>2
<1>9. /\ source' \in [Scalars -> 0..6] /\ items' \in [Lists -> Seq(Layers)]
      /\ copyBack' \in CopyWords /\ ScalarsWin' /\ ListsGather'
      /\ copyBack' = FileWord'
      /\ source'["host"] = IF "host" \in g.set THEN n ELSE source["host"]
  <2>1. Overlay(g, n) /\ n = Len(seen) + 1 /\ n \in 1..3
        BY <1>1, <1>4 DEF g, n
  <2>2. QED
        BY <2>1, <1>2, <1>3, <1>4, <1>5, <1>8, Overlaid
<1>10. CTypeOK'
  <2>1. fromProject' \in BOOLEAN /\ warned' \subseteq Project
        BY <1>1, <1>2, <1>4, <1>7 DEF CTypeOK
  <2>2. Len(seen') <= 3
        BY <1>3, <1>4
  <2>3. QED
        BY <2>1, <2>2, <1>2, <1>3, <1>9 DEF CTypeOK
<1>11. FilesOnly'
  <2>1. "host" \in g.set <=> Trusted /\ "host" \in f.set
        BY <1>6, KeysAssumption
  <2>2. source["host"] \in Project <=> fromProject
        BY <1>2 DEF FilesOnly
  <2>3. source'["host"] \in Project <=> fromProject'
        BY <2>1, <2>2, <1>1, <1>4, <1>9
  <2>4. QED
        BY <2>3, <1>2, <1>9 DEF FilesOnly
<1>12. Heard'
  <2> SUFFICES ASSUME NEW m \in Project \cap 1..Len(seen'), NEW k \in Keys,
                      k \in seen'[m].set, ~ GivenBy(seen', options', m, k)
               PROVE  m \in warned'
      BY DEF Heard, Gives
  <2>1. m \in Layers
        BY DEF Project, Layers
  <2>2. CASE m = n
    <3>1. k \in f.set /\ k \notin g.set
          BY <2>1, <2>2, <1>3, <1>8
    <3>2. ~ Trusted /\ k \in Control
          BY <3>1, <1>6
    <3>3. QED
          BY <2>2, <3>1, <3>2, <1>1
  <2>3. CASE m # n
    <3>1. m \in 1..Len(seen) /\ seen'[m] = seen[m]
          BY <2>3, <1>2, <1>3 DEF n
    <3>2. ~ Gives(m, k)
          BY <2>1, <1>8
    <3>3. m \in warned
          BY <3>1, <3>2 DEF CInv, Heard
    <3>4. QED
          BY <3>3, <1>1
  <2>4. QED
        BY <2>2, <2>3
<1>13. CopyBackFollowsHost'
      BY <1>2 DEF CopyBackFollowsHost
<1>14. QED
      BY <1>9, <1>10, <1>11, <1>12, <1>13 DEF CInv

\* The options beat the files, and the copy-back decision looks at both.
LEMMA MergeOptionsCInv == CInv /\ MergeOptions => CInv'
<1> SUFFICES ASSUME CInv, MergeOptions PROVE CInv'
    OBVIOUS
<1>1. PICK o \in Options, ok \in BOOLEAN :
        LET given == o.env \/ "host" \in o.before \cup o.after
            project == fromProject /\ ~ given
        IN  /\ options' = o
            /\ source' = [k \in Scalars |->
                 CASE k \in o.after -> After
                   [] k \in o.before \ o.after -> Before
                   [] k \notin o.before \cup o.after ->
                        IF k = "host" /\ o.env THEN EnvVar ELSE source[k]]
            /\ items' = [k \in Lists |->
                 Add(Add(items[k], Before, k \in o.before), After, k \in o.after)]
            /\ fromProject' = project
            /\ copyBack' = CopyDecision(o, project)
            /\ cpc' = IF ok /\ source'["host"] # 0 THEN "settled" ELSE "failed"
      BY DEF MergeOptions
<1>2. /\ CTypeOK /\ FilesOnly /\ ScalarsWin /\ ListsGather /\ Heard
      /\ cpc = "read" /\ options = NoOptions /\ o \in OptionSets
      /\ UNCHANGED <<warned, seen>>
      BY OptionsAssumption DEF MergeOptions, CInv, FilesOnly
<1>3. \A m \in Layers, k \in Keys :
        GivenBy(seen', options', m, k) <=>
          \/ Gives(m, k)
          \/ m = EnvVar /\ k = "host" /\ o.env
          \/ m = Before /\ k \in o.before
          \/ m = After /\ k \in o.after
      BY <1>1, <1>2 DEF Gives, GivenBy, NoOptions
<1>4. \A k : \A m \in Layers : Gives(m, k) => m <= 3
  <2>1. Len(seen) \in Nat /\ Len(seen) <= 3
        BY <1>2 DEF CTypeOK
  <2>2. QED
        BY <2>1, <1>2, FilesGive
<1>5. source' \in [Scalars -> 0..6]
      BY <1>1, <1>2 DEF CTypeOK, EnvVar, Before, After
<1>6. ScalarsWin'
  <2> SUFFICES ASSUME NEW k \in Scalars
               PROVE  /\ source'[k] # 0 => GivenBy(seen', options', source'[k], k)
                      /\ \A m \in Layers : GivenBy(seen', options', m, k) => m <= source'[k]
      BY DEF ScalarsWin, Gives
  <2>1. /\ k \in Keys /\ source[k] \in 0..6
        /\ source[k] # 0 => Gives(source[k], k)
        /\ \A m \in Layers : Gives(m, k) => m <= source[k]
        BY <1>2 DEF Keys, CTypeOK, ScalarsWin
  <2>2. CASE k \in o.after
    <3>1. source'[k] = After
          BY <2>2, <1>1
    <3>2. QED
          BY <3>1, <2>1, <2>2, <1>3, <1>4 DEF After, Layers
  <2>3. CASE k \in o.before \ o.after
    <3>1. source'[k] = Before
          BY <2>3, <1>1
    <3>2. QED
          BY <3>1, <2>1, <2>3, <1>3, <1>4 DEF EnvVar, Before, After, Layers
  <2>4. CASE k \notin o.before \cup o.after /\ k = "host" /\ o.env
    <3>1. source'[k] = EnvVar
          BY <2>4, <1>1
    <3>2. QED
          BY <3>1, <2>1, <2>4, <1>3, <1>4 DEF EnvVar, Layers
  <2>5. CASE k \notin o.before \cup o.after /\ ~ (k = "host" /\ o.env)
    <3>1. source'[k] = source[k]
          BY <2>5, <1>1
    <3>2. \A m \in Layers : GivenBy(seen', options', m, k) <=> Gives(m, k)
          BY <2>1, <2>5, <1>3
    <3>3. source[k] # 0 => source[k] \in Layers
          BY <2>1 DEF Layers
    <3>4. QED
          BY <3>1, <3>2, <3>3, <2>1
  <2>6. QED
        BY <2>2, <2>3, <2>4, <2>5
<1>7. items' \in [Lists -> Seq(Layers)] /\ ListsGather'
  <2>1. ASSUME NEW k \in Lists
        PROVE  /\ items'[k] \in Seq(Layers) /\ InOrder(items'[k])
               /\ \A m \in Layers : Holds(items'[k], m) <=> GivenBy(seen', options', m, k)
    <3> DEFINE mid == Add(items[k], Before, k \in o.before)
    <3>1. /\ items[k] \in Seq(Layers) /\ InOrder(items[k]) /\ k \in Keys /\ k # "host"
          /\ \A m \in Layers : Holds(items[k], m) <=> Gives(m, k)
          BY <1>2, KeysAssumption DEF CTypeOK, ListsGather, Keys
    <3>2. Before \in Layers /\ After \in Layers /\ Before = 5 /\ After = 6 /\ Layers = 1..6
          BY DEF Before, After, Layers
    <3>3. \A i \in 1..Len(items[k]) : items[k][i] \in Layers /\ items[k][i] < 5
          BY <3>1, <3>2, <1>4 DEF Holds
    <3>4. /\ mid \in Seq(Layers) /\ InOrder(mid)
          /\ \A m : Holds(mid, m) <=> Holds(items[k], m) \/ (m = Before /\ k \in o.before)
      <4>1. CASE k \in o.before
        <5>1. mid = Append(items[k], Before)
              BY <4>1 DEF Add
        <5> HIDE DEF mid
        <5>2. \A i \in 1..Len(items[k]) : items[k][i] < Before
              BY <3>2, <3>3
        <5>3. /\ mid \in Seq(Layers) /\ InOrder(mid)
              /\ \A m : Holds(mid, m) <=> Holds(items[k], m) \/ m = Before
              BY <3>1, <3>2, <5>1, <5>2, AddLayer
        <5>4. QED
              BY <4>1, <5>3
      <4>2. CASE k \notin o.before
        <5>1. mid = items[k]
              BY <4>2 DEF Add
        <5> HIDE DEF mid
        <5>2. QED
              BY <4>2, <5>1, <3>1
      <4>3. QED
            BY <4>1, <4>2
    <3>5. items'[k] = Add(mid, After, k \in o.after)
          BY <1>1
    <3> HIDE DEF mid
    <3>6. \A i \in 1..Len(mid) : mid[i] < After
      <4> SUFFICES ASSUME NEW i \in 1..Len(mid) PROVE mid[i] < After
          OBVIOUS
      <4>1. Holds(mid, mid[i])
            BY DEF Holds
      <4>2. Holds(items[k], mid[i]) \/ mid[i] = Before
            BY <4>1, <3>4
      <4>3. Holds(items[k], mid[i]) => mid[i] \in Layers /\ mid[i] < 5
            BY <3>3 DEF Holds
      <4>4. QED
            BY <4>2, <4>3, <3>2
    <3>7. /\ items'[k] \in Seq(Layers) /\ InOrder(items'[k])
          /\ \A m : Holds(items'[k], m) <=> Holds(mid, m) \/ (m = After /\ k \in o.after)
      <4>1. CASE k \in o.after
        <5>1. items'[k] = Append(mid, After)
              BY <4>1, <3>5 DEF Add
        <5>2. /\ items'[k] \in Seq(Layers) /\ InOrder(items'[k])
              /\ \A m : Holds(items'[k], m) <=> Holds(mid, m) \/ m = After
              BY <3>2, <3>4, <3>6, <5>1, AddLayer
        <5>3. QED
              BY <4>1, <5>2
      <4>2. CASE k \notin o.after
        <5>1. items'[k] = mid
              BY <4>2, <3>5 DEF Add
        <5>2. QED
              BY <4>2, <5>1, <3>4
      <4>3. QED
            BY <4>1, <4>2
    <3>8. QED
          BY <3>1, <3>4, <3>7, <1>3
  <2>2. items' \in [Lists -> Seq(Layers)]
        BY <2>1, <1>1
  <2>3. QED
        BY <2>1, <2>2 DEF ListsGather, Gives
<1>8. Heard'
  <2> SUFFICES ASSUME NEW m \in Project \cap 1..Len(seen), NEW k \in Keys,
                      k \in seen[m].set, ~ GivenBy(seen', options', m, k)
               PROVE  m \in warned
      BY <1>2 DEF Heard, Gives
  <2>1. ~ Gives(m, k)
        BY <1>3 DEF Project, Layers
  <2>2. QED
        BY <2>1, <1>2 DEF Heard
<1>9. /\ fromProject' \in BOOLEAN /\ copyBack' \in CopyWords /\ cpc' \in {"settled", "failed"}
  <2>1. copyBack' \in CopyWords
        BY <1>1, <1>2 DEF CTypeOK, CopyDecision, CopyOption, CopyWords, OptionSets
  <2>2. fromProject' \in BOOLEAN /\ cpc' \in {"settled", "failed"}
        BY <1>1, <1>2 DEF CTypeOK, OptionSets
  <2>3. QED
        BY <2>1, <2>2
<1>10. CTypeOK'
      BY <1>1, <1>2, <1>5, <1>7, <1>9 DEF CTypeOK
<1>11. CopyBackFollowsHost'
  <2> DEFINE c == source["copy_back"]
             project == fromProject /\ ~ (o.env \/ "host" \in o.before \cup o.after)
             saying == {n \in Layers : SaidBy(seen', options', n) # "none"}
  <2>1. /\ "host" \in Scalars /\ "copy_back" \in Scalars /\ "copy_back" \in Keys
        /\ "copy_back" \notin o.before /\ "copy_back" \notin o.after
        /\ Len(seen) = 3 /\ seen' = seen
        BY <1>2, KeysAssumption DEF OptionSets, Keys, MergeOptions
  <2>2. source'["host"] \in Project <=> project
        BY <2>1, <1>1, <1>2 DEF FilesOnly, Project, EnvVar, Before, After
  <2>3. \A n \in 1..3 : GivenBy(seen', options', n, "copy_back") <=> Gives(n, "copy_back")
        BY <2>1, <1>3 DEF Layers, EnvVar, Before, After
  <2>4. /\ SaidBy(seen', options', 6) = o.copyAfter /\ SaidBy(seen', options', 5) = o.copyBefore /\ SaidBy(seen', options', 4) = "none"
        /\ \A n \in 1..3 : SaidBy(seen', options', n) = IF Gives(n, "copy_back") THEN seen[n].copyBack ELSE "none"
    <3>1. SaidBy(seen', options', 6) = o.copyAfter
          BY <1>1 DEF SaidBy, Before, After
    <3>2. SaidBy(seen', options', 5) = o.copyBefore
          BY <1>1 DEF SaidBy, Before, After
    <3>3. SaidBy(seen', options', 4) = "none"
      <4>1. 4 # After /\ 4 # Before
            BY DEF Before, After
      <4>2. Len(seen') = 3
            BY <2>1
      <4>3. 4 \notin 1..Len(seen')
            BY <4>2
      <4>4. QED
            BY <4>1, <4>3 DEF SaidBy
    <3>4. ASSUME NEW n \in 1..3
          PROVE  SaidBy(seen', options', n)
                   = IF Gives(n, "copy_back") THEN seen[n].copyBack ELSE "none"
      <4>1. n # After /\ n # Before /\ n \in 1..Len(seen')
            BY <2>1 DEF Before, After
      <4>2. GivenBy(seen', options', n, "copy_back") <=> Gives(n, "copy_back")
            BY <2>3
      <4>3. QED
            BY <2>1, <4>1, <4>2 DEF SaidBy
    <3>5. QED
          BY <3>1, <3>2, <3>3, <3>4
  <2>5. \A n \in 1..3 : seen[n].copyBack \in {"on", "off"}
    <3>1. \A n \in 1..3 : seen[n] \in Files
      <4>1. seen \in Seq(Files) /\ 1..Len(seen) = 1..3
            BY <2>1, <1>2 DEF CTypeOK
      <4>2. QED
            BY <4>1
    <3>2. QED
          BY <3>1 DEF Files
  <2>6. /\ c \in 0..6 /\ (c # 0 => c \in 1..3 /\ Gives(c, "copy_back"))
        /\ \A n \in 1..3 : Gives(n, "copy_back") => n <= c
        BY <2>1, <1>2, <1>4 DEF CTypeOK, ScalarsWin, Layers
  <2>7. copyBack = IF c = 0 THEN "none" ELSE seen[c].copyBack
        BY <1>2 DEF FilesOnly, FileWord
  <2>8. copyBack' = IF CopyOption(o) # "none" THEN CopyOption(o)
                    ELSE IF copyBack # "none" THEN copyBack
                    ELSE IF project THEN "off" ELSE "on"
        BY <1>1 DEF CopyDecision
  <2>9. ASSUME "never" \notin {o.copyBefore, o.copyAfter}, NEW n \in Layers,
               n \in saying, \A m \in saying : m <= n
        PROVE  copyBack' = SaidBy(seen', options', n)
    <3>1. 6 \in Layers /\ 5 \in Layers /\ n \in 1..6
          BY DEF Layers
    <3>2. CASE o.copyAfter # "none"
          BY <2>4, <2>8, <2>9, <3>1, <3>2 DEF CopyOption
    <3>3. CASE o.copyAfter = "none" /\ o.copyBefore # "none"
          BY <2>4, <2>8, <2>9, <3>1, <3>3 DEF CopyOption
    <3>4. CASE o.copyAfter = "none" /\ o.copyBefore = "none"
      <4>1. n \in 1..3 /\ Gives(n, "copy_back")
            BY <2>4, <2>9, <3>1, <3>4
      <4>2. c \in 1..3 /\ Gives(c, "copy_back") /\ n <= c
            BY <2>6, <4>1
      <4>3. c \in Layers /\ c \in saying
            BY <2>4, <2>5, <4>2 DEF Layers
      <4>4. n = c
            BY <2>9, <3>1, <4>2, <4>3
      <4>5. copyBack = SaidBy(seen', options', n) /\ copyBack # "none"
            BY <2>4, <2>5, <2>7, <4>1, <4>4
      <4>6. QED
            BY <2>8, <3>4, <4>5 DEF CopyOption
    <3>5. QED
          BY <3>2, <3>3, <3>4
  <2>10. ASSUME saying = {} PROVE copyBack' = IF project THEN "off" ELSE "on"
    <3>1. o.copyAfter = "none" /\ o.copyBefore = "none"
          BY <2>4, <2>10 DEF Layers
    <3>2. c = 0
          BY <2>4, <2>5, <2>6, <2>10 DEF Layers
    <3>3. QED
          BY <2>7, <2>8, <3>1, <3>2 DEF CopyOption
  <2>11. "never" \in {o.copyBefore, o.copyAfter} => copyBack' = "off"
         BY <2>8 DEF CopyOption
  <2>12. options' = o /\ saying = {n \in Layers : SaidBy(seen', options', n) # "none"}
         BY <1>1
  <2> HIDE DEF saying, project
  <2>13. QED
         BY <2>2, <2>9, <2>10, <2>11, <2>12 DEF CopyBackFollowsHost
<1>12. FilesOnly'
      BY <1>9 DEF FilesOnly
<1>13. QED
      BY <1>6, <1>7, <1>8, <1>10, <1>11, <1>12 DEF CInv

\* Each file and the options keep the invariant of the settings.
LEMMA ConfigureCInv == CInv /\ CNext => CInv'
<1>1. CInv /\ BadFile => CInv'
      BY DEF CInv, BadFile, CTypeOK, FilesOnly, ScalarsWin, ListsGather, Heard,
             CopyBackFollowsHost, FileWord, Gives
<1>2. QED
      BY <1>1, ReadGlobalCInv, ReadProjectCInv, MergeOptionsCInv DEF CNext

\* Forgotten settings are as good as none read yet.
LEMMA HaveSettingsCInv == CInv /\ HaveSettings => CInv'
<1> SUFFICES ASSUME HaveSettings PROVE CInv'
    OBVIOUS
<1>1. CTypeOK'
  <2>1. NoOptions \in OptionSets
        BY DEF NoOptions, OptionSets, CopyWords
  <2>2. items' \in [Lists -> Seq(Layers)] /\ seen' \in Seq(Files) /\ Len(seen') <= 3
        BY DEF HaveSettings
  <2>3. source' \in [Scalars -> 0..6]
        BY DEF HaveSettings
  <2>4. QED
        BY <2>1, <2>2, <2>3 DEF HaveSettings, CTypeOK, CopyWords
<1>2. \A n, k : ~ GivenBy(seen', options', n, k)
  <2>1. Len(seen') = 0
        BY DEF HaveSettings
  <2>2. ~ options'.env /\ options'.before = {} /\ options'.after = {}
        BY DEF HaveSettings, NoOptions
  <2>3. QED
        BY <2>1, <2>2 DEF GivenBy
<1>3. ScalarsWin' /\ ListsGather' /\ Heard' /\ CopyBackFollowsHost' /\ FilesOnly'
      BY <1>2 DEF HaveSettings, ScalarsWin, ListsGather, Holds, InOrder, Heard,
                  CopyBackFollowsHost, FilesOnly, FileWord, Project, Gives
<1>4. QED
      BY <1>1, <1>3 DEF CInv

-----------------------------------------------------------------------------
(* Counting.                                                                *)

\* Induction over the naturals, of a set of them.
LEMMA SetInduction ==
  ASSUME NEW S, 0 \in S, \A n \in Nat : n \in S => n + 1 \in S
  PROVE  Nat \subseteq S
<1> DEFINE T == Nat \ S
           R == {xy \in Nat \X Nat : xy[1] < xy[2]}
<1> SUFFICES ASSUME T # {} PROVE FALSE
    OBVIOUS
<1>1. IsWellFoundedOn(R, Nat)
      BY NatLessThanWellFounded, Zenon DEF OpToRel
<1>2. T \subseteq Nat
      OBVIOUS
<1>3. PICK n \in T : \A m \in T : ~ (<<m, n>> \in R)
  <2> HIDE DEF R, T
  <2> QED
      BY <1>1, <1>2, WFMin
<1>4. n # 0 /\ n - 1 \in Nat
      OBVIOUS
<1>5. n - 1 \in S
  <2>1. <<n - 1, n>> \in R
        BY <1>4
  <2>2. QED
        BY <1>3, <1>4, <2>1
<1>6. QED
      BY <1>4, <1>5

\* A set of naturals has a least one.
LEMMA LeastOf ==
  ASSUME NEW n \in Nat, NEW S \in SUBSET (1..n), S # {}
  PROVE  \E k \in S : \A l \in S : k <= l
<1> DEFINE T == {m \in Nat : \A l \in S : m <= l}
<1> SUFFICES ASSUME \A k \in S : ~ \A l \in S : k <= l PROVE FALSE
    OBVIOUS
<1>1. 0 \in T
      OBVIOUS
<1>2. ASSUME NEW m \in Nat, m \in T PROVE m + 1 \in T
  <2>1. m \notin S
        BY <1>2
  <2>2. \A l \in S : m <= l /\ m # l /\ l \in Nat
        BY <1>2, <2>1
  <2>3. QED
        BY <2>2
<1> HIDE DEF T
<1>3. Nat \subseteq T
      BY <1>1, <1>2, SetInduction
<1>4. PICK l \in S : l \in 1..n
      OBVIOUS
<1>5. l + 1 \in T
      BY <1>3, <1>4
<1>6. l + 1 <= l
      BY <1>5 DEF T
<1>7. QED
      BY <1>4, <1>6

-----------------------------------------------------------------------------
(* What it means that a pattern fits.                                       *)

\* Behind the pattern only the end of the name fits.
LEMMA FitsEnd ==
  ASSUME NEW pat \in Seq(STRING), NEW name \in Seq(STRING), NEW j \in 1..(Len(name) + 1)
  PROVE  FitsFrom(pat, name, Len(pat) + 1, j) <=> j = Len(name) + 1
<1> DEFINE P == Len(pat)  L == Len(name)
<1>1. P \in Nat /\ L \in Nat
      OBVIOUS
<1>2. ASSUME FitsFrom(pat, name, P + 1, j) PROVE j = L + 1
      BY <1>1, <1>2 DEF FitsFrom
<1>3. ASSUME j = L + 1 PROVE FitsFrom(pat, name, P + 1, j)
  <2> DEFINE cut == [k \in (P + 1)..(P + 1) |-> j]
  <2>1. cut \in [(P + 1)..(P + 1) -> j..(L + 1)] /\ cut[P + 1] = j
        BY <1>1
  <2>2. \A k \in (P + 1)..P : FALSE
        BY <1>1
  <2> HIDE DEF cut
  <2>3. QED
        BY <2>1, <2>2, <1>3 DEF FitsFrom
<1>4. QED
      BY <1>2, <1>3

\* What the first part of a pattern may have, and then the rest.
Takes(pat, name, i, j, l) ==
  IF pat[i] = Star THEN j <= l ELSE l = j + 1 /\ pat[i] \in {AnyChar, name[j]}

\* A pattern fits by what its first part takes, if the rest fits what is left.
LEMMA FitsStep ==
  ASSUME NEW pat \in Seq(STRING), NEW name \in Seq(STRING), NEW i \in 1..Len(pat),
         NEW j \in 1..(Len(name) + 1)
  PROVE  FitsFrom(pat, name, i, j) <=>
           \E l \in j..(Len(name) + 1) : Takes(pat, name, i, j, l) /\ FitsFrom(pat, name, i + 1, l)
<1> DEFINE P == Len(pat)  L == Len(name)
           Cuts(c, a) == \A k \in a..P : Takes(pat, name, k, c[k], c[k + 1])
<1>1. P \in Nat /\ L \in Nat /\ i \in Nat /\ j \in Nat /\ i <= P
      OBVIOUS
<1>2. \A a, b : FitsFrom(pat, name, a, b) <=>
        \E c \in [a..(P + 1) -> b..(L + 1)] : c[a] = b /\ c[P + 1] = L + 1 /\ Cuts(c, a)
      BY DEF FitsFrom, Takes
<1>3. ASSUME FitsFrom(pat, name, i, j)
      PROVE  \E l \in j..(L + 1) : Takes(pat, name, i, j, l) /\ FitsFrom(pat, name, i + 1, l)
  <2> HIDE DEF Cuts, P, L
  <2>1. PICK c \in [i..(P + 1) -> j..(L + 1)] : c[i] = j /\ c[P + 1] = L + 1 /\ Cuts(c, i)
        BY <1>2, <1>3
  <2> DEFINE l == c[i + 1]
  <2>2. i \in i..P /\ i + 1 \in i..(P + 1) /\ l \in j..(L + 1)
        BY <1>1, <2>1
  <2>3. Takes(pat, name, i, j, l)
        BY <2>1, <2>2 DEF Cuts
  <2>4. \A k \in (i + 1)..(P + 1) : c[k] >= l
    <3> DEFINE S == {n \in Nat : i + 1 + n <= P + 1 => c[i + 1 + n] >= l}
    <3>1. 0 \in S
          BY <1>1, <2>2
    <3>2. ASSUME NEW n \in Nat, n \in S PROVE n + 1 \in S
      <4> SUFFICES ASSUME i + 1 + (n + 1) <= P + 1 PROVE c[i + 1 + (n + 1)] >= l
          BY <1>1
      <4> DEFINE k == i + 1 + n
      <4>1. k \in i..P /\ k \in i..(P + 1) /\ k + 1 \in i..(P + 1) /\ i + 1 + (n + 1) = k + 1
            BY <1>1
      <4>2. c[k] >= l
            BY <3>2, <1>1, <4>1
      <4>3. c[k] \in Nat /\ c[k + 1] \in Nat /\ l \in Nat
            BY <2>1, <2>2, <4>1, <1>1
      <4> HIDE DEF k, l
      <4>4. Takes(pat, name, k, c[k], c[k + 1])
            BY <2>1, <4>1 DEF Cuts
      <4>5. c[k + 1] >= c[k]
            BY <4>3, <4>4 DEF Takes
      <4>6. QED
            BY <4>1, <4>2, <4>3, <4>5
    <3> HIDE DEF S
    <3>3. Nat \subseteq S
          BY <3>1, <3>2, SetInduction
    <3>4. ASSUME NEW k \in (i + 1)..(P + 1) PROVE c[k] >= l
      <4>1. k - (i + 1) \in S /\ i + 1 + (k - (i + 1)) = k /\ k <= P + 1
            BY <3>3, <1>1
      <4>2. QED
            BY <4>1 DEF S
    <3>5. QED
          BY <3>4
  <2> DEFINE d == [k \in (i + 1)..(P + 1) |-> c[k]]
  <2>5. \A k \in (i + 1)..(P + 1) : k \in i..(P + 1) /\ c[k] \in l..(L + 1)
        BY <1>1, <2>1, <2>2, <2>4
  <2>6. d \in [(i + 1)..(P + 1) -> l..(L + 1)] /\ d[i + 1] = l /\ d[P + 1] = L + 1
        BY <1>1, <2>1, <2>2, <2>5
  <2>7. Cuts(d, i + 1)
    <3>1. ASSUME NEW k \in (i + 1)..P PROVE Takes(pat, name, k, d[k], d[k + 1])
      <4>1. k \in i..P /\ k \in (i + 1)..(P + 1) /\ k + 1 \in (i + 1)..(P + 1)
            BY <1>1
      <4>2. d[k] = c[k] /\ d[k + 1] = c[k + 1]
            BY <4>1
      <4>3. QED
            BY <2>1, <4>1, <4>2 DEF Cuts
    <3>2. QED
          BY <3>1 DEF Cuts
  <2> HIDE DEF d
  <2>8. FitsFrom(pat, name, i + 1, l)
        BY <1>2, <2>6, <2>7
  <2>9. QED
        BY <2>2, <2>3, <2>8
<1>4. ASSUME NEW l \in j..(L + 1), Takes(pat, name, i, j, l), FitsFrom(pat, name, i + 1, l)
      PROVE  FitsFrom(pat, name, i, j)
  <2> HIDE DEF Cuts, P, L
  <2>1. PICK c \in [(i + 1)..(P + 1) -> l..(L + 1)] :
          c[i + 1] = l /\ c[P + 1] = L + 1 /\ Cuts(c, i + 1)
        BY <1>2, <1>4
  <2> DEFINE d == [k \in i..(P + 1) |-> IF k = i THEN j ELSE c[k]]
  <2>2. \A k \in i..(P + 1) : k = i \/ k \in (i + 1)..(P + 1)
        BY <1>1
  <2>3. i \in i..(P + 1) /\ P + 1 \in (i + 1)..(P + 1) /\ j \in j..(L + 1) /\ i # P + 1
        BY <1>1 DEF P, L
  <2>4. \A k \in (i + 1)..(P + 1) : c[k] \in j..(L + 1)
        BY <2>1, <1>1
  <2>5. d \in [i..(P + 1) -> j..(L + 1)] /\ d[i] = j /\ d[P + 1] = L + 1
        BY <2>1, <2>2, <2>3, <2>4
  <2>6. Cuts(d, i)
    <3>1. ASSUME NEW k \in i..P PROVE Takes(pat, name, k, d[k], d[k + 1])
      <4>1. k \in i..(P + 1) /\ k + 1 \in i..(P + 1) /\ k + 1 # i /\ d[k + 1] = c[k + 1]
            BY <1>1
      <4>2. CASE k = i
            BY <4>1, <4>2, <2>1, <1>4
      <4>3. CASE k # i
        <5>1. k \in (i + 1)..P /\ d[k] = c[k]
              BY <4>3, <4>1, <1>1
        <5>2. QED
              BY <5>1, <4>1, <2>1 DEF Cuts
      <4>4. QED
            BY <4>2, <4>3
    <3>2. QED
          BY <3>1 DEF Cuts
  <2> HIDE DEF d
  <2>7. QED
        BY <1>2, <2>5, <2>6
<1>5. QED
      BY <1>3, <1>4

\* A part of a pattern without a * takes one character each.
LEMMA FitsPlain ==
  ASSUME NEW pat \in Seq(STRING), NEW name \in Seq(STRING),
         NEW a \in 1..(Len(pat) + 1), NEW i \in a..(Len(pat) + 1),
         \A k \in a..(i - 1) : pat[k] # Star,
         NEW j \in 1..(Len(name) + 1), FitsFrom(pat, name, a, j)
  PROVE  /\ j + (i - a) <= Len(name) + 1
         /\ FitsFrom(pat, name, i, j + (i - a))
<1> DEFINE P == Len(pat)  L == Len(name)
           S == {n \in Nat : a + n <= i => j + n <= L + 1 /\ FitsFrom(pat, name, a + n, j + n)}
<1>1. P \in Nat /\ L \in Nat /\ a \in Nat /\ i \in Nat /\ j \in Nat /\ i <= P + 1 /\ a <= i
      OBVIOUS
<1>2. 0 \in S
      OBVIOUS
<1>3. ASSUME NEW n \in Nat, n \in S PROVE n + 1 \in S
  <2> SUFFICES ASSUME a + (n + 1) <= i
               PROVE  j + (n + 1) <= L + 1 /\ FitsFrom(pat, name, a + (n + 1), j + (n + 1))
      BY <1>1
  <2>1. j + n \in 1..(L + 1) /\ FitsFrom(pat, name, a + n, j + n)
        BY <1>1, <1>3
  <2>2. a + n \in 1..P /\ a + n \in a..(i - 1)
        BY <1>1
  <2>3. PICK l \in (j + n)..(L + 1) :
          Takes(pat, name, a + n, j + n, l) /\ FitsFrom(pat, name, (a + n) + 1, l)
        BY <2>1, <2>2, FitsStep
  <2>4. l = (j + n) + 1
        BY <2>2, <2>3 DEF Takes
  <2>5. (j + n) + 1 = j + (n + 1) /\ (a + n) + 1 = a + (n + 1)
        BY <1>1
  <2>6. QED
        BY <2>3, <2>4, <2>5, <1>1
<1> HIDE DEF S
<1>4. Nat \subseteq S
      BY <1>2, <1>3, SetInduction
<1>5. i - a \in Nat /\ a + (i - a) = i
      BY <1>1
<1>6. QED
      BY <1>4, <1>5 DEF S

\* Only a * fits nothing.
LEMMA FitsNothing ==
  ASSUME NEW pat \in Seq(STRING), NEW name \in Seq(STRING), NEW i \in 1..(Len(pat) + 1)
  PROVE  FitsFrom(pat, name, i, Len(name) + 1) <=> \A k \in i..Len(pat) : pat[k] = Star
<1> DEFINE P == Len(pat)  L == Len(name)
           Good(a) == FitsFrom(pat, name, a, L + 1) <=> \A k \in a..P : pat[k] = Star
           S == {n \in Nat : n <= P => Good(P + 1 - n)}
<1>1. P \in Nat /\ L \in Nat
      OBVIOUS
<1>2. 0 \in S
  <2>1. FitsFrom(pat, name, P + 1, L + 1)
        BY <1>1, FitsEnd
  <2>2. P + 1 - 0 = P + 1 /\ \A k \in (P + 1)..P : FALSE
        BY <1>1
  <2>3. QED
        BY <2>1, <2>2
<1>3. ASSUME NEW n \in Nat, n \in S PROVE n + 1 \in S
  <2> SUFFICES ASSUME n + 1 <= P PROVE Good(P + 1 - (n + 1))
      BY <1>1
  <2> DEFINE a == P - n
  <2>1. a \in 1..P /\ P + 1 - (n + 1) = a /\ P + 1 - n = a + 1 /\ L + 1 \in 1..(L + 1)
        BY <1>1
  <2>2. Good(a + 1)
        BY <1>3, <2>1, <1>1
  <2> HIDE DEF a
  <2>3. FitsFrom(pat, name, a, L + 1) <=>
          \E l \in (L + 1)..(L + 1) : Takes(pat, name, a, L + 1, l) /\ FitsFrom(pat, name, a + 1, l)
        BY <2>1, FitsStep
  <2>4. \A l \in (L + 1)..(L + 1) : l = L + 1
        BY <1>1
  <2>5. FitsFrom(pat, name, a, L + 1) <=> pat[a] = Star /\ FitsFrom(pat, name, a + 1, L + 1)
        BY <2>3, <2>4, <1>1 DEF Takes
  <2>6. (\A k \in a..P : pat[k] = Star) <=> pat[a] = Star /\ \A k \in (a + 1)..P : pat[k] = Star
    <3>1. \A k \in a..P : k = a \/ k \in (a + 1)..P
          BY <1>1, <2>1
    <3>2. a \in a..P /\ \A k \in (a + 1)..P : k \in a..P
          BY <1>1, <2>1
    <3>3. QED
          BY <3>1, <3>2
  <2>7. QED
        BY <2>1, <2>2, <2>5, <2>6
<1> HIDE DEF S
<1>4. P + 1 - i \in Nat /\ P + 1 - i <= P /\ P + 1 - (P + 1 - i) = i
      BY <1>1
<1>5. P + 1 - i \in S
      BY <1>2, <1>3, <1>4, SetInduction
<1>6. QED
      BY <1>4, <1>5 DEF S

-----------------------------------------------------------------------------
(* The loop of glob_match.                                                  *)

\* What the loop keeps: between the last * and where it is the pattern has no *, and
\* has taken a character for each of its own; the name fits if the rest of it does,
\* or if it does with a longer piece for that *.
GlobInv(pat, name, at) ==
  /\ at \in [i : 1..(Len(pat) + 1), j : 1..(Len(name) + 1), star : 0..Len(pat),
             from : 1..(Len(name) + 1)]
  /\ at.from <= at.j
  /\ at.star > 0 => /\ at.star < at.i /\ at.i - (at.star + 1) = at.j - at.from
                    /\ \A k \in (at.star + 1)..(at.i - 1) : pat[k] # Star
  /\ Fits(pat, name) <=>
       \/ FitsFrom(pat, name, at.i, at.j)
       \/ at.star > 0 /\ \E k \in (at.from + 1)..(Len(name) + 1) :
                           FitsFrom(pat, name, at.star + 1, k)

\* A longer piece for the last * leaves less of the name for the pattern.
LEMMA LongerPiece ==
  ASSUME NEW pat \in Seq(STRING), NEW name \in Seq(STRING), NEW at, GlobInv(pat, name, at),
         at.star > 0, NEW k \in (at.from + 1)..(Len(name) + 1),
         FitsFrom(pat, name, at.star + 1, k)
  PROVE  \E l \in (at.j + 1)..(Len(name) + 1) : FitsFrom(pat, name, at.i, l)
<1> DEFINE P == Len(pat)  L == Len(name)
<1>1. P \in Nat /\ L \in Nat
      OBVIOUS
<1>2. /\ at.i \in 1..(P + 1) /\ at.j \in 1..(L + 1) /\ at.star \in 0..P /\ at.from \in 1..(L + 1)
      /\ at.star < at.i /\ at.i - (at.star + 1) = at.j - at.from
      /\ \A n \in (at.star + 1)..(at.i - 1) : pat[n] # Star
      BY DEF GlobInv
<1> DEFINE a == at.star + 1  l == k + (at.i - a)
<1>3. a \in 1..(P + 1) /\ at.i \in a..(P + 1) /\ k \in 1..(L + 1)
      BY <1>1, <1>2
<1>4. l <= L + 1 /\ FitsFrom(pat, name, at.i, l)
      BY <1>2, <1>3, FitsPlain
<1>5. l \in (at.j + 1)..(L + 1)
      BY <1>1, <1>2, <1>4
<1>6. QED
      BY <1>4, <1>5

\* The three ways on, and the two ends.
Taken(pat, name, at, to) ==
  /\ at.j <= Len(name) /\ at.i <= Len(pat) /\ pat[at.i] # Star
  /\ pat[at.i] \in {AnyChar, name[at.j]}
  /\ to = [at EXCEPT !.i = @ + 1, !.j = @ + 1]
Opened(pat, name, at, to) ==
  /\ at.j <= Len(name) /\ at.i <= Len(pat) /\ pat[at.i] = Star
  /\ to = [at EXCEPT !.i = @ + 1, !.star = at.i, !.from = at.j]
Failed(pat, name, at) ==
  /\ at.j <= Len(name)
  /\ at.i <= Len(pat) => pat[at.i] # Star /\ pat[at.i] \notin {AnyChar, name[at.j]}
Retried(pat, name, at, to) ==
  /\ Failed(pat, name, at) /\ at.star > 0
  /\ to = [at EXCEPT !.i = at.star + 1, !.j = at.from + 1, !.from = @ + 1]
Ended(pat, name, at, to) ==
  /\ to = at
  /\ at.j = Len(name) + 1 \/ (Failed(pat, name, at) /\ at.star = 0)

\* A turn of the loop is one of them.
LEMMA TurnCases ==
  ASSUME NEW pat \in Seq(STRING), NEW name \in Seq(STRING), \A k \in 1..Len(name) : name[k] # Star,
         NEW at, GlobInv(pat, name, at)
  PROVE  LET to == GlobTurn(pat, name, at)
         IN  \/ Taken(pat, name, at, to) \/ Opened(pat, name, at, to)
             \/ Retried(pat, name, at, to) \/ Ended(pat, name, at, to)
<1> DEFINE to == GlobTurn(pat, name, at)
<1> DEFINE P == Len(pat)  L == Len(name)
           Is(chars) == at.i <= P /\ pat[at.i] \in chars
<1>1. P \in Nat /\ L \in Nat
      OBVIOUS
<1>2. at.i \in 1..(P + 1) /\ at.j \in 1..(L + 1) /\ at.star \in 0..P
      BY DEF GlobInv
<1>3. at.j <= L => name[at.j] # Star
      BY <1>1, <1>2
<1> HIDE DEF to
<1>4. to = IF at.j > L THEN at
           ELSE IF Is({AnyChar, name[at.j]}) THEN [at EXCEPT !.i = @ + 1, !.j = @ + 1]
           ELSE IF Is({Star}) THEN [at EXCEPT !.i = @ + 1, !.star = at.i, !.from = at.j]
           ELSE IF at.star > 0 THEN [at EXCEPT !.i = at.star + 1, !.j = at.from + 1, !.from = @ + 1]
           ELSE at
      BY DEF GlobTurn, to
<1>5. Is({Star}) <=> at.i <= P /\ pat[at.i] = Star
      OBVIOUS
<1>6. CASE at.j > L
      BY <1>1, <1>2, <1>4, <1>6 DEF Ended, to
<1>7. CASE ~ (at.j > L) /\ Is({AnyChar, name[at.j]})
  <2>1. at.j <= L /\ at.i <= P /\ pat[at.i] \in {AnyChar, name[at.j]}
        BY <1>1, <1>2, <1>7
  <2>2. pat[at.i] # Star
        BY <1>3, <2>1 DEF AnyChar, Star
  <2>3. to = [at EXCEPT !.i = @ + 1, !.j = @ + 1]
        BY <1>4, <1>7
  <2>4. QED
        BY <2>1, <2>2, <2>3 DEF Taken, to
<1>8. CASE ~ (at.j > L) /\ ~ Is({AnyChar, name[at.j]})
  <2>1. at.j <= L /\ (at.i <= P => pat[at.i] \notin {AnyChar, name[at.j]})
        BY <1>1, <1>2, <1>8
  <2> HIDE DEF Is
  <2>2. CASE Is({Star})
        BY <1>4, <1>5, <1>8, <2>1, <2>2 DEF Opened, to
  <2>3. CASE ~ Is({Star}) /\ at.star > 0
        BY <1>4, <1>5, <1>8, <2>1, <2>3 DEF Retried, Failed, to
  <2>4. CASE ~ Is({Star}) /\ ~ (at.star > 0)
    <3>1. to = at /\ at.star = 0
          BY <1>2, <1>4, <1>8, <2>4
    <3>2. QED
          BY <1>5, <2>1, <2>4, <3>1 DEF Ended, Failed, to
  <2>5. QED
        BY <2>2, <2>3, <2>4
<1>9. QED
      BY <1>6, <1>7, <1>8

\* Where the loop fails the rest does not fit.
LEMMA FailedFits ==
  ASSUME NEW pat \in Seq(STRING), NEW name \in Seq(STRING), NEW at,
         at.i \in 1..(Len(pat) + 1), at.j \in 1..(Len(name) + 1), Failed(pat, name, at)
  PROVE  ~ FitsFrom(pat, name, at.i, at.j)
<1>1. Len(pat) \in Nat /\ Len(name) \in Nat
      OBVIOUS
<1>2. CASE at.i <= Len(pat)
  <2>1. PICK i \in 1..Len(pat), j \in 1..(Len(name) + 1) : i = at.i /\ j = at.j
        BY <1>1, <1>2
  <2>2. \A l : ~ Takes(pat, name, i, j, l)
        BY <1>2, <2>1 DEF Takes, Failed
  <2>3. ~ FitsFrom(pat, name, i, j)
        BY <2>2, FitsStep
  <2>4. QED
        BY <2>1, <2>3
<1>3. CASE ~ (at.i <= Len(pat))
  <2>1. at.i = Len(pat) + 1 /\ at.j # Len(name) + 1
        BY <1>1, <1>3 DEF Failed
  <2>2. QED
        BY <2>1, FitsEnd
<1>4. QED
      BY <1>2, <1>3

\* Every turn keeps it.
LEMMA TurnInv ==
  ASSUME NEW pat \in Seq(STRING), NEW name \in Seq(STRING), \A k \in 1..Len(name) : name[k] # Star,
         NEW at, GlobInv(pat, name, at)
  PROVE  GlobInv(pat, name, GlobTurn(pat, name, at))
<1> DEFINE P == Len(pat)  L == Len(name)
           Fit(i, j) == FitsFrom(pat, name, i, j)
           Later(star, from) == \E k \in (from + 1)..(L + 1) : Fit(star + 1, k)
<1>1. P \in Nat /\ L \in Nat
      OBVIOUS
<1>2. /\ at.i \in 1..(P + 1) /\ at.j \in 1..(L + 1) /\ at.star \in 0..P /\ at.from \in 1..(L + 1)
      /\ at.from <= at.j
      /\ at \in [i : 1..(P + 1), j : 1..(L + 1), star : 0..P, from : 1..(L + 1)]
      /\ at.star > 0 => /\ at.star < at.i /\ at.i - (at.star + 1) = at.j - at.from
                        /\ \A k \in (at.star + 1)..(at.i - 1) : pat[k] # Star
      /\ Fits(pat, name) <=> Fit(at.i, at.j) \/ (at.star > 0 /\ Later(at.star, at.from))
      BY DEF GlobInv
<1> DEFINE to == GlobTurn(pat, name, at)
<1>3. to = GlobTurn(pat, name, at)
      OBVIOUS
<1> HIDE DEF to, Fit, Later
<1>4. SUFFICES /\ to \in [i : 1..(P + 1), j : 1..(L + 1), star : 0..P, from : 1..(L + 1)]
               /\ to.from <= to.j
               /\ to.star > 0 => /\ to.star < to.i /\ to.i - (to.star + 1) = to.j - to.from
                                 /\ \A k \in (to.star + 1)..(to.i - 1) : pat[k] # Star
               /\ Fits(pat, name) <=> Fit(to.i, to.j) \/ (to.star > 0 /\ Later(to.star, to.from))
      BY <1>3 DEF GlobInv, Fit, Later
<1>5. at.j <= L /\ at.i <= P =>
        (Fit(at.i, at.j) <=>
           \E l \in at.j..(L + 1) : Takes(pat, name, at.i, at.j, l) /\ Fit(at.i + 1, l))
  <2> SUFFICES ASSUME at.j <= L, at.i <= P
               PROVE  Fit(at.i, at.j) <=>
                        \E l \in at.j..(L + 1) :
                          Takes(pat, name, at.i, at.j, l) /\ Fit(at.i + 1, l)
      OBVIOUS
  <2>1. PICK i \in 1..P, j \in 1..(L + 1) : i = at.i /\ j = at.j
        BY <1>1, <1>2
  <2>2. FitsFrom(pat, name, i, j) <=>
          \E l \in j..(L + 1) : Takes(pat, name, i, j, l) /\ FitsFrom(pat, name, i + 1, l)
        BY FitsStep
  <2>3. QED
        BY <2>1, <2>2 DEF Fit
<1>6. CASE Ended(pat, name, at, to)
      BY <1>2, <1>6 DEF Ended
<1>7. CASE Taken(pat, name, at, to)
  <2>1. Fit(at.i, at.j) <=> Fit(at.i + 1, at.j + 1)
        BY <1>1, <1>2, <1>5, <1>7 DEF Takes, Taken
  <2>2. /\ to.i = at.i + 1 /\ to.j = at.j + 1 /\ to.star = at.star /\ to.from = at.from
        /\ to \in [i : 1..(P + 1), j : 1..(L + 1), star : 0..P, from : 1..(L + 1)]
    <3>1. to = [i |-> at.i + 1, j |-> at.j + 1, star |-> at.star, from |-> at.from]
          BY <1>2, <1>7 DEF Taken
    <3>2. QED
          BY <1>1, <1>2, <1>7, <3>1 DEF Taken
  <2>3. ASSUME to.star > 0, NEW k \in (to.star + 1)..(to.i - 1) PROVE pat[k] # Star
    <3>1. k = at.i \/ k \in (at.star + 1)..(at.i - 1)
          BY <1>1, <1>2, <2>2
    <3>2. QED
          BY <3>1, <1>2, <1>7, <2>2, <2>3 DEF Taken
  <2>4. Fits(pat, name) <=> Fit(to.i, to.j) \/ (to.star > 0 /\ Later(to.star, to.from))
        BY <1>2, <2>1, <2>2
  <2>5. to.from <= to.j /\ (to.star > 0 => to.star < to.i /\ to.i - (to.star + 1) = to.j - to.from)
        BY <1>1, <1>2, <2>2
  <2>6. QED
        BY <2>2, <2>3, <2>4, <2>5
<1>8. CASE Opened(pat, name, at, to)
  <2>1. /\ to.i = at.i + 1 /\ to.j = at.j /\ to.star = at.i /\ to.from = at.j
        /\ to \in [i : 1..(P + 1), j : 1..(L + 1), star : 0..P, from : 1..(L + 1)]
    <3>1. to = [i |-> at.i + 1, j |-> at.j, star |-> at.i, from |-> at.j]
          BY <1>2, <1>8 DEF Opened
    <3>2. QED
          BY <1>1, <1>2, <1>8, <3>1 DEF Opened
  <2>2. Fit(at.i, at.j) <=> \E l \in at.j..(L + 1) : Fit(at.i + 1, l)
        BY <1>1, <1>2, <1>5, <1>8 DEF Takes, Opened
  <2>3. Fit(at.i, at.j) <=> Fit(to.i, to.j) \/ Later(to.star, to.from)
    <3>1. \A l \in at.j..(L + 1) : l = at.j \/ l \in (at.j + 1)..(L + 1)
          BY <1>1, <1>2
    <3>2. at.j \in at.j..(L + 1) /\ \A l \in (at.j + 1)..(L + 1) : l \in at.j..(L + 1)
          BY <1>1, <1>2
    <3>3. QED
          BY <2>1, <2>2, <3>1, <3>2 DEF Later
  <2>4. at.star > 0 /\ Later(at.star, at.from) => Fit(at.i, at.j)
    <3> SUFFICES ASSUME at.star > 0, Later(at.star, at.from) PROVE Fit(at.i, at.j)
        OBVIOUS
    <3>1. PICK k \in (at.from + 1)..(L + 1) : FitsFrom(pat, name, at.star + 1, k)
          BY DEF Later, Fit
    <3>2. PICK l \in (at.j + 1)..(L + 1) : FitsFrom(pat, name, at.i, l)
          BY <3>1, LongerPiece
    <3>3. l \in 1..(L + 1) /\ at.i \in 1..P
          BY <1>1, <1>2, <1>8 DEF Opened
    <3>4. PICK m \in l..(L + 1) : FitsFrom(pat, name, at.i + 1, m)
          BY <3>2, <3>3, FitsStep
    <3>5. m \in at.j..(L + 1)
          BY <1>1, <1>2, <3>2, <3>4
    <3>6. QED
          BY <2>2, <3>4, <3>5 DEF Fit
  <2>5. \A k \in (to.star + 1)..(to.i - 1) : FALSE
        BY <1>1, <1>2, <2>1
  <2>6. Fits(pat, name) <=> Fit(to.i, to.j) \/ (to.star > 0 /\ Later(to.star, to.from))
    <3>1. to.star > 0
          BY <1>2, <2>1
    <3>2. QED
          BY <1>2, <2>3, <2>4, <3>1
  <2>7. to.from <= to.j /\ to.star < to.i /\ to.i - (to.star + 1) = to.j - to.from
        BY <1>1, <1>2, <2>1
  <2>8. QED
        BY <2>1, <2>5, <2>6, <2>7
<1>9. CASE Retried(pat, name, at, to)
  <2>1. /\ to.i = at.star + 1 /\ to.j = at.from + 1 /\ to.star = at.star /\ to.from = at.from + 1
        /\ to \in [i : 1..(P + 1), j : 1..(L + 1), star : 0..P, from : 1..(L + 1)]
    <3>1. to = [i |-> at.star + 1, j |-> at.from + 1, star |-> at.star, from |-> at.from + 1]
          BY <1>2, <1>9 DEF Retried, Failed
    <3>2. QED
          BY <1>1, <1>2, <1>9, <3>1 DEF Retried, Failed
  <2>2. ~ Fit(at.i, at.j)
        BY <1>2, <1>9, FailedFits DEF Fit, Retried
  <2>3. Later(at.star, at.from) <=> Fit(to.i, to.j) \/ Later(to.star, to.from)
    <3>1. \A l \in (at.from + 1)..(L + 1) : l = at.from + 1 \/ l \in (at.from + 1 + 1)..(L + 1)
          BY <1>1, <1>2
    <3>2. /\ at.from + 1 \in (at.from + 1)..(L + 1)
          /\ \A l \in (at.from + 1 + 1)..(L + 1) : l \in (at.from + 1)..(L + 1)
          BY <1>1, <1>2, <1>9 DEF Retried, Failed
    <3>3. QED
          BY <2>1, <3>1, <3>2 DEF Later
  <2>4. \A k \in (to.star + 1)..(to.i - 1) : FALSE
        BY <1>1, <1>2, <2>1
  <2>5. Fits(pat, name) <=> Fit(to.i, to.j) \/ (to.star > 0 /\ Later(to.star, to.from))
        BY <1>2, <1>9, <2>1, <2>2, <2>3 DEF Retried, Failed
  <2>6. to.from <= to.j /\ to.star < to.i /\ to.i - (to.star + 1) = to.j - to.from
        BY <1>1, <1>2, <2>1
  <2>7. QED
        BY <2>1, <2>4, <2>5, <2>6
<1>10. QED
      BY <1>3, <1>6, <1>7, <1>8, <1>9, TurnCases

\* How far the loop can still go: every turn but the last ones brings it nearer.
GlobRank(pat, name, at) ==
  (Len(name) + 1 - at.from) * (Len(pat) + 2) + (Len(pat) + 1 - at.i)

\* What fewer rows hold is no more, and one more row adds its width.
LEMMA Products ==
  ASSUME NEW w \in Nat, NEW a \in Nat, NEW b \in Nat, a <= b
  PROVE  a * w \in Nat /\ a * w <= b * w /\ (a + 1) * w = a * w + w
<1>1. a * w \in Nat /\ (a + 1) * w = a * w + w
      OBVIOUS
<1>2. PICK c \in Nat : b = a + c
      OBVIOUS
<1>3. c * w \in Nat /\ b * w = a * w + c * w
      BY <1>2
<1>4. QED
      BY <1>1, <1>3

\* A turn that does not end the loop brings its end nearer.
LEMMA TurnRank ==
  ASSUME NEW pat \in Seq(STRING), NEW name \in Seq(STRING), \A k \in 1..Len(name) : name[k] # Star,
         NEW at, GlobInv(pat, name, at)
  PROVE  /\ GlobRank(pat, name, at) \in Nat
         /\ \/ Ended(pat, name, at, GlobTurn(pat, name, at))
            \/ GlobRank(pat, name, GlobTurn(pat, name, at)) < GlobRank(pat, name, at)
<1> DEFINE P == Len(pat)  L == Len(name)  w == P + 2  to == GlobTurn(pat, name, at)
           Left(f) == (L + 1 - f) * w
<1>1. P \in Nat /\ L \in Nat /\ w \in Nat /\ w = P + 2
      OBVIOUS
<1>2. at \in [i : 1..(P + 1), j : 1..(L + 1), star : 0..P, from : 1..(L + 1)]
      BY DEF GlobInv
<1>3. PICK i \in 1..(P + 1), j \in 1..(L + 1), star \in 0..P, from \in 1..(L + 1) :
        at.i = i /\ at.j = j /\ at.star = star /\ at.from = from
      BY <1>2
<1>4. from <= j
      BY <1>3 DEF GlobInv
<1>5. GlobRank(pat, name, at) = Left(from) + (P + 1 - i)
      BY <1>3 DEF GlobRank
<1>6. GlobRank(pat, name, to) = Left(to.from) + (P + 1 - to.i)
      BY DEF GlobRank
<1>7. \A f, g \in 1..(L + 1) : f <= g => Left(g) \in Nat /\ Left(g) <= Left(f)
  <2> SUFFICES ASSUME NEW f \in 1..(L + 1), NEW g \in 1..(L + 1), f <= g
               PROVE  Left(g) \in Nat /\ Left(g) <= Left(f)
      OBVIOUS
  <2>1. L + 1 - g \in Nat /\ L + 1 - f \in Nat /\ L + 1 - g <= L + 1 - f
        BY <1>1
  <2> HIDE DEF w
  <2>2. QED
        BY <1>1, <2>1, Products
<1>8. \A f \in 1..L : f + 1 \in 1..(L + 1) /\ Left(f) = Left(f + 1) + w
  <2> SUFFICES ASSUME NEW f \in 1..L PROVE f + 1 \in 1..(L + 1) /\ Left(f) = Left(f + 1) + w
      OBVIOUS
  <2>1. L + 1 - (f + 1) \in Nat /\ L + 1 - f = (L + 1 - (f + 1)) + 1 /\ f + 1 \in 1..(L + 1)
        BY <1>1
  <2> HIDE DEF w
  <2>2. QED
        BY <1>1, <2>1, Products
<1> HIDE DEF to, Left, P, L, w
<1>9. Left(from) \in Nat
      BY <1>1, <1>7
<1>10. GlobRank(pat, name, at) \in Nat
      BY <1>1, <1>5, <1>9
<1>11. CASE Taken(pat, name, at, to)
  <2>1. to.i = i + 1 /\ to.from = from
        BY <1>2, <1>3, <1>11 DEF Taken
  <2>2. QED
        BY <1>1, <1>5, <1>6, <1>9, <1>10, <2>1 DEF to
<1>12. CASE Opened(pat, name, at, to)
  <2>1. to.i = i + 1 /\ to.from = j
        BY <1>2, <1>3, <1>12 DEF Opened
  <2>2. Left(j) \in Nat /\ Left(j) <= Left(from)
        BY <1>4, <1>7
  <2>3. QED
        BY <1>1, <1>5, <1>6, <1>9, <1>10, <2>1, <2>2 DEF to
<1>13. CASE Retried(pat, name, at, to)
  <2>1. to.i = star + 1 /\ to.from = from + 1 /\ j <= L
        BY <1>2, <1>3, <1>13 DEF Retried, Failed, L
  <2>2. from \in 1..L /\ from + 1 \in 1..(L + 1)
        BY <1>1, <1>4, <2>1
  <2>3. Left(from) = Left(from + 1) + w /\ Left(from + 1) \in Nat
        BY <1>7, <1>8, <2>2
  <2>4. QED
        BY <1>1, <1>5, <1>6, <1>9, <1>10, <2>1, <2>3 DEF to
<1>14. QED
      BY <1>10, <1>11, <1>12, <1>13, TurnCases DEF to

\* Where the loop has ended it stays.
LEMMA EndedStays ==
  ASSUME NEW pat \in Seq(STRING), NEW name \in Seq(STRING), NEW at, GlobInv(pat, name, at),
         Ended(pat, name, at, at)
  PROVE  Ended(pat, name, at, GlobTurn(pat, name, at))
<1>1. /\ Len(pat) \in Nat /\ Len(name) \in Nat
      /\ at.i \in 1..(Len(pat) + 1) /\ at.j \in 1..(Len(name) + 1) /\ at.star \in 0..Len(pat)
      BY DEF GlobInv
<1>2. CASE at.j = Len(name) + 1
      BY <1>1, <1>2 DEF Ended, GlobTurn
<1>3. CASE Failed(pat, name, at) /\ at.star = 0
      BY <1>1, <1>3 DEF Ended, Failed, GlobTurn
<1>4. QED
      BY <1>2, <1>3 DEF Ended

\* A loop that has ended says whether the name fits.
LEMMA EndedFits ==
  ASSUME NEW pat \in Seq(STRING), NEW name \in Seq(STRING), NEW at, GlobInv(pat, name, at),
         Ended(pat, name, at, at)
  PROVE  Fits(pat, name) <=> at.j > Len(name) /\ \A k \in at.i..Len(pat) : pat[k] = Star
<1> DEFINE P == Len(pat)  L == Len(name)
<1>1. P \in Nat /\ L \in Nat
      OBVIOUS
<1>2. /\ at.i \in 1..(P + 1) /\ at.j \in 1..(L + 1) /\ at.star \in 0..P /\ at.from \in 1..(L + 1)
      BY DEF GlobInv
<1>3. CASE at.j = L + 1
  <2>1. FitsFrom(pat, name, at.i, at.j) <=> \A k \in at.i..P : pat[k] = Star
        BY <1>2, <1>3, FitsNothing
  <2>2. ~ (at.star > 0 /\ \E k \in (at.from + 1)..(L + 1) : FitsFrom(pat, name, at.star + 1, k))
    <3> SUFFICES ASSUME at.star > 0, NEW k \in (at.from + 1)..(L + 1),
                        FitsFrom(pat, name, at.star + 1, k)
                 PROVE  FALSE
        OBVIOUS
    <3>1. \E l \in (at.j + 1)..(L + 1) : FitsFrom(pat, name, at.i, l)
          BY LongerPiece
    <3>2. QED
          BY <1>1, <1>3, <3>1
  <2>3. Fits(pat, name) <=> FitsFrom(pat, name, at.i, at.j)
        BY <2>2 DEF GlobInv
  <2>4. QED
        BY <1>1, <1>3, <2>1, <2>3
<1>4. CASE Failed(pat, name, at) /\ at.star = 0
  <2>1. at.j <= L
        BY <1>4 DEF Failed
  <2>2. ~ FitsFrom(pat, name, at.i, at.j)
        BY <1>2, <1>4, FailedFits
  <2>3. Fits(pat, name) <=> FitsFrom(pat, name, at.i, at.j)
        BY <1>4 DEF GlobInv
  <2>4. QED
        BY <1>1, <1>2, <2>1, <2>2, <2>3
<1>5. QED
      BY <1>3, <1>4 DEF Ended

\* The turns of the loop, one after another.
Turns(pat, name, n, f) ==
  f = [k \in 0..n |-> IF k = 0 THEN GlobStart ELSE GlobTurn(pat, name, f[k - 1])]

\* Those turns are a function, however many.
LEMMA TurnsExist ==
  ASSUME NEW pat, NEW name, NEW n \in Nat
  PROVE  \E f : Turns(pat, name, n, f)
<1> DEFINE T == {m \in Nat : \E f : Turns(pat, name, m, f)}
<1>1. 0 \in T
  <2> DEFINE f == [k \in 0..0 |-> GlobStart]
  <2>1. Turns(pat, name, 0, f)
        BY DEF Turns
  <2>2. QED
        BY <2>1
<1>2. ASSUME NEW m \in Nat, m \in T PROVE m + 1 \in T
  <2>1. PICK f : Turns(pat, name, m, f)
        BY <1>2
  <2> DEFINE g == [k \in 0..(m + 1) |-> IF k <= m THEN f[k] ELSE GlobTurn(pat, name, f[m])]
  <2>2. \A k \in 0..(m + 1) : g[k] = IF k = 0 THEN GlobStart ELSE GlobTurn(pat, name, g[k - 1])
        BY <2>1 DEF Turns
  <2>3. Turns(pat, name, m + 1, g)
        BY <2>2 DEF Turns
  <2>4. m + 1 \in Nat
        OBVIOUS
  <2> HIDE DEF g
  <2>5. QED
        BY <2>3, <2>4
<1> HIDE DEF T
<1>3. n \in T
      BY <1>1, <1>2, SetInduction
<1>4. QED
      BY <1>3 DEF T

\* The loop starts where the whole name is left.
LEMMA StartInv ==
  ASSUME NEW pat \in Seq(STRING), NEW name \in Seq(STRING)
  PROVE  GlobInv(pat, name, GlobStart)
  BY DEF GlobInv, GlobStart, Fits

\* For every pattern and every name without a *, glob_match (src/sshcfg.rs) finds that
\* the pattern matches exactly if the name can be cut to fit it: its one step back, to
\* the last *, is enough.
THEOREM GlobMatchFits ==
  ASSUME NEW pat \in Seq(STRING), NEW name \in Seq(STRING), \A k \in 1..Len(name) : name[k] # Star
  PROVE  GlobMatch(pat, name) <=> Fits(pat, name)
<1> DEFINE P == Len(pat)  L == Len(name)  n == (L + 1) * (P + 2)
           Rank(at) == GlobRank(pat, name, at)
           Rest(at) == at.j > L /\ \A k \in at.i..P : pat[k] = Star
           loop == CHOOSE f : Turns(pat, name, n, f)
<1>1. P \in Nat /\ L \in Nat /\ n \in Nat
      OBVIOUS
<1>2. Turns(pat, name, n, loop)
      BY <1>1, TurnsExist
<1>3. GlobMatch(pat, name) <=> Rest(loop[n])
      BY DEF GlobMatch, Turns
<1> HIDE DEF loop
<1>4. loop[0] = GlobStart /\ \A k \in 1..n : loop[k] = GlobTurn(pat, name, loop[k - 1])
  <2> HIDE DEF n
  <2>1. QED
        BY <1>1, <1>2 DEF Turns
<1> DEFINE S == {m \in Nat : m <= n => /\ GlobInv(pat, name, loop[m])
                                       /\ \/ Ended(pat, name, loop[m], loop[m])
                                          \/ Rank(loop[m]) + m <= Rank(GlobStart)}
<1> HIDE DEF n, Rank
<1>5. 0 \in S
  <2>1. Rank(GlobStart) \in Nat
        BY StartInv, TurnRank DEF Rank
  <2>2. QED
        BY <1>4, <2>1, StartInv
<1>6. ASSUME NEW m \in Nat, m \in S PROVE m + 1 \in S
  <2> SUFFICES ASSUME m + 1 <= n
               PROVE  /\ GlobInv(pat, name, loop[m + 1])
                      /\ \/ Ended(pat, name, loop[m + 1], loop[m + 1])
                         \/ Rank(loop[m + 1]) + (m + 1) <= Rank(GlobStart)
      BY <1>1
  <2>1. PICK at, to : at = loop[m] /\ to = loop[m + 1]
        OBVIOUS
  <2>2. /\ GlobInv(pat, name, at)
        /\ Ended(pat, name, at, at) \/ Rank(at) + m <= Rank(GlobStart)
        BY <1>1, <1>6, <2>1
  <2>3. to = GlobTurn(pat, name, at)
    <3>1. m + 1 \in 1..n /\ (m + 1) - 1 = m
          BY <1>1
    <3>2. QED
          BY <1>4, <2>1, <3>1
  <2>4. GlobInv(pat, name, to)
        BY <2>2, <2>3, TurnInv
  <2>5. Rank(at) \in Nat /\ Rank(to) \in Nat /\ Rank(GlobStart) \in Nat
        BY <2>2, <2>4, StartInv, TurnRank DEF Rank
  <2>6. Ended(pat, name, at, to) \/ Rank(to) < Rank(at)
        BY <2>2, <2>3, TurnRank DEF Rank
  <2>7. CASE Ended(pat, name, at, to)
    <3>1. Ended(pat, name, to, to)
          BY <2>7 DEF Ended
    <3>2. QED
          BY <2>1, <2>4, <3>1
  <2>8. CASE Rank(to) < Rank(at) /\ ~ Ended(pat, name, at, to)
    <3>1. ~ Ended(pat, name, at, at)
          BY <2>2, <2>3, <2>8, EndedStays
    <3>2. Rank(at) + m <= Rank(GlobStart)
          BY <2>2, <3>1
    <3>3. QED
          BY <2>1, <2>4, <2>5, <2>8, <3>2
  <2>9. QED
        BY <2>6, <2>7, <2>8
<1>7. n \in S
  <2> HIDE DEF S
  <2>1. QED
        BY <1>1, <1>5, <1>6, SetInduction
<1>8. GlobInv(pat, name, loop[n])
      BY <1>1, <1>7
<1>9. Rank(loop[n]) \in Nat /\ Rank(GlobStart) < n
  <2>1. Rank(loop[n]) \in Nat
        BY <1>8, TurnRank DEF Rank
  <2>2. (L + 1) * (P + 2) = L * (P + 2) + (P + 2) /\ L * (P + 2) \in Nat
    <3>1. P + 2 \in Nat
          BY <1>1
    <3> HIDE DEF P, L
    <3>2. QED
          BY <1>1, <3>1, Products
  <2>3. Rank(GlobStart) = L * (P + 2) + P
    <3>1. L + 1 - 1 = L /\ P + 1 - 1 = P /\ GlobStart.from = 1 /\ GlobStart.i = 1
          BY <1>1 DEF GlobStart
    <3>2. QED
          BY <3>1 DEF Rank, GlobRank
  <2>4. QED
        BY <1>1, <2>1, <2>2, <2>3 DEF n
<1>10. Ended(pat, name, loop[n], loop[n])
  <2>1. Ended(pat, name, loop[n], loop[n]) \/ Rank(loop[n]) + n <= Rank(GlobStart)
        BY <1>1, <1>7
  <2>2. Rank(GlobStart) \in Nat
        BY StartInv, TurnRank DEF Rank
  <2> HIDE DEF S
  <2>3. QED
        BY <1>1, <1>9, <2>1, <2>2
<1>11. QED
      BY <1>3, <1>8, <1>10, EndedFits

-----------------------------------------------------------------------------
(* The blocks of the ssh config.                                            *)

\* A Host line applies to the hosts that it means.
LEMMA AppliesMeans ==
  ASSUME NEW block \in Block, NEW name \in Seq(STRING), \A k \in 1..Len(name) : name[k] # Star
  PROVE  Applies(block, name) <=> Means(block, name)
<1> DEFINE ps == block.patterns
<1>1. \A k \in 1..Len(ps) : ps[k].glob \in Seq(STRING)
  <2>1. ps \in Seq(Pattern)
        BY DEF Block
  <2>2. \A k \in 1..Len(ps) : ps[k] \in Pattern
        BY <2>1
  <2>3. QED
        BY <2>2 DEF Pattern
<1>2. \A k \in 1..Len(ps) : GlobMatch(ps[k].glob, name) <=> Fits(ps[k].glob, name)
      BY <1>1, GlobMatchFits
<1>3. QED
      BY <1>1, <1>2 DEF Applies, Means

\* The scan returns what the file says.
LEMMA SettingSays ==
  ASSUME NEW config \in Seq(Block), NEW name \in Seq(STRING),
         \A k \in 1..Len(name) : name[k] # Star
  PROVE  Setting(config, name) = Says(config, name)
<1> DEFINE given == {k \in 1..Len(config) : config[k].value # "" /\ Applies(config[k], name)}
           ours == {k \in 1..Len(config) : config[k].value # "" /\ Means(config[k], name)}
           firsts == {k \in ours : \A l \in 1..(k - 1) : l \notin ours}
<1>1. given = ours
  <2>1. \A k \in 1..Len(config) : config[k] \in Block
        OBVIOUS
  <2>2. \A k \in 1..Len(config) : Applies(config[k], name) <=> Means(config[k], name)
        BY <2>1, AppliesMeans
  <2>3. QED
        BY <2>2
<1>2. Len(config) \in Nat /\ ours \in SUBSET (1..Len(config))
  <2>1. \A k \in ours : k \in 1..Len(config)
        OBVIOUS
  <2> HIDE DEF ours
  <2>2. QED
        BY <2>1
<1>3. \A k : k \in firsts <=> k \in ours /\ \A l \in 1..(k - 1) : l \notin ours
      OBVIOUS
<1>4. Setting(config, name) = IF given = {} THEN ""
                              ELSE config[CHOOSE k \in given : \A l \in given : k <= l].value
      BY DEF Setting
<1>5. Says(config, name) = IF firsts = {} THEN "" ELSE config[CHOOSE k \in firsts : TRUE].value
      BY DEF Says
<1> HIDE DEF given, ours, firsts
<1>6. ASSUME NEW k \in ours, \A l \in ours : k <= l PROVE k \in firsts
  <2>1. k \in 1..Len(config)
        BY <1>2, <1>6
  <2>2. \A l \in 1..(k - 1) : ~ (k <= l)
        BY <1>2, <2>1
  <2>3. QED
        BY <1>3, <1>6, <2>2
<1>7. ASSUME NEW k \in firsts, NEW m \in firsts PROVE k = m
  <2>1. k \in 1..Len(config) /\ m \in 1..Len(config)
        BY <1>2, <1>3
  <2>2. ~ (k \in 1..(m - 1)) /\ ~ (m \in 1..(k - 1))
        BY <1>3
  <2>3. QED
        BY <1>2, <2>1, <2>2
<1>8. CASE ours = {}
      BY <1>1, <1>3, <1>4, <1>5, <1>8
<1>9. CASE ours # {}
  <2> DEFINE least == CHOOSE k \in ours : \A l \in ours : k <= l
             first == CHOOSE k \in firsts : TRUE
  <2>1. \E k \in ours : \A l \in ours : k <= l
        BY <1>2, <1>9, LeastOf
  <2>2. least \in ours /\ \A l \in ours : least <= l
        BY <2>1
  <2> HIDE DEF least
  <2>3. least \in firsts
        BY <2>2, <1>6
  <2>4. first \in firsts
        BY <2>3
  <2> HIDE DEF first
  <2>5. first = least
        BY <2>3, <2>4, <1>7
  <2>6. Setting(config, name) = config[least].value
        BY <1>1, <1>4, <1>9 DEF least
  <2>7. Says(config, name) = config[first].value
        BY <1>5, <2>3 DEF first
  <2>8. QED
        BY <2>5, <2>6, <2>7
<1>10. QED
      BY <1>8, <1>9

\* connect (src/ssh.rs) takes a host for strict if the ssh config says yes of it, and
\* not if it says anything else, for every config: what Vouched rests on.
THEOREM ReadingsAgree == Agreed
<1> SUFFICES ASSUME NEW r \in Readings
             PROVE  (r.says = "yes" => r.strict) /\ (r.says = "ask" => ~ r.strict)
    BY DEF Agreed
<1>1. PICK c \in SshConfigs :
        r \in {[strict |-> v, says |-> Says(c, HostName)] : v \in StrictReadings(c, HostName)}
      BY DEF Readings
<1>2. PICK v \in StrictReadings(c, HostName) : r = [strict |-> v, says |-> Says(c, HostName)]
      BY <1>1
<1>3. Setting(c, HostName) = Says(c, HostName)
      BY ConfigsAssumption, SettingSays
<1>4. QED
      BY <1>2, <1>3 DEF StrictReadings

\* A reading of a config is a decision, and a word of the config if it has one.
LEMMA ReadingTypes ==
  ASSUME NEW r \in Readings PROVE r.strict \in BOOLEAN /\ r.says \in {"yes", "ask", ""}
<1>1. PICK c \in SshConfigs :
        r \in {[strict |-> v, says |-> Says(c, HostName)] : v \in StrictReadings(c, HostName)}
      BY DEF Readings
<1>2. PICK v \in StrictReadings(c, HostName) : r = [strict |-> v, says |-> Says(c, HostName)]
      BY <1>1
<1>3. v \in BOOLEAN
      BY DEF StrictReadings
<1>4. Says(c, HostName) \in {"yes", "ask", ""}
  <2> DEFINE ours == {k \in 1..Len(c) : c[k].value # "" /\ Means(c[k], HostName)}
             firsts == {k \in ours : \A l \in 1..(k - 1) : l \notin ours}
  <2>1. \A k \in 1..Len(c) : c[k] \in Block
        BY ConfigsAssumption
  <2>2. \A k \in 1..Len(c) : c[k].value \in {"yes", "ask", ""}
        BY <2>1 DEF Block
  <2>3. Says(c, HostName) = IF firsts = {} THEN "" ELSE c[CHOOSE k \in firsts : TRUE].value
        BY DEF Says
  <2>4. firsts \subseteq 1..Len(c)
        OBVIOUS
  <2> HIDE DEF firsts
  <2>5. QED
        BY <2>2, <2>3, <2>4
<1>5. QED
      BY <1>2, <1>3, <1>4

-----------------------------------------------------------------------------
(* The key of the server.                                                   *)

\* Nothing is trusted before the first connection.
LEMMA InitKInv == KInit => KInv
  BY DEF KInit, KInv, KTypeOK, Vouched

\* Whatever a run finds of keys and in the ssh config, nothing is trusted yet.
LEMMA DialKInv == KInv /\ Dial => KInv'
<1> SUFFICES ASSUME KInv, Dial PROVE KInv'
    OBVIOUS
<1>1. PICK m \in Machines :
        /\ hostKey' = m.hostKey /\ known' = m.known /\ fleet' = m.fleet
        /\ readable' = m.readable
      BY DEF Dial
<1>2. PICK r \in Readings : strict' = r.strict /\ says' = r.says
      BY DEF Dial
<1>3. r.strict \in BOOLEAN /\ r.says \in {"yes", "ask", ""}
      BY ReadingTypes
<1>4. KTypeOK'
      BY <1>1, <1>2, <1>3, MachinesAssumption DEF Dial, KInv, KTypeOK
<1>5. (says' = "yes" => strict') /\ (says' = "ask" => ~ strict')
      BY <1>2, ReadingsAgree DEF Agreed
<1>6. ~ accepted'
      BY DEF Dial, KInv
<1>7. QED
      BY <1>4, <1>5, <1>6 DEF Dial, KInv, Vouched

\* What is taken is recorded, and what is asked about contradicts nothing.
LEMMA CheckKeyKInv == KInv /\ CheckKey => KInv'
<1> SUFFICES ASSUME KInv, CheckKey PROVE KInv'
    OBVIOUS
<1>0. Verdicts(hostKey) \subseteq {"match", "changed", "unknown"}
      BY DEF Verdicts, Recorded
<1>1. /\ UNCHANGED <<machine, interactive, kused, accepted>>
      /\ presented' = hostKey /\ kpc' \in {"trusted", "failed", "prompt"}
      BY <1>0 DEF CheckKey, Go
<1>2. conflict' = (readable /\ known # {} /\ hostKey \notin known)
      BY DEF CheckKey
<1>3. /\ KTypeOK /\ ~ accepted
      /\ (says = "ask" => ~ strict) /\ (says = "yes" => strict)
      BY DEF CheckKey, KInv, Vouched
<1>4. KTypeOK'
      BY <1>1, <1>2, <1>3 DEF KTypeOK, machine
<1>5. "match" \in Verdicts(hostKey) =>
        hostKey \in known \/ (hostKey \in fleet /\ known = {})
      BY DEF Verdicts, Recorded
<1>6. "unknown" \in Verdicts(hostKey) => ~ readable \/ known = {}
      BY DEF Verdicts, Recorded
<1>7. hostKey = Certificate => kpc' = "failed"
      BY DEF CheckKey, Go
<1>8. hostKey # Certificate =>
        \E v \in Verdicts(hostKey) :
          kpc' = CASE v = "match" -> "trusted"
                   [] v = "changed" -> "failed"
                   [] v = "unknown" -> IF strict \/ ~ interactive THEN "failed" ELSE "prompt"
      BY DEF CheckKey, Go
<1>9. ASSUME kpc' = "trusted"
      PROVE  /\ hostKey \in ServerKeys
             /\ hostKey \in known \/ (hostKey \in fleet /\ ~ conflict')
  <2>1. "match" \in Verdicts(hostKey) /\ hostKey # Certificate
        BY <1>7, <1>0, <1>8, <1>9
  <2>2. QED
        BY <2>1, <1>2, <1>3, <1>5 DEF KTypeOK
<1>10. ASSUME kpc' = "prompt"
       PROVE  /\ hostKey \in ServerKeys /\ ~ conflict' /\ interactive /\ ~ strict
  <2>1. /\ "unknown" \in Verdicts(hostKey) /\ hostKey # Certificate
        /\ ~ (strict \/ ~ interactive)
        BY <1>7, <1>0, <1>8, <1>10
  <2>2. QED
        BY <2>1, <1>2, <1>3, <1>6 DEF KTypeOK
<1>11. /\ kpc' \in {"trusted", "failed", "prompt"} /\ presented' = hostKey
       /\ known' = known /\ fleet' = fleet /\ strict' = strict /\ says' = says
       /\ interactive' = interactive /\ accepted' = accepted
       BY <1>1 DEF machine
<1>12. Vouched'
  <2>1. kpc' = "trusted" =>
          /\ presented' \in ServerKeys
          /\ presented' \in known' \/ (presented' \in fleet' /\ ~ conflict')
    <3>1. hostKey \in known <=> presented' \in known'
          BY <1>11
    <3>2. hostKey \in fleet <=> presented' \in fleet'
          BY <1>11
    <3>3. hostKey \in ServerKeys <=> presented' \in ServerKeys
          BY <1>11
    <3>4. QED
          BY <1>9, <3>1, <3>2, <3>3
  <2>2. ~ accepted' /\ (says' = "ask" => ~ strict')
        BY <1>3, <1>11
  <2>3. QED
        BY <2>1, <2>2 DEF Vouched
<1>13. kpc' = "prompt" => presented' \in ServerKeys /\ ~ conflict' /\ interactive' /\ ~ strict'
       BY <1>10, <1>11
<1>14. ~ accepted' /\ (says' = "yes" => strict')
       BY <1>3, <1>11
<1>15. QED
       BY <1>4, <1>12, <1>13, <1>14 DEF KInv

\* The other steps of a connection and of the world leave what was decided alone;
\* known only grows.
LEMMA ConnectingKInv == KInv /\ KNext => KInv'
<1> SUFFICES ASSUME KInv, KNext PROVE KInv'
    OBVIOUS
<1> USE DEF KInv, KTypeOK, Vouched
<1>1. CASE CheckKey
      BY <1>1, CheckKeyKInv
<1>2. CASE Answer
  <2>1. /\ kpc = "prompt" /\ hostKey' = hostKey /\ fleet' = fleet /\ readable' = readable
        /\ strict' = strict /\ says' = says /\ interactive' = interactive
        /\ presented' = presented /\ conflict' = conflict
        BY <1>2 DEF Answer
  <2>2. CASE kpc' = "trusted" /\ accepted' = TRUE /\ known' \in {known, known \cup {presented}}
    <3>1. known' \subseteq ServerKeys
          BY <2>1, <2>2
    <3>2. KTypeOK'
          BY <2>1, <2>2, <3>1
    <3>3. QED
          BY <2>1, <2>2, <3>2
  <2>3. CASE kpc' = "failed" /\ UNCHANGED <<known, accepted>>
    <3>1. KTypeOK'
          BY <2>1, <2>3
    <3>2. QED
          BY <2>1, <2>3, <3>1
  <2>4. QED
        BY <1>2, <2>2, <2>3 DEF Answer
<1>3. CASE Timeout \/ LateAnswer
  <2>1. /\ kpc' \in {"failed", "late"}
        /\ hostKey' = hostKey /\ known' = known /\ fleet' = fleet /\ readable' = readable
        /\ strict' = strict /\ says' = says /\ interactive' = interactive
        /\ presented' = presented /\ conflict' = conflict /\ accepted' = accepted
        /\ kpc \in {"dial", "prompt", "late"}
        BY <1>3 DEF Timeout, LateAnswer, Go, machine
  <2>2. KTypeOK'
        BY <2>1
  <2>3. QED
        BY <2>1, <2>2
<1>4. CASE OtherLearns
      BY <1>4 DEF OtherLearns
<1>5. CASE Rekey
      BY <1>5 DEF Rekey
<1>6. QED
      BY <1>1, <1>2, <1>3, <1>4, <1>5 DEF KNext

\* What connect leaves behind is as at the start.
LEMMA ConnectedKInv == KInv /\ Connected => KInv'
  BY DEF Connected, KInv, KTypeOK, Vouched

-----------------------------------------------------------------------------
(* The keys of the user.                                                    *)

\* The offers before a key are finite in number, and one more with each offer.
LEMMA OffersGrow ==
  ASSUME AInv, NEW p \in 1..Len(ring.ids)
  PROVE  /\ IsFiniteSet(Offers(p)) /\ Cardinality(Offers(p)) \in Nat
         /\ ring.ids[p].kind = "skip" => Offers(p + 1) = Offers(p)
         /\ ring.ids[p].kind # "skip" =>
              Cardinality(Offers(p + 1)) = Cardinality(Offers(p)) + 1
<1>1. Len(ring.ids) \in Nat /\ p \in Nat /\ p - 1 \in Nat
      BY DEF AInv
<1>2. IsFiniteSet(1..(p - 1)) /\ Offers(p) \subseteq 1..(p - 1)
  <2>1. 1 \in Int /\ p - 1 \in Int
        BY <1>1
  <2>2. IsFiniteSet(1..(p - 1))
        BY <2>1, FS_Interval
  <2>3. QED
        BY <2>2 DEF Offers
<1>3. IsFiniteSet(Offers(p)) /\ Cardinality(Offers(p)) \in Nat
      BY <1>2, FS_Subset, FS_CardinalityType
<1>4. ring.ids[p].kind = "skip" => Offers(p + 1) = Offers(p)
      BY <1>1 DEF Offers
<1>5. ring.ids[p].kind # "skip" => Offers(p + 1) = Offers(p) \cup {p} /\ p \notin Offers(p)
      BY <1>1 DEF Offers
<1>6. QED
      BY <1>3, <1>4, <1>5, FS_AddElement

\* No key has been offered at first.
LEMMA InitAInv == AInit => AInv
<1> SUFFICES ASSUME AInit PROVE AInv
    OBVIOUS
<1>1. Offers(1) = {}
      BY DEF Offers
<1>2. Cardinality(Offers(1)) = 0
      BY <1>1, FS_EmptySet
<1>3. ring.ids = <<>> /\ Len(ring.ids) = 0 /\ ring.old = FALSE
      BY DEF AInit
<1>4. QED
      BY <1>2, <1>3 DEF AInit, AInv, UsableKeyWins

\* The first key is next.
LEMMA FindKeysAInv == AInv /\ FindKeys => AInv'
<1> SUFFICES ASSUME AInv, FindKeys PROVE AInv'
    OBVIOUS
<1>1. Offers(1) = {} /\ Offers(1)' = {}
      BY DEF Offers
<1>2. tries = 0 /\ current = 1 /\ UNCHANGED <<tries, current>> /\ apc' = "offer"
  <2>1. tries = Cardinality(Offers(1)) /\ current = 1
        BY DEF AInv, FindKeys
  <2>2. QED
        BY <2>1, <1>1, FS_EmptySet DEF FindKeys
<1>3. Cardinality(Offers(current))' = 0
      BY <1>1, <1>2, FS_EmptySet
<1>4. /\ ring'.old \in BOOLEAN /\ ring'.ids \in Seq([kind : KeyKinds, works : BOOLEAN])
      /\ Len(ring'.ids) \in Nat
      BY RingsAssumption, LenProperties DEF FindKeys
<1>5. 1 \in 1..(Len(ring'.ids) + 1)
  <2>1. PICK n \in Nat : Len(ring'.ids) = n
        BY <1>4
  <2>2. QED
        BY <2>1
<1>6. QED
      BY <1>2, <1>3, <1>4, <1>5 DEF AInv, UsableKeyWins

\* When no key is left, none was of use.
LEMMA NoKeyLeftAInv == AInv /\ NoKeyLeft => AInv'
<1> SUFFICES ASSUME AInv, NoKeyLeft PROVE AInv'
    OBVIOUS
<1>1. \A p : Offers(p)' = Offers(p) /\ Usable(p)' = Usable(p)
      BY DEF NoKeyLeft, Offers, Usable
<1>2. /\ current \in 1..(Len(ring.ids) + 1) /\ Len(ring.ids) \in Nat
      /\ current > Len(ring.ids)
      /\ \A p \in 1..(current - 1) : Usable(p) => Cardinality(Offers(p)) >= MaxTries
      BY DEF AInv, NoKeyLeft
<1>3. \A p \in 1..Len(ring.ids) : p \in 1..(current - 1)
      BY <1>2
<1>4. UsableKeyWins'
      BY <1>1, <1>2, <1>3 DEF NoKeyLeft, UsableKeyWins
<1>5. QED
      BY <1>4 DEF AInv, NoKeyLeft

\* A key that does not end it was not of use, or came too late.
LEMMA TryKeyAInv == AInv /\ TryKey => AInv'
<1> SUFFICES ASSUME AInv, TryKey PROVE AInv'
    OBVIOUS
<1> DEFINE id == ring.ids[current]
           refused == id.kind = "rsa" /\ ring.old
           offered == id.kind # "skip" /\ ~ refused
<1>1. /\ apc = "offer" /\ current \in 1..Len(ring.ids)
      /\ current' = current + 1 /\ ring' = ring
      /\ ring.ids \in Seq([kind : KeyKinds, works : BOOLEAN]) /\ ring.old \in BOOLEAN
      /\ id \in [kind : KeyKinds, works : BOOLEAN] /\ Len(ring.ids) \in Nat
      /\ tries = Cardinality(Offers(current))
      /\ \A p \in 1..(current - 1) : Usable(p) => Cardinality(Offers(p)) >= MaxTries
  <2>1. /\ apc = "offer" /\ current <= Len(ring.ids)
        /\ current' = current + 1 /\ ring' = ring
        BY DEF TryKey
  <2>2. /\ ring.ids \in Seq([kind : KeyKinds, works : BOOLEAN]) /\ ring.old \in BOOLEAN
        /\ current \in 1..(Len(ring.ids) + 1)
        /\ tries = Cardinality(Offers(current))
        /\ \A p \in 1..(current - 1) : Usable(p) => Cardinality(Offers(p)) >= MaxTries
        BY <2>1 DEF AInv
  <2>3. Len(ring.ids) \in Nat /\ current \in 1..Len(ring.ids)
        BY <2>1, <2>2
  <2>4. id \in [kind : KeyKinds, works : BOOLEAN]
        BY <2>2, <2>3, ElementOfSeq
  <2>5. QED
        BY <2>1, <2>2, <2>3, <2>4
<1>2. /\ apc' = IF refused THEN "failed"
               ELSE IF offered /\ id.works /\ tries < MaxTries THEN "up" ELSE "offer"
      /\ tries' = IF offered THEN tries + 1 ELSE tries
      BY DEF TryKey
<1>3. \A p : Offers(p)' = Offers(p) /\ Usable(p)' = Usable(p)
      BY <1>1 DEF Offers, Usable
<1>4. current' \in 1..(Len(ring'.ids) + 1) /\ apc' \in {"offer", "up", "failed"}
      BY <1>1, <1>2
<1>5. ASSUME apc' = "offer"
      PROVE  /\ tries' = Cardinality(Offers(current'))
             /\ \A p \in 1..current : Usable(p) => Cardinality(Offers(p)) >= MaxTries
  <2>1. tries' = Cardinality(Offers(current'))
        BY <1>1, <1>2, <1>5, OffersGrow
  <2>2. Usable(current) => Cardinality(Offers(current)) >= MaxTries
    <3>1. Usable(current) => offered /\ id.works
          BY <1>2, <1>5 DEF Usable
    <3>2. Usable(current) => ~ (tries < MaxTries)
          BY <3>1, <1>2, <1>5
    <3>3. QED
          BY <3>2, <1>1, RingsAssumption, OffersGrow
  <2>3. QED
        BY <2>1, <2>2, <1>1
<1>6. ASSUME apc' = "failed"
      PROVE  \A p \in 1..Len(ring.ids) :
               Usable(p) => \/ Cardinality(Offers(p)) >= MaxTries
                            \/ ring.old /\ \E q \in 1..p : ring.ids[q].kind = "rsa"
  <2>1. ring.old /\ ring.ids[current].kind = "rsa"
        BY <1>2, <1>6
  <2>2. ASSUME NEW p \in 1..Len(ring.ids), p >= current
        PROVE  \E q \in 1..p : ring.ids[q].kind = "rsa"
        BY <2>1, <2>2, <1>1
  <2>3. QED
        BY <2>1, <2>2, <1>1
<1>7. QED
  <2>1. UsableKeyWins'
        BY <1>1, <1>3, <1>6 DEF UsableKeyWins
  <2>2. QED
        BY <2>1, <1>1, <1>3, <1>4, <1>5 DEF AInv

\* What authenticate leaves behind is as at the start.
LEMMA LoggedInAInv == AInv /\ LoggedIn => AInv'
  BY DEF LoggedIn, AInv, UsableKeyWins

-----------------------------------------------------------------------------
(* The host.                                                                *)

\* Nobody has asked a host anything at first.
LEMMA InitHInv == HInit => HInv
<1>1. NoHost \in HostSet
      BY DEF NoHost, HostSet
<1>2. NoSettings \in SettingSet
      BY DEF NoSettings, SettingSet, Modes
<1>3. QED
      BY <1>1, <1>2 DEF HInit, HInv, ProbeHolds

\* A probe has said nothing of a host that nobody has met.
LEMMA MeetHInv == HInv /\ Meet => HInv'
  BY HostsAssumption, SettingsAssumption DEF HInv, Meet, ProbeHolds

\* The next command finds the host as the one before has left it.
LEMMA MeetAgainHInv == HInv /\ MeetAgain => HInv'
<1> SUFFICES ASSUME HInv, MeetAgain PROVE HInv'
    OBVIOUS
<1>1. host' = host /\ set' = set
      BY DEF MeetAgain
<1>2. (ArchFits' <=> ArchFits) /\ (RunsAgent' <=> RunsAgent) /\ ProbeTools' = ProbeTools
      BY <1>1 DEF ArchFits, RunsAgent, ProbeTools
<1>3. QED
      BY <1>1, <1>2 DEF HInv, MeetAgain, ProbeHolds

\* Two hosts that differ only in whether there is a remote directory.
LEMMA SameHost ==
  ASSUME HInv, NEW c \in BOOLEAN, host' = [host EXCEPT !.cold = c], set' = set
  PROVE  /\ host' \in HostSet
         /\ host'.os = host.os /\ host'.arch = host.arch /\ host'.starts = host.starts
         /\ host'.runs = host.runs
         /\ host'.cargo = host.cargo /\ host'.tools = host.tools /\ host'.dirOk = host.dirOk
         /\ (ArchFits' <=> ArchFits) /\ (RunsAgent' <=> RunsAgent)
         /\ ProbeTools' = ProbeTools
<1>1. host \in HostSet
      BY DEF HInv
<1>2. /\ host' \in HostSet
      /\ host'.os = host.os /\ host'.arch = host.arch /\ host'.starts = host.starts
      /\ host'.runs = host.runs
      /\ host'.cargo = host.cargo /\ host'.tools = host.tools /\ host'.dirOk = host.dirOk
      BY <1>1 DEF HostSet
<1>3. QED
      BY <1>2 DEF ArchFits, RunsAgent, ProbeTools

\* What the probe says is what it has just found.
LEMMA ProbeHInv == HInv /\ Probe => HInv'
<1> SUFFICES ASSUME HInv, Probe PROVE HInv'
    OBVIOUS
<1>1. PICK c \in BOOLEAN : host' = [host EXCEPT !.cold = c]
      BY DEF HInv, HostSet, Probe
<1>2. /\ hpc' = "passed" /\ set' = set /\ fellBack' = fellBack
      /\ ready' => /\ ArchFits /\ host.runs /\ host.dirOk
                   /\ set.min # 0 /\ host.cargo # 0 => host.cargo >= set.min
                   /\ ProbeTools \subseteq host.tools
      /\ agentOk' => host.os = LocalOs /\ Norm(host.arch) = Norm(LocalArch)
      /\ ready' \in BOOLEAN /\ agentOk' \in BOOLEAN
      BY DEF Probe
<1>3. agentOk' /\ fellBack' => "arm64" \in {host.arch, LocalArch} \/ ~ host.starts
      BY <1>2 DEF HInv, RunsAgent, Norm
<1>4. QED
      BY <1>1, <1>2, <1>3, SameHost DEF HInv, ProbeHolds

\* A host that a probe has found ready is only turned down for want of a version.
LEMMA CheckRequirementsHInv == HInv /\ CheckRequirements => HInv'
<1> SUFFICES ASSUME HInv, CheckRequirements PROVE HInv'
    OBVIOUS
<1>1. /\ UNCHANGED <<host, set, fellBack, ready, agentOk>> /\ hpc' \in {"sync", "refused"}
      /\ hpc' = "refused" =>
           ~ (ArchFits /\ (set.min # 0 => host.cargo # 0 /\ host.cargo >= set.min))
      BY DEF CheckRequirements
<1>2. (ArchFits' <=> ArchFits) /\ (RunsAgent' <=> RunsAgent) /\ ProbeTools' = ProbeTools
      BY <1>1 DEF ArchFits, RunsAgent, ProbeTools
<1>3. ready /\ hpc' = "refused" => set.min # 0 /\ host.cargo = 0
      BY <1>1 DEF HInv
<1>4. agentOk /\ fellBack => "arm64" \in {host.arch, LocalArch} \/ ~ host.starts
      BY DEF HInv, ProbeHolds
<1>5. QED
      BY <1>1, <1>2, <1>3, <1>4 DEF HInv, ProbeHolds

\* The tools a transfer runs are those that the probe insists on, but for the tar
\* that a delta sync falls back on.
LEMMA ToolsFound ==
  ASSUME HInv, ready, ~ (RunTools \subseteq host.tools)
  PROVE  set.mode = "delta" /\ ~ RunsAgent /\ "tar" \notin host.tools
<1>1. ProbeTools \subseteq host.tools /\ set.mode \in Modes
      BY DEF HInv, SettingSet
<1>2. CASE set.mode = "delta"
      BY <1>2 DEF RunTools, Delta
<1>3. CASE set.mode = "auto"
  <2>1. {"tar", "gzip"} \subseteq host.tools
        BY <1>1, <1>3 DEF ProbeTools
  <2>2. CASE host.cold
        BY <1>3, <2>1, <2>2 DEF RunTools, Delta
  <2>3. CASE ~ host.cold
        BY <1>3, <2>1, <2>3 DEF RunTools, Delta
  <2>4. QED
        BY <2>2, <2>3
<1>4. CASE set.mode \notin {"delta", "auto"}
      BY <1>1, <1>4 DEF RunTools, ProbeTools, Delta, Modes
<1>5. QED
      BY <1>2, <1>3, <1>4

\* A sync is turned away only by what probe looks for, or by the tar that
\* a fallback needs.
LEMMA SyncHInv == HInv /\ Sync => HInv'
<1> SUFFICES ASSUME HInv, Sync PROVE HInv'
    OBVIOUS
<1>1. /\ set' = set /\ ready' = ready /\ agentOk' = agentOk
      BY DEF Sync
<1>2. CASE /\ hpc' = IF RunTools \subseteq host.tools /\ host.dirOk THEN "cargo" ELSE "refused"
           /\ fellBack' = (Delta /\ ~ RunsAgent)
           /\ host' = [host EXCEPT !.cold = @ /\ ~ host.dirOk]
  <2>1. PICK c \in BOOLEAN : host' = [host EXCEPT !.cold = c]
        BY <1>2 DEF HInv, HostSet
  <2>2. ready /\ hpc' = "refused" =>
          set.mode = "delta" /\ fellBack' /\ "tar" \notin host.tools
    <3>1. ASSUME ready, hpc' = "refused" PROVE ~ (RunTools \subseteq host.tools)
          BY <1>2, <3>1 DEF HInv
    <3>2. set.mode = "delta" => Delta
          BY DEF Delta
    <3>3. QED
          BY <1>2, <3>1, <3>2, ToolsFound
  <2>3. agentOk /\ fellBack' => "arm64" \in {host.arch, LocalArch} \/ ~ host.starts
        BY <1>2 DEF HInv, RunsAgent, Norm
  <2>4. fellBack' \in BOOLEAN /\ hpc' \in {"cargo", "refused"} /\ (fellBack' => ~ RunsAgent)
        BY <1>2
  <2>5. QED
        BY <1>1, <2>1, <2>2, <2>3, <2>4, SameHost DEF HInv, ProbeHolds
<1>3. CASE hpc' = "cargo" /\ UNCHANGED <<fellBack, host>>
  <2>1. (ArchFits' <=> ArchFits) /\ (RunsAgent' <=> RunsAgent) /\ ProbeTools' = ProbeTools
        BY <1>1, <1>3 DEF ArchFits, RunsAgent, ProbeTools
  <2>2. QED
        BY <1>1, <1>3, <2>1 DEF HInv, ProbeHolds
<1>4. QED
      BY <1>2, <1>3 DEF Sync

\* A cargo that has run for probe runs again.
LEMMA CargoHInv == HInv /\ Cargo => HInv'
<1> SUFFICES ASSUME HInv, Cargo PROVE HInv'
    OBVIOUS
<1>1. /\ UNCHANGED <<host, set, fellBack, ready, agentOk>>
      /\ hpc' = IF host.runs THEN "passed" ELSE "refused"
      BY DEF Cargo
<1>2. (ArchFits' <=> ArchFits) /\ (RunsAgent' <=> RunsAgent) /\ ProbeTools' = ProbeTools
      BY <1>1 DEF ArchFits, RunsAgent, ProbeTools
<1>3. QED
      BY <1>1, <1>2 DEF HInv, ProbeHolds

-----------------------------------------------------------------------------
(* A whole run.                                                             *)

\* Every phase begins with its invariant.
LEMMA InitIInv == Init => IInv
  BY InitCInv, InitKInv, InitAInv, InitHInv DEF Init, IInv

\* The steps of the other phases keep the invariant of each.
LEMMA CInvKept == CInv /\ UNCHANGED cvars => CInv'
<1> SUFFICES ASSUME CInv, UNCHANGED cvars PROVE CInv'
    OBVIOUS
<1>1. /\ cpc' = cpc /\ source' = source /\ items' = items /\ copyBack' = copyBack
      /\ fromProject' = fromProject /\ warned' = warned /\ seen' = seen
      /\ options' = options
      BY DEF cvars
<1>2. CTypeOK' /\ FilesOnly'
      BY <1>1 DEF CInv, CTypeOK, FilesOnly, FileWord
<1>3. ScalarsWin' /\ ListsGather' /\ Heard'
      BY <1>1 DEF CInv, ScalarsWin, ListsGather, Heard, Gives
<1>4. CopyBackFollowsHost'
      BY <1>1 DEF CInv, CopyBackFollowsHost
<1>5. QED
      BY <1>2, <1>3, <1>4 DEF CInv
LEMMA KInvKept == KInv /\ UNCHANGED kvars => KInv'
<1> SUFFICES ASSUME KInv, UNCHANGED kvars PROVE KInv'
    OBVIOUS
<1>1. /\ kpc' = kpc /\ interactive' = interactive /\ presented' = presented
      /\ conflict' = conflict /\ accepted' = accepted
      /\ hostKey' = hostKey /\ known' = known /\ fleet' = fleet
      /\ readable' = readable /\ strict' = strict /\ says' = says
      BY DEF kvars, machine
<1>2. KTypeOK'
      BY <1>1 DEF KInv, KTypeOK
<1>3. Vouched'
      BY <1>1 DEF KInv, Vouched
<1>4. QED
      BY <1>1, <1>2, <1>3 DEF KInv
LEMMA AInvKept == AInv /\ UNCHANGED avars => AInv'
  BY DEF avars, AInv, UsableKeyWins, Offers, Usable
LEMMA HInvKept == HInv /\ UNCHANGED hvars => HInv'
<1> SUFFICES ASSUME HInv, UNCHANGED hvars PROVE HInv'
    OBVIOUS
<1>1. /\ host' = host /\ set' = set /\ hpc' = hpc /\ fellBack' = fellBack
      /\ ready' = ready /\ agentOk' = agentOk
      BY DEF hvars
<1>2. (ArchFits' <=> ArchFits) /\ (RunsAgent' <=> RunsAgent) /\ ProbeTools' = ProbeTools
      BY <1>1 DEF ArchFits, RunsAgent, ProbeTools
<1>3. ProbeHolds'
      BY <1>1 DEF HInv, ProbeHolds
<1>4. QED
      BY <1>1, <1>2, <1>3 DEF HInv

\* Each step is one phase's, and leaves the others' variables alone.
LEMMA NextIInv == IInv /\ [Next]_vars => IInv'
<1> SUFFICES ASSUME IInv, [Next]_vars PROVE IInv'
    OBVIOUS
<1> USE DEF IInv
<1>1. CASE Configure
      BY <1>1, ConfigureCInv, KInvKept, AInvKept, HInvKept DEF Configure
<1>2. CASE HaveSettings
      BY <1>2, HaveSettingsCInv, KInvKept, AInvKept, HInvKept DEF HaveSettings
<1>3. CASE Connect
      BY <1>3, DialKInv, CInvKept, AInvKept, HInvKept DEF Connect
<1>4. CASE Connecting
      BY <1>4, ConnectingKInv, CInvKept, AInvKept, HInvKept DEF Connecting
<1>5. CASE Connected
      BY <1>5, ConnectedKInv, CInvKept, AInvKept, HInvKept DEF Connected
<1>6. CASE LogIn
      BY <1>6, FindKeysAInv, TryKeyAInv, NoKeyLeftAInv, CInvKept, KInvKept, HInvKept DEF LogIn
<1>7. CASE LoggedIn
      BY <1>7, LoggedInAInv, CInvKept, KInvKept, HInvKept DEF LoggedIn
<1>8. CASE Command
      BY <1>8, MeetHInv, MeetAgainHInv, ProbeHInv, CheckRequirementsHInv, SyncHInv, CargoHInv,
         CInvKept, KInvKept, AInvKept DEF Command, HNext
<1>9. CASE UNCHANGED vars
      BY <1>9, CInvKept, KInvKept, AInvKept, HInvKept DEF vars
<1>10. QED
       BY <1>1, <1>2, <1>3, <1>4, <1>5, <1>6, <1>7, <1>8, <1>9 DEF Next

\* The invariant of every phase holds throughout a run.
THEOREM SetupInvariant == Spec => []IInv
<1>1. Init => IInv
      BY InitIInv
<1>2. IInv /\ [Next]_vars => IInv'
      BY NextIInv
<1>3. QED
      BY <1>1, <1>2, PTL DEF Spec

\* Whatever the files and the options hold, each setting comes from the highest
\* layer that may give it.
THEOREM HighestWinsHolds == Spec => []HighestWins
<1>1. IInv => HighestWins
      BY DEF IInv, CInv, HighestWins
<1>2. QED
      BY <1>1, SetupInvariant, PTL

\* Binaries come back if the highest layer that speaks of it says so, and when
\* none does, from every host but one of a project file.
THEOREM CopyBackFollowsHostHolds == Spec => []CopyBackFollowsHost
<1>1. IInv => CopyBackFollowsHost
      BY DEF IInv, CInv
<1>2. QED
      BY <1>1, SetupInvariant, PTL

\* Nothing is sent to a server that nobody vouches for.
THEOREM VouchedHolds == Spec => []Vouched
<1>1. IInv => Vouched
      BY DEF IInv, KInv
<1>2. QED
      BY <1>1, SetupInvariant, PTL

\* A key of the user that works and is reached is not passed over.
THEOREM UsableKeyWinsHolds == Spec => []UsableKeyWins
<1>1. IInv => UsableKeyWins
      BY DEF IInv, AInv
<1>2. QED
      BY <1>1, SetupInvariant, PTL

\* A host that a probe calls ready turns no run away, for any host and settings,
\* but for the cases that ProbeHolds names.
THEOREM ProbeKeepsWord == Spec => []ProbeHolds
<1>1. IInv => ProbeHolds
      BY DEF IInv, HInv
<1>2. QED
      BY <1>1, SetupInvariant, PTL

=============================================================================
