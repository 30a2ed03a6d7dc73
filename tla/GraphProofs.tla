---------------------------- MODULE GraphProofs ----------------------------
(* For every program and all packages: loading keeps its types, a program  *)
(* that is accepted has been loaded whole, in order and once; what is      *)
(* resolved of packages is sound, and the lockfile tells if it changed.    *)
(* The two are part of one specification in JoinedGraphs. And of every     *)
(* program: the inference of its return types comes to rest.               *)
EXTENDS JoinedGraphs, Inference, FiniteSetTheorems, TLAPS

Stacked == \A s \in DOMAIN stack : stack[s].file \in program.files
Shape ==
  /\ program \in Programs
  /\ Stacked /\ Loaded \subseteq program.files
  /\ pc = "load" => stack # <<>> /\ stack[1].file = program.root
  /\ pc \in {"collect", "done"} =>
       loadOrder # <<>> /\ loadOrder[Len(loadOrder)] = program.root
  /\ pc = "done" => diagnostics = {}

TypeInv == TypeOK /\ Shape

(* A module is loaded or being loaded at most once.                        *)
OnceLoaded == \A i, j \in DOMAIN loadOrder : loadOrder[i] = loadOrder[j] => i = j
OnceLoading == \A r, s \in DOMAIN stack : stack[r].file = stack[s].file => r = s
NotBoth == \A i \in DOMAIN loadOrder, s \in DOMAIN stack : loadOrder[i] # stack[s].file
Distinct == OnceLoaded /\ OnceLoading /\ NotBoth

(* As long as nothing is wrong, the imports of a loaded module are loaded  *)
(* before it, and so are those a module on the stack is past; only the one *)
(* it waits for is on the stack above it.                                  *)
Fine(f, n) == Refusal(f, n) = {}
LoadedBehind ==
  \A i \in DOMAIN loadOrder : \A j \in DOMAIN program.imports[loadOrder[i]] :
    /\ Fine(loadOrder[i], program.imports[loadOrder[i]][j])
    /\ \E k \in DOMAIN loadOrder : k < i
         /\ loadOrder[k] \in Resolved(loadOrder[i], program.imports[loadOrder[i]][j])
PastImport(s, j) ==
  /\ j \in DOMAIN program.imports[stack[s].file]
  /\ Fine(stack[s].file, program.imports[stack[s].file][j])
  /\ \/ \E k \in DOMAIN loadOrder :
          loadOrder[k] \in Resolved(stack[s].file, program.imports[stack[s].file][j])
     \/ /\ s < Len(stack) /\ j = stack[s].next - 1
        /\ stack[s + 1].file \in Resolved(stack[s].file, program.imports[stack[s].file][j])
PastBehind == \A s \in DOMAIN stack : \A j \in 1 .. stack[s].next - 1 : PastImport(s, j)
Behind == diagnostics = {} => LoadedBehind /\ PastBehind

(* Collecting goes through the modules in load order, and through the      *)
(* kinds of each; what it is past has its item as long as nothing is wrong,*)
(* and seen knows the names of the items.                                  *)
Rank(k) == CASE k = "struct" -> 1 [] k = "enum" -> 2 [] k = "function" -> 3 [] k = "method" -> 4
Past(i, k, j) ==
  \/ i < module
  \/ i = module /\ Rank(k) < Rank(declaration[1])
  \/ i = module /\ k = declaration[1] /\ j < declaration[2]
HasItem(f, k, j) ==
  \E x \in DOMAIN items : items[x] = [kind |-> k, name |-> program.declares[f][k][j], file |-> f]
CollectedBehind ==
  diagnostics = {} =>
    \A i \in DOMAIN loadOrder, k \in Kinds : \A j \in DOMAIN program.declares[loadOrder[i]][k] :
      Past(i, k, j) => HasItem(loadOrder[i], k, j)
AllSeen == \A x \in DOMAIN items : items[x].name \in seen[items[x].kind]
Unambiguous ==
  \A x, y \in DOMAIN items :
    (x # y /\ items[x].name = items[y].name) =>
      /\ items[x].kind # items[y].kind
      /\ items[x].kind = "function" => items[y].kind = "method"
CollectStart == pc = "load" => module = 1 /\ declaration = <<"struct", 1>>
CollectEnd == pc = "done" => module > Len(loadOrder)
Collected == CollectedBehind /\ AllSeen /\ Unambiguous /\ CollectStart /\ CollectEnd

----------------------------------------------------------------------------
(* Resolution depends on the program alone, and an import that is not      *)
(* refused stands for a file of the program.                               *)
LEMMA ResolutionIsStatic ==
  ASSUME program' = program, NEW f, NEW n
  PROVE  Refusal(f, n)' = Refusal(f, n) /\ Resolved(f, n)' = Resolved(f, n)
BY DEF Refusal, Resolved, Conflicts, SameDir, PackageRoot, Dependency, InPackage, Package, IsFile

LEMMA FineResolves ==
  ASSUME NEW f, NEW n, Fine(f, n)
  PROVE  Resolved(f, n) # {} /\ Resolved(f, n) \subseteq program.files
<1>1. Resolved(f, n) # {}
  BY DEF Fine, Refusal
<1>2. /\ SameDir(f, n) \subseteq program.files
      /\ PackageRoot(f, n) \subseteq program.files
  BY DEF SameDir, PackageRoot, IsFile
<1> DEFINE std == {g \in {<<Std, n>>} : n \in Reserved /\ IsFile(g)}
           dep == {g \in Dependency(f, n) : IsFile(g)}
           candidates ==
             <<std, IF n \in Reserved THEN {} ELSE SameDir(f, n), PackageRoot(f, n), dep>>
<1>3. std \subseteq program.files /\ dep \subseteq program.files
  BY DEF IsFile
<1>4. \A i \in DOMAIN candidates : candidates[i] \subseteq program.files
  BY <1>2, <1>3
<1>5. Resolved(f, n) \subseteq UNION {candidates[i] : i \in DOMAIN candidates}
  BY DEF Resolved
<1>6. Resolved(f, n) \subseteq program.files
  <2> HIDE DEF candidates
  <2> QED  BY <1>4, <1>5
<1> QED  BY <1>1, <1>6

(* The target of an import that is not refused.                            *)
LEMMA TargetIsResolved ==
  ASSUME Importing, Trouble = {}
  PROVE  /\ Target \in Resolved(Top.file, Imports[Top.next])
         /\ Target \in program.files
<1>1. Resolved(Top.file, Imports[Top.next]) # {}
      /\ Resolved(Top.file, Imports[Top.next]) \subseteq program.files
  BY FineResolves DEF Trouble, Fine
<1> QED  BY <1>1 DEF Target

(* What the steps do to the stack and the load order, as functions.        *)
LEMMA AdvancedShape ==
  ASSUME TypeOK, stack # <<>>
  PROVE  /\ Advanced \in Seq(Frames) /\ Len(Advanced) = Len(stack)
         /\ \A s \in DOMAIN stack :
              /\ Advanced[s].file = stack[s].file
              /\ Advanced[s].next = IF s = Len(stack) THEN stack[s].next + 1 ELSE stack[s].next
<1> DEFINE n == Len(stack)
<1>1. n \in DOMAIN stack /\ stack[n] \in Frames /\ stack \in [1 .. n -> Frames] /\ n \in Nat
  BY DEF TypeOK
<1>2. [stack[n] EXCEPT !.next = @ + 1] \in Frames
  BY <1>1 DEF Frames
<1>3. Advanced = [stack EXCEPT ![n] = [stack[n] EXCEPT !.next = @ + 1]]
  BY DEF Advanced
<1>4. Advanced \in [1 .. n -> Frames]
  BY <1>1, <1>2, <1>3
<1>5. Advanced \in Seq(Frames) /\ Len(Advanced) = n
  BY <1>1, <1>4
<1>6. \A s \in DOMAIN stack :
        /\ Advanced[s].file = stack[s].file
        /\ Advanced[s].next = IF s = n THEN stack[s].next + 1 ELSE stack[s].next
  BY <1>1, <1>3 DEF Frames
<1> QED  BY <1>5, <1>6

LEMMA PushedShape ==
  ASSUME TypeOK, stack # <<>>, NEW f \in Files,
         stack' = Append(Advanced, [file |-> f, next |-> 1])
  PROVE  /\ stack' \in Seq(Frames) /\ Len(stack') = Len(stack) + 1
         /\ stack'[Len(stack) + 1] = [file |-> f, next |-> 1]
         /\ \A s \in DOMAIN stack : stack'[s] = Advanced[s]
<1>1. [file |-> f, next |-> 1] \in Frames
  BY DEF Frames
<1> HIDE DEF Advanced
<1> QED  BY <1>1, AdvancedShape DEF TypeOK

LEMMA PoppedShape ==
  ASSUME TypeOK, stack # <<>>, stack' = SubSeq(stack, 1, Len(stack) - 1)
  PROVE  /\ stack' \in Seq(Frames) /\ Len(stack') = Len(stack) - 1
         /\ \A s \in DOMAIN stack' : s \in DOMAIN stack /\ stack'[s] = stack[s]
<1>1. stack \in Seq(Frames) /\ Len(stack) \in Nat \ {0} /\ DOMAIN stack = 1 .. Len(stack)
  BY DEF TypeOK
<1>2. stack' \in Seq(Frames) /\ Len(stack') = Len(stack) - 1
  BY <1>1
<1>3. \A s \in 1 .. Len(stack) - 1 : stack'[s] = stack[s]
  BY <1>1
<1> QED  BY <1>1, <1>2, <1>3

LEMMA ListedShape ==
  ASSUME TypeOK, NEW f \in Files, loadOrder' = Append(loadOrder, f)
  PROVE  /\ loadOrder' \in Seq(Files) /\ Len(loadOrder') = Len(loadOrder) + 1
         /\ loadOrder'[Len(loadOrder) + 1] = f
         /\ \A i \in DOMAIN loadOrder : loadOrder'[i] = loadOrder[i]
         /\ \A i \in DOMAIN loadOrder' : i \in DOMAIN loadOrder \/ i = Len(loadOrder) + 1
BY DEF TypeOK

----------------------------------------------------------------------------
LEMMA Initially == Init => TypeInv /\ Distinct /\ Behind
<1> SUFFICES ASSUME Init PROVE TypeInv /\ Distinct /\ Behind
  OBVIOUS
<1>1. /\ program.root \in program.files /\ program.files \subseteq Files
  BY ProgramAssumption DEF Init
<1>2. TypeOK
  <2>1. stack \in Seq(Frames)
    <3> DEFINE frame == [file |-> program.root, next |-> 1]
    <3>1. frame \in Frames
      BY <1>1 DEF Frames
    <3>2. stack = <<>> \/ stack = <<frame>>
      BY DEF Init
    <3>3. <<frame>> \in Seq(Frames)
      <4> HIDE DEF frame
      <4> QED  BY <3>1
    <3>4. <<>> \in Seq(Frames)
      OBVIOUS
    <3> HIDE DEF frame
    <3> QED  BY <3>2, <3>3, <3>4
  <2>2. declaration \in Kinds \X (Nat \ {0}) /\ seen \in [Kinds -> SUBSET Items]
    BY DEF Init, Kinds
  <2>3. /\ loadOrder \in Seq(Files) /\ items \in Seq(Item) /\ module \in Nat \ {0}
        /\ pc \in {"load", "collect", "done", "failed"} /\ diagnostics \subseteq Problems
    BY DEF Init, Problems
  <2> QED  BY <2>1, <2>2, <2>3 DEF TypeOK
<1>3. Shape
  BY <1>1 DEF Init, Shape, Stacked, Loaded
<1>4. Distinct
  BY DEF Init, Distinct, OnceLoaded, OnceLoading, NotBoth
<1>5. Behind
  BY DEF Init, Behind, LoadedBehind, PastBehind
<1> QED  BY <1>2, <1>3, <1>4, <1>5 DEF TypeInv

(* Importing or finishing, the top of the stack is a module of the program.*)
LEMMA TopIsFile ==
  ASSUME TypeInv, stack # <<>>
  PROVE  /\ Len(stack) \in DOMAIN stack
         /\ Top.file \in program.files /\ Top.next \in Nat \ {0}
         /\ program.files \subseteq Files
         /\ Imports \in Seq(Names)
<1>1. Len(stack) \in DOMAIN stack
  BY DEF TypeInv, TypeOK
<1>2. /\ program.files \subseteq Files
      /\ program.imports \in [program.files -> Seq(Names)]
  BY ProgramAssumption DEF TypeInv, Shape
<1>3. Top.file \in program.files /\ Top.next \in Nat \ {0}
  <2>1. stack[Len(stack)] \in Frames
    BY <1>1 DEF TypeInv, TypeOK
  <2> QED  BY <1>1, <2>1 DEF Top, TypeInv, Shape, Stacked, Frames
<1> QED  BY <1>1, <1>2, <1>3 DEF Imports

LEMMA TypeStep == TypeInv /\ [Next]_vars => TypeInv'
<1> SUFFICES ASSUME TypeInv, [Next]_vars PROVE TypeInv'
  OBVIOUS
<1> USE DEF TypeInv
<1>0. ASSUME NEW trouble \in SUBSET Problems, stack # <<>>, pc = "load",
             diagnostics' = diagnostics \cup trouble, stack' = Advanced,
             UNCHANGED <<loading, pc, loadOrder>>
      PROVE  TypeInv'
  <2>1. TypeOK'
    BY <1>0, AdvancedShape DEF TypeOK, loading
  <2>2. Shape'
    <3>1. Stacked'
      BY <1>0, AdvancedShape DEF Shape, Stacked, loading
    <3>2. Loaded' = Loaded /\ program' = program
      BY <1>0 DEF Loaded, loading
    <3>3. stack' # <<>> /\ stack'[1].file = program.root
      BY <1>0, AdvancedShape DEF Shape, TypeOK
    <3> QED  BY <1>0, <3>1, <3>2, <3>3 DEF Shape
  <2> QED  BY <2>1, <2>2
<1>1. CASE RefuseImport
  <2>1. Trouble \subseteq Problems
    BY DEF Trouble, Refusal, Problems
  <2> QED  BY <1>0, <1>1, <2>1 DEF RefuseImport, Importing
<1>2. CASE FindCycle
  BY <1>0, <1>2 DEF FindCycle, Importing, Problems
<1>3. CASE FindLoaded
  <2>1. diagnostics' = diagnostics \cup {}
    BY <1>3 DEF FindLoaded
  <2> QED  BY <1>0, <1>3, <2>1 DEF FindLoaded, Importing
<1>4. CASE FindUnreadable
  BY <1>0, <1>4 DEF FindUnreadable, Importing, Problems
<1>5. CASE Descend
  <2>1. /\ pc = "load" /\ stack # <<>> /\ Target \in program.files /\ Target \in Files
        /\ program' = program /\ UNCHANGED <<loadOrder, module, declaration, seen, items>>
    BY <1>5, TargetIsResolved, TopIsFile DEF Descend, Importing, loading
  <2>2. CASE Target \in program.broken
    BY <1>5, <2>1, <2>2 DEF Descend, TypeOK, Shape, Stacked, Loaded, Problems
  <2>3. CASE Target \notin program.broken
    <3>1. stack' = Append(Advanced, [file |-> Target, next |-> 1])
          /\ UNCHANGED <<pc, diagnostics>>
      BY <1>5, <2>3 DEF Descend
    <3>2. TypeOK'
      BY <2>1, <3>1, PushedShape DEF TypeOK
    <3>3. Stacked'
      <4> SUFFICES ASSUME NEW s \in DOMAIN stack' PROVE stack'[s].file \in program.files
        BY <2>1 DEF Stacked
      <4>1. s \in DOMAIN stack \/ s = Len(stack) + 1
        BY <2>1, <3>1, PushedShape DEF TypeOK
      <4> QED  BY <2>1, <3>1, <4>1, PushedShape, AdvancedShape DEF Shape, Stacked
    <3>4. stack' # <<>> /\ stack'[1].file = program.root
      BY <2>1, <3>1, PushedShape, AdvancedShape DEF Shape, TypeOK
    <3> QED  BY <2>1, <3>1, <3>2, <3>3, <3>4 DEF Shape, Loaded
  <2> QED  BY <2>2, <2>3
<1>6. CASE FinishModule
  <2>1. /\ pc = "load" /\ stack # <<>> /\ Top.file \in Files /\ Top.file \in program.files
        /\ stack' = SubSeq(stack, 1, Len(stack) - 1) /\ loadOrder' = Append(loadOrder, Top.file)
        /\ UNCHANGED <<program, diagnostics, module, declaration, seen, items>>
        /\ pc' = IF Len(stack) = 1 THEN "collect" ELSE "load"
    BY <1>6, TopIsFile DEF FinishModule, loading
  <2>2. TypeOK'
    BY <2>1, PoppedShape, ListedShape DEF TypeOK
  <2>3. Stacked'
    BY <2>1, PoppedShape DEF Shape, Stacked
  <2>4. Loaded' \subseteq program.files
    BY <2>1, ListedShape DEF Loaded, Shape
  <2>5. pc' = "load" => stack' # <<>> /\ stack'[1].file = program.root
    BY <2>1, PoppedShape, SMTT(30) DEF Shape, TypeOK
  <2>6. pc' = "collect" => loadOrder' # <<>> /\ loadOrder'[Len(loadOrder')] = program.root
    BY <2>1, ListedShape DEF Shape, Top, TypeOK
  <2> QED  BY <2>1, <2>2, <2>3, <2>4, <2>5, <2>6 DEF Shape
<1>7. CASE Collect \/ NextKind \/ Conclude
  <2> USE DEF Collecting, collecting
  <2>1. Shape'
    BY <1>7 DEF Collect, NextKind, Conclude, Shape, Stacked, Loaded
  <2>2. Collecting => loadOrder[module] \in program.files /\ declaration[1] \in Kinds
    BY DEF TypeOK, Loaded, Shape
  <2>3. Collecting => Declared \in Seq(Items)
    BY <2>2, ProgramAssumption DEF Declared, Shape
  <2>4. TypeOK'
    <3>1. CASE Collect
      <4>1. /\ declaration[1] \in Kinds /\ declaration[2] \in Nat \ {0}
            /\ loadOrder[module] \in Files /\ Here \in Items
        BY <3>1, <2>2, <2>3, ProgramAssumption DEF Collect, Here, TypeOK, Shape
      <4>2. declaration' \in Kinds \X (Nat \ {0})
        BY <3>1, <4>1 DEF Collect
      <4>3. [kind |-> declaration[1], name |-> Here, file |-> loadOrder[module]] \in Item
        BY <4>1 DEF Item
      <4> DEFINE item == [kind |-> declaration[1], name |-> Here, file |-> loadOrder[module]]
      <4>4. items' = items \/ items' = Append(items, item)
        BY <3>1 DEF Collect
      <4>5. items' \in Seq(Item)
        <5>1. item \in Item
          BY <4>3
        <5>2. items \in Seq(Item)
          BY DEF TypeOK
        <5>3. Append(items, item) \in Seq(Item)
          <6> HIDE DEF item
          <6> QED  BY <5>1, <5>2
        <5> QED  BY <5>2, <5>3, <4>4
      <4>6. seen' = seen \/ seen' = [seen EXCEPT ![declaration[1]] = @ \cup {Here}]
        BY <3>1 DEF Collect
      <4>7. seen' \in [Kinds -> SUBSET Items]
        BY <4>1, <4>6 DEF TypeOK
      <4>8. diagnostics' \subseteq Problems
        BY <3>1 DEF Collect, TypeOK, Problems
      <4> QED  BY <3>1, <4>2, <4>5, <4>7, <4>8 DEF Collect, TypeOK
    <3>2. CASE NextKind
      <4>1. KindAfter(declaration[1]) \in Kinds
        BY DEF KindAfter, Kinds, TypeOK
      <4> QED  BY <3>2, <4>1 DEF NextKind, TypeOK
    <3>3. CASE Conclude
      BY <3>3 DEF Conclude, TypeOK
    <3> QED  BY <1>7, <3>1, <3>2, <3>3
  <2> QED  BY <2>1, <2>4
<1>8. CASE UNCHANGED vars
  BY <1>8 DEF vars, TypeOK, Shape, Stacked, Loaded
<1> QED  BY <1>1, <1>2, <1>3, <1>4, <1>5, <1>6, <1>7, <1>8 DEF Next

(* A module is pushed only when it is neither loaded nor being loaded.     *)
LEMMA DistinctStep == TypeInv /\ Distinct /\ [Next]_vars => Distinct'
<1> SUFFICES ASSUME TypeInv, Distinct, [Next]_vars PROVE Distinct'
  OBVIOUS
<1> USE DEF Distinct, OnceLoaded, OnceLoading, NotBoth
<1>0. /\ stack \in Seq(Frames) /\ loadOrder \in Seq(Files)
      /\ DOMAIN stack = 1 .. Len(stack) /\ DOMAIN loadOrder = 1 .. Len(loadOrder)
      /\ Len(stack) \in Nat /\ Len(loadOrder) \in Nat
  BY DEF TypeInv, TypeOK
<1>1. ASSUME stack # <<>>, stack' = Advanced, loadOrder' = loadOrder
      PROVE  Distinct'
  <2>1. DOMAIN stack' = DOMAIN stack /\ \A s \in DOMAIN stack : stack'[s].file = stack[s].file
    BY <1>0, <1>1, AdvancedShape DEF TypeInv
  <2> QED  BY <1>1, <2>1
<1>2. CASE RefuseImport \/ FindCycle \/ FindLoaded \/ FindUnreadable
  BY <1>1, <1>2 DEF RefuseImport, FindCycle, FindLoaded, FindUnreadable, Importing
<1>3. CASE Descend
  <2>1. /\ stack # <<>> /\ Target \in Files /\ loadOrder' = loadOrder
        /\ Target \notin Loading /\ Target \notin Loaded
    BY <1>3, TargetIsResolved, TopIsFile DEF Descend, Importing
  <2>2. \/ stack' = stack
        \/ stack' = Append(Advanced, [file |-> Target, next |-> 1])
    BY <1>3 DEF Descend
  <2>3. CASE stack' = stack
    BY <2>1, <2>3
  <2>4. CASE stack' = Append(Advanced, [file |-> Target, next |-> 1])
    <3> DEFINE n == Len(stack)
    <3>1. /\ DOMAIN stack' = 1 .. n + 1 /\ stack'[n + 1].file = Target
          /\ \A s \in 1 .. n : stack'[s].file = stack[s].file
      <4>1. /\ stack' \in Seq(Frames) /\ Len(stack') = n + 1
            /\ stack'[n + 1] = [file |-> Target, next |-> 1]
            /\ \A s \in DOMAIN stack : stack'[s] = Advanced[s]
        BY <2>1, <2>4, PushedShape DEF TypeInv
      <4>2. \A s \in DOMAIN stack : Advanced[s].file = stack[s].file
        BY <2>1, AdvancedShape DEF TypeInv
      <4> QED  BY <1>0, <4>1, <4>2
    <3>2. /\ \A s \in 1 .. n : stack[s].file # Target
          /\ \A i \in DOMAIN loadOrder : loadOrder[i] # Target
      BY <1>0, <2>1 DEF Loading, Loaded
    <3>3. \A s \in 1 .. n + 1 : s \in 1 .. n \/ s = n + 1
      BY <1>0
    <3> QED  BY <1>0, <2>1, <3>1, <3>2, <3>3
  <2> QED  BY <2>2, <2>3, <2>4
<1>4. CASE FinishModule
  <2>1. /\ stack # <<>> /\ Top.file \in Files /\ Len(stack) \in DOMAIN stack
        /\ stack' = SubSeq(stack, 1, Len(stack) - 1) /\ loadOrder' = Append(loadOrder, Top.file)
    BY <1>4, TopIsFile DEF FinishModule
  <2>2. \A s \in DOMAIN stack' :
          s \in DOMAIN stack /\ s # Len(stack) /\ stack'[s] = stack[s]
    BY <1>0, <2>1, PoppedShape DEF TypeInv
  <2>3. /\ \A i \in DOMAIN loadOrder' : i \in DOMAIN loadOrder \/ i = Len(loadOrder) + 1
        /\ \A i \in DOMAIN loadOrder : loadOrder'[i] = loadOrder[i]
        /\ loadOrder'[Len(loadOrder) + 1] = stack[Len(stack)].file
    BY <1>0, <2>1, ListedShape DEF TypeInv, Top
  <2>4. OnceLoaded'
    BY <2>1, <2>3
  <2>5. OnceLoading'
    BY <2>2
  <2>6. NotBoth'
    BY <2>1, <2>2, <2>3
  <2> QED  BY <2>4, <2>5, <2>6
<1>5. CASE Collect \/ NextKind \/ Conclude \/ UNCHANGED vars
  BY <1>5 DEF Collect, NextKind, Conclude, vars, collecting
<1> QED  BY <1>2, <1>3, <1>4, <1>5 DEF Next

(* What a module is past is loaded, or what it waits for is on the stack:  *)
(* finishing turns the second into the first.                              *)
LEMMA BehindStep == TypeInv /\ Behind /\ [Next]_vars => Behind'
<1> SUFFICES ASSUME TypeInv, Behind, [Next]_vars, diagnostics' = {}
             PROVE  LoadedBehind' /\ PastBehind'
  BY DEF Behind
<1>0. /\ stack \in Seq(Frames) /\ loadOrder \in Seq(Files)
      /\ DOMAIN stack = 1 .. Len(stack) /\ DOMAIN loadOrder = 1 .. Len(loadOrder)
      /\ Len(stack) \in Nat /\ Len(loadOrder) \in Nat
      /\ \A s \in DOMAIN stack : stack[s].next \in Nat \ {0}
  <2>1. \A s \in DOMAIN stack : stack[s] \in Frames
    BY DEF TypeInv, TypeOK
  <2> QED  BY <2>1 DEF TypeInv, TypeOK, Frames
<1>1. program' = program
  BY DEF Next, RefuseImport, FindCycle, FindLoaded, FindUnreadable, Descend, FinishModule,
         Collect, NextKind, Conclude, loading, collecting, vars
<1>2. \A f, n : Fine(f, n)' = Fine(f, n) /\ Resolved(f, n)' = Resolved(f, n)
  BY <1>1, ResolutionIsStatic DEF Fine
<1>3. LoadedBehind /\ PastBehind
  <2>1. diagnostics = {}
    BY DEF Next, RefuseImport, FindCycle, FindLoaded, FindUnreadable, Descend, FinishModule,
           Collect, NextKind, Conclude, loading, collecting, vars
  <2> QED  BY <2>1 DEF Behind
<1>4. CASE loadOrder' = loadOrder /\ stack' = stack
  BY <1>1, <1>2, <1>3, <1>4 DEF LoadedBehind, PastBehind, PastImport
<1>5. CASE FindLoaded
  <2>1. /\ stack # <<>> /\ loadOrder' = loadOrder /\ stack' = Advanced
        /\ Trouble = {} /\ Target \in Loaded /\ Importing
    BY <1>5 DEF FindLoaded, Importing
  <2>2. LoadedBehind'
    BY <1>1, <1>2, <1>3, <2>1 DEF LoadedBehind
  <2>3. /\ Target \in Resolved(Top.file, Imports[Top.next])
        /\ Fine(Top.file, Imports[Top.next]) /\ Top.next \in DOMAIN Imports
    BY <2>1, TargetIsResolved, TopIsFile DEF Fine, Trouble, Importing
  <2>4. PastBehind'
    <3> SUFFICES ASSUME NEW s \in DOMAIN stack', NEW j \in 1 .. stack'[s].next - 1
                 PROVE  PastImport(s, j)'
      BY DEF PastBehind
    <3>1. /\ s \in DOMAIN stack /\ stack'[s].file = stack[s].file /\ Len(stack') = Len(stack)
          /\ \A r \in DOMAIN stack : stack'[r].file = stack[r].file
          /\ stack'[s].next = IF s = Len(stack) THEN stack[s].next + 1 ELSE stack[s].next
      BY <1>0, <2>1, AdvancedShape DEF TypeInv
    <3>2. CASE s = Len(stack) /\ j = stack[s].next
      <4>1. \E k \in DOMAIN loadOrder : loadOrder[k] = Target
        BY <2>1 DEF Loaded
      <4> QED  BY <1>1, <1>2, <2>1, <2>3, <3>1, <3>2, <4>1 DEF PastImport, Top, Imports
    <3>3. CASE ~(s = Len(stack) /\ j = stack[s].next)
      <4>1. j \in 1 .. stack[s].next - 1
        BY <1>0, <3>1, <3>3
      <4>2. PastImport(s, j)
        BY <1>3, <3>1, <4>1 DEF PastBehind
      <4>3. s < Len(stack) => s + 1 \in DOMAIN stack
        BY <1>0, <3>1
      <4> QED  BY <1>0, <1>1, <1>2, <2>1, <3>1, <4>1, <4>2, <4>3 DEF PastImport
    <3> QED  BY <3>2, <3>3
  <2> QED  BY <2>2, <2>4
<1>6. CASE Descend /\ stack' # stack
  <2>1. /\ stack # <<>> /\ loadOrder' = loadOrder /\ Trouble = {} /\ Importing
        /\ Target \in Files /\ stack' = Append(Advanced, [file |-> Target, next |-> 1])
    BY <1>6, TargetIsResolved, TopIsFile DEF Descend, Importing
  <2>2. LoadedBehind'
    BY <1>1, <1>2, <1>3, <2>1 DEF LoadedBehind
  <2>3. /\ Target \in Resolved(Top.file, Imports[Top.next])
        /\ Fine(Top.file, Imports[Top.next]) /\ Top.next \in DOMAIN Imports
    BY <2>1, TargetIsResolved, TopIsFile DEF Fine, Trouble, Importing
  <2>4. /\ Len(stack') = Len(stack) + 1 /\ DOMAIN stack' = 1 .. Len(stack) + 1
        /\ stack'[Len(stack) + 1] = [file |-> Target, next |-> 1]
        /\ \A r \in DOMAIN stack :
             /\ stack'[r].file = stack[r].file
             /\ stack'[r].next = IF r = Len(stack) THEN stack[r].next + 1 ELSE stack[r].next
    BY <1>0, <2>1, PushedShape, AdvancedShape DEF TypeInv
  <2>5. PastBehind'
    <3> SUFFICES ASSUME NEW s \in DOMAIN stack', NEW j \in 1 .. stack'[s].next - 1
                 PROVE  PastImport(s, j)'
      BY DEF PastBehind
    <3>1. s \in DOMAIN stack
      BY <1>0, <2>4
    <3>2. CASE s = Len(stack) /\ j = stack[s].next
      <4>1. /\ stack'[s].file = Top.file /\ s < Len(stack') /\ j = stack'[s].next - 1
            /\ stack'[s + 1].file = Target /\ j = Top.next
        BY <1>0, <2>4, <3>1, <3>2 DEF Top
      <4> QED  BY <1>1, <1>2, <2>3, <4>1 DEF PastImport, Imports
    <3>3. CASE ~(s = Len(stack) /\ j = stack[s].next)
      <4>1. j \in 1 .. stack[s].next - 1
        BY <1>0, <2>4, <3>1, <3>3
      <4>2. PastImport(s, j)
        BY <1>3, <3>1, <4>1 DEF PastBehind
      <4>3. s < Len(stack) => s + 1 \in DOMAIN stack
        BY <1>0, <3>1
      <4> QED  BY <1>0, <1>1, <1>2, <2>1, <2>4, <3>1, <4>1, <4>2, <4>3 DEF PastImport
    <3> QED  BY <3>2, <3>3
  <2> QED  BY <2>2, <2>5
<1>7. CASE FinishModule
  <2> DEFINE n == Len(stack)
             last == Len(loadOrder) + 1
  <2>1. /\ stack # <<>> /\ Top.file \in Files /\ n \in DOMAIN stack
        /\ stack' = SubSeq(stack, 1, n - 1) /\ loadOrder' = Append(loadOrder, Top.file)
        /\ Top.next > Len(Imports) /\ Top.next \in Nat /\ Imports \in Seq(Names)
    BY <1>7, TopIsFile DEF FinishModule
  <2>2. /\ \A i \in DOMAIN loadOrder' : i \in DOMAIN loadOrder \/ i = last
        /\ \A i \in DOMAIN loadOrder : loadOrder'[i] = loadOrder[i]
        /\ DOMAIN loadOrder' = 1 .. last
        /\ loadOrder'[last] = Top.file
    BY <1>0, <2>1, ListedShape DEF TypeInv
  <2>3. \A j \in DOMAIN Imports :
          /\ Fine(Top.file, Imports[j])
          /\ \E k \in DOMAIN loadOrder : loadOrder[k] \in Resolved(Top.file, Imports[j])
    <3> SUFFICES ASSUME NEW j \in DOMAIN Imports
                 PROVE  /\ Fine(Top.file, Imports[j])
                        /\ \E k \in DOMAIN loadOrder :
                             loadOrder[k] \in Resolved(Top.file, Imports[j])
      OBVIOUS
    <3>1. j \in 1 .. Top.next - 1
      BY <2>1
    <3>2. PastImport(n, j)
      BY <1>3, <2>1, <3>1 DEF PastBehind, Top
    <3> QED  BY <1>0, <3>2 DEF PastImport, Top, Imports
  <2>4. LoadedBehind'
    <3> SUFFICES ASSUME NEW i \in DOMAIN loadOrder',
                        NEW j \in DOMAIN program.imports[loadOrder'[i]]
                 PROVE  /\ Fine(loadOrder'[i], program.imports[loadOrder'[i]][j])
                        /\ \E k \in DOMAIN loadOrder' : k < i
                             /\ loadOrder'[k] \in
                                  Resolved(loadOrder'[i], program.imports[loadOrder'[i]][j])
      BY <1>1, <1>2 DEF LoadedBehind
    <3>1. CASE i \in DOMAIN loadOrder
      BY <1>0, <1>3, <2>2, <3>1 DEF LoadedBehind
    <3>2. CASE i = last
      BY <1>0, <2>2, <2>3, <3>2 DEF Imports
    <3> QED  BY <2>2, <3>1, <3>2
  <2>5. PastBehind'
    <3> SUFFICES ASSUME NEW s \in DOMAIN stack', NEW j \in 1 .. stack'[s].next - 1
                 PROVE  PastImport(s, j)'
      BY DEF PastBehind
    <3>1. /\ s \in DOMAIN stack /\ stack'[s] = stack[s] /\ s < n
          /\ Len(stack') = n - 1
          /\ \A r \in DOMAIN stack' : stack'[r] = stack[r]
      BY <1>0, <2>1, PoppedShape DEF TypeInv
    <3>2. PastImport(s, j)
      BY <1>3, <3>1 DEF PastBehind
    <3>3. CASE s = n - 1
      BY <1>0, <1>1, <1>2, <2>2, <3>1, <3>2, <3>3 DEF PastImport, Top
    <3>4. CASE s < n - 1
      <4>1. s + 1 \in DOMAIN stack'
        BY <1>0, <2>1, <3>1, <3>4
      <4> QED  BY <1>0, <1>1, <1>2, <2>2, <3>1, <3>2, <3>4, <4>1 DEF PastImport
    <3> QED  BY <1>0, <3>1, <3>3, <3>4
  <2> QED  BY <2>4, <2>5
<1>8. CASE RefuseImport \/ FindCycle \/ FindUnreadable
  BY <1>8 DEF RefuseImport, FindCycle, FindUnreadable
<1>9. CASE Collect \/ NextKind \/ Conclude \/ UNCHANGED vars \/ (Descend /\ stack' = stack)
  BY <1>4, <1>9 DEF Collect, NextKind, Conclude, vars, collecting, Descend
<1> QED  BY <1>5, <1>6, <1>7, <1>8, <1>9 DEF Next

(* Modules are pushed along imports that are resolved.                     *)
LEMMA CyclesStep == TypeInv /\ CyclesAreReal /\ [Next]_vars => CyclesAreReal'
<1> SUFFICES ASSUME TypeInv, CyclesAreReal, [Next]_vars PROVE CyclesAreReal'
  OBVIOUS
<1>0. /\ stack \in Seq(Frames) /\ DOMAIN stack = 1 .. Len(stack) /\ Len(stack) \in Nat
  BY DEF TypeInv, TypeOK
<1>1. program' = program
  BY DEF Next, RefuseImport, FindCycle, FindLoaded, FindUnreadable, Descend, FinishModule,
         Collect, NextKind, Conclude, loading, collecting, vars
<1>2. Edges' = Edges
  <2>1. \A f, n : Refusal(f, n)' = Refusal(f, n) /\ Resolved(f, n)' = Resolved(f, n)
    BY <1>1, ResolutionIsStatic
  <2> QED  BY <1>1, <2>1 DEF Edges, ImportsOf
<1>3. ASSUME stack # <<>>, stack' = Advanced
      PROVE  CyclesAreReal'
  <2>1. Len(stack') = Len(stack) /\ \A s \in DOMAIN stack : stack'[s].file = stack[s].file
    BY <1>3, AdvancedShape DEF TypeInv
  <2> SUFFICES ASSUME NEW i \in 1 .. Len(stack) - 1
               PROVE  <<stack'[i].file, stack'[i + 1].file>> \in Edges
    BY <1>2, <2>1 DEF CyclesAreReal
  <2>2. i \in DOMAIN stack /\ i + 1 \in DOMAIN stack
    BY <1>0
  <2> QED  BY <2>1, <2>2 DEF CyclesAreReal
<1>4. CASE RefuseImport \/ FindCycle \/ FindLoaded \/ FindUnreadable
  BY <1>3, <1>4 DEF RefuseImport, FindCycle, FindLoaded, FindUnreadable, Importing
<1>5. CASE Descend /\ stack' # stack
  <2>1. /\ stack # <<>> /\ Trouble = {} /\ Importing /\ Target \in Files
        /\ stack' = Append(Advanced, [file |-> Target, next |-> 1])
    BY <1>5, TargetIsResolved, TopIsFile DEF Descend, Importing
  <2>2. <<Top.file, Target>> \in Edges
    <3>1. /\ Target \in Resolved(Top.file, Imports[Top.next]) /\ Target \in program.files
          /\ Top.file \in program.files /\ Refusal(Top.file, Imports[Top.next]) = {}
          /\ Top.next \in DOMAIN Imports
      BY <2>1, TargetIsResolved, TopIsFile DEF Importing, Trouble
    <3>2. Imports[Top.next] \in ImportsOf(Top.file)
      BY <3>1 DEF Imports, ImportsOf
    <3> QED  BY <3>1, <3>2 DEF Edges
  <2>3. /\ Len(stack') = Len(stack) + 1 /\ stack'[Len(stack) + 1].file = Target
        /\ \A s \in DOMAIN stack : stack'[s].file = stack[s].file
    BY <2>1, PushedShape, AdvancedShape DEF TypeInv
  <2> SUFFICES ASSUME NEW i \in 1 .. Len(stack)
               PROVE  <<stack'[i].file, stack'[i + 1].file>> \in Edges
    BY <1>0, <1>2, <2>3 DEF CyclesAreReal
  <2>4. CASE i = Len(stack)
    BY <1>0, <2>2, <2>3, <2>4 DEF Top
  <2>5. CASE i # Len(stack)
    <3>1. i \in 1 .. Len(stack) - 1
      <4>1. Len(stack) \in Nat
        BY <1>0
      <4> QED  BY <4>1, <2>5
    <3>2. i + 1 \in 1 .. Len(stack)
      BY <1>0, <3>1
    <3> QED  BY <1>0, <2>3, <3>1, <3>2 DEF CyclesAreReal
  <2> QED  BY <2>4, <2>5
<1>6. CASE FinishModule
  <2>1. /\ Len(stack') = Len(stack) - 1
        /\ \A s \in DOMAIN stack' : s \in DOMAIN stack /\ stack'[s] = stack[s]
        /\ stack' \in Seq(Frames)
    BY <1>6, PoppedShape DEF TypeInv, FinishModule
  <2>2. \A i \in 1 .. Len(stack') - 1 : i \in DOMAIN stack' /\ i + 1 \in DOMAIN stack'
    BY <1>0, <2>1
  <2> QED  BY <1>0, <1>2, <2>1, <2>2 DEF CyclesAreReal
<1>7. CASE stack' = stack
  BY <1>2, <1>7 DEF CyclesAreReal
<1>8. CASE Collect \/ NextKind \/ Conclude \/ UNCHANGED vars \/ (Descend /\ stack' = stack)
  BY <1>7, <1>8 DEF Collect, NextKind, Conclude, vars, collecting
<1> QED  BY <1>4, <1>5, <1>6, <1>8 DEF Next

----------------------------------------------------------------------------
(* Every declaration that collecting is past has its item, every name of   *)
(* an item is seen, and a name that is seen makes no second item.          *)
LEMMA CollectedInitially == Init => CyclesAreReal /\ Collected
<1> SUFFICES ASSUME Init PROVE CyclesAreReal /\ Collected
  OBVIOUS
<1>1. CyclesAreReal
  BY DEF Init, CyclesAreReal
<1>2. CollectedBehind
  BY DEF Init, CollectedBehind
<1>3. AllSeen /\ Unambiguous /\ CollectStart /\ CollectEnd
  BY DEF Init, AllSeen, Unambiguous, CollectStart, CollectEnd
<1> QED  BY <1>1, <1>2, <1>3 DEF Collected

LEMMA CollectedStep == TypeInv /\ Collected /\ [Next]_vars => Collected'
<1> SUFFICES ASSUME TypeInv, Collected, [Next]_vars PROVE Collected'
  OBVIOUS
<1>0. /\ items \in Seq(Item) /\ DOMAIN items = 1 .. Len(items) /\ Len(items) \in Nat
      /\ loadOrder \in Seq(Files) /\ DOMAIN loadOrder = 1 .. Len(loadOrder)
      /\ Len(loadOrder) \in Nat /\ module \in Nat \ {0}
      /\ declaration[1] \in Kinds /\ declaration[2] \in Nat \ {0}
      /\ declaration = <<declaration[1], declaration[2]>>
      /\ seen \in [Kinds -> SUBSET Items]
  BY DEF TypeInv, TypeOK
<1>1. \A i \in DOMAIN loadOrder, k \in Kinds : program.declares[loadOrder[i]][k] \in Seq(Items)
  <2>1. program.declares \in [program.files -> [Kinds -> Seq(Items)]]
    BY ProgramAssumption DEF TypeInv, Shape
  <2>2. \A i \in DOMAIN loadOrder : loadOrder[i] \in program.files
    BY DEF TypeInv, Shape, Loaded
  <2> QED  BY <2>1, <2>2
<1>2. CASE RefuseImport \/ FindCycle \/ FindLoaded \/ FindUnreadable \/ Descend \/ FinishModule
  <2>1. /\ pc = "load" /\ pc' # "done" /\ UNCHANGED loading
    BY <1>2 DEF RefuseImport, FindCycle, FindLoaded, FindUnreadable, Descend, FinishModule,
                Importing
  <2>2. module' = 1 /\ declaration' = <<"struct", 1>>
    BY <2>1 DEF Collected, CollectStart, loading
  <2>3. CollectedBehind'
    <3> SUFFICES ASSUME NEW i \in DOMAIN loadOrder', NEW k \in Kinds,
                        NEW j \in DOMAIN program'.declares[loadOrder'[i]][k], Past(i, k, j)'
                 PROVE  FALSE
      BY DEF CollectedBehind
    <3>1. loadOrder' \in Seq(Files) /\ i \in Nat \ {0}
      <4>1. TypeInv'
        BY TypeStep
      <4> QED  BY <4>1 DEF TypeInv, TypeOK
    <3>2. j \in Nat \ {0}
      <4>1. program' = program
        BY <2>1 DEF loading
      <4>2. program'.declares[loadOrder'[i]][k] \in Seq(Items)
        <5>1. loadOrder'[i] \in program.files
          BY TypeStep, <3>1, <4>1 DEF TypeInv, Shape, Loaded
        <5> QED  BY <4>1, <5>1, ProgramAssumption DEF TypeInv, Shape
      <4> QED  BY <4>2
    <3> QED  BY <2>2, <3>1, <3>2 DEF Past, Rank, Kinds
  <2>4. AllSeen' /\ Unambiguous'
    BY <2>1 DEF loading, Collected, AllSeen, Unambiguous
  <2> QED  BY <2>1, <2>2, <2>3, <2>4 DEF Collected, CollectStart, CollectEnd
<1>3. CASE Collect
  <2> DEFINE k == declaration[1]
             item == [kind |-> k, name |-> Here, file |-> loadOrder[module]]
  <2>1. /\ pc = "collect" /\ pc' = "collect" /\ module \in DOMAIN loadOrder
        /\ declaration[2] \in DOMAIN Declared /\ Here \in Items /\ item \in Item
        /\ Declared = program.declares[loadOrder[module]][k]
        /\ UNCHANGED <<program, loadOrder, module>>
        /\ declaration' = <<k, declaration[2] + 1>>
    <3>1. /\ pc = "collect" /\ pc' = "collect" /\ module \in DOMAIN loadOrder
          /\ declaration[2] <= Len(Declared)
          /\ UNCHANGED <<program, loadOrder, module>>
          /\ declaration' = <<k, declaration[2] + 1>>
      BY <1>0, <1>3 DEF Collect, Collecting, collecting
    <3>2. Declared \in Seq(Items)
      BY <1>0, <1>1, <3>1 DEF Declared
    <3>3. declaration[2] \in DOMAIN Declared /\ Here \in Items
      BY <1>0, <3>1, <3>2 DEF Here
    <3> QED  BY <1>0, <3>1, <3>3 DEF Declared, Item
  <2>2. \/ /\ diagnostics' # {} /\ UNCHANGED <<seen, items>>
        \/ /\ \A r \in Rivals(k) : Here \notin seen[r]
           /\ seen' = [seen EXCEPT ![k] = @ \cup {Here}]
           /\ items' = Append(items, item) /\ diagnostics' = diagnostics
    BY <1>3 DEF Collect
  <2>3. CASE diagnostics' # {} /\ UNCHANGED <<seen, items>>
    BY <2>1, <2>3 DEF Collected, CollectedBehind, AllSeen, Unambiguous, CollectStart, CollectEnd
  <2>4. CASE /\ \A r \in Rivals(k) : Here \notin seen[r]
             /\ seen' = [seen EXCEPT ![k] = @ \cup {Here}]
             /\ items' = Append(items, item) /\ diagnostics' = diagnostics
    <3>1. /\ DOMAIN items' = 1 .. Len(items) + 1 /\ items'[Len(items) + 1] = item
          /\ \A x \in DOMAIN items : items'[x] = items[x]
      <4> HIDE DEF item
      <4> QED  BY <1>0, <2>1, <2>4
    <3>2. CollectedBehind'
      <4> SUFFICES ASSUME diagnostics = {}, NEW i \in DOMAIN loadOrder, NEW m \in Kinds,
                          NEW j \in DOMAIN program.declares[loadOrder[i]][m], Past(i, m, j)'
                   PROVE  HasItem(loadOrder[i], m, j)'
        BY <2>1, <2>4 DEF CollectedBehind
      <4>1. CASE Past(i, m, j)
        <5>1. HasItem(loadOrder[i], m, j)
          BY <4>1 DEF Collected, CollectedBehind
        <5> QED  BY <1>0, <2>1, <3>1, <5>1 DEF HasItem
      <4>2. CASE ~Past(i, m, j)
        <5>1. i = module /\ m = k /\ j = declaration[2]
          <6>1. j \in Nat
            BY <1>1
          <6> QED  BY <1>0, <2>1, <4>2, <6>1 DEF Past
        <5> QED  BY <2>1, <3>1, <5>1, <1>0 DEF HasItem, Here
      <4> QED  BY <4>1, <4>2
    <3>3. \A x \in DOMAIN items : items[x].kind \in Kinds
      <4>1. \A x \in DOMAIN items : items[x] \in Item
        BY <1>0
      <4> QED  BY <4>1 DEF Item
    <3>4. AllSeen'
      BY <1>0, <2>4, <3>1, <3>3 DEF Collected, AllSeen
    <3>5. ASSUME NEW x \in DOMAIN items, items[x].name = Here
          PROVE  items[x].kind \notin Rivals(k)
      BY <2>4, <3>5 DEF Collected, AllSeen
    <3>6. Unambiguous'
      <4>1. ASSUME NEW x \in DOMAIN items, items[x].name = Here
            PROVE  /\ items[x].kind # k
                   /\ items[x].kind = "function" => k = "method"
                   /\ k = "function" => items[x].kind = "method"
        BY <1>0, <3>3, <3>5, <4>1 DEF Rivals, Kinds
      <4> QED  BY <1>0, <3>1, <4>1 DEF Collected, Unambiguous
    <3> QED  BY <2>1, <3>2, <3>4, <3>6 DEF Collected, CollectStart, CollectEnd
  <2> QED  BY <2>2, <2>3, <2>4
<1>4. CASE NextKind
  <2>1. /\ pc = "collect" /\ pc' = "collect" /\ module \in DOMAIN loadOrder
        /\ declaration[2] > Len(program.declares[loadOrder[module]][declaration[1]])
        /\ UNCHANGED <<program, loadOrder, diagnostics, seen, items>>
        /\ declaration' = <<KindAfter(declaration[1]), 1>>
        /\ module' = IF declaration[1] = "method" THEN module + 1 ELSE module
    BY <1>0, <1>4 DEF NextKind, Collecting, collecting, Declared
  <2>2. CollectedBehind'
    <3> SUFFICES ASSUME diagnostics = {}, NEW i \in DOMAIN loadOrder, NEW m \in Kinds,
                        NEW j \in DOMAIN program.declares[loadOrder[i]][m], Past(i, m, j)'
                 PROVE  HasItem(loadOrder[i], m, j)
      BY <2>1 DEF CollectedBehind, HasItem
    <3>1. j \in Nat \ {0} /\ j <= Len(program.declares[loadOrder[i]][m])
      BY <1>1
    <3>2. CASE declaration[1] = "method"
      <4>1. i < module \/ i = module
        BY <1>0, <2>1, <3>1, <3>2 DEF Past, Rank, Kinds, KindAfter
      <4> QED  BY <1>0, <2>1, <3>1, <3>2, <4>1
               DEF Collected, CollectedBehind, Past, Rank, Kinds
    <3>3. CASE declaration[1] # "method"
      <4>1. i < module \/ (i = module /\ Rank(m) <= Rank(declaration[1]))
        BY <1>0, <2>1, <3>1, <3>3 DEF Past, Rank, Kinds, KindAfter
      <4>2. Rank(m) < Rank(declaration[1]) \/ m = declaration[1]
                \/ Rank(m) > Rank(declaration[1])
        BY <1>0 DEF Rank, Kinds
      <4>3. Past(i, m, j)
        BY <1>0, <2>1, <3>1, <4>1, <4>2 DEF Past, Rank, Kinds
      <4> QED  BY <4>3 DEF Collected, CollectedBehind
    <3> QED  BY <3>2, <3>3
  <2> QED  BY <2>1, <2>2 DEF Collected, AllSeen, Unambiguous, CollectStart, CollectEnd
<1>5. CASE Conclude
  <2>1. /\ UNCHANGED <<program, loadOrder, diagnostics, module, declaration, seen, items>>
        /\ module > Len(loadOrder) /\ pc' # "load"
    BY <1>5 DEF Conclude, collecting
  <2>2. CollectedBehind'
    BY <2>1 DEF Collected, CollectedBehind, Past, HasItem
  <2> QED  BY <2>1, <2>2 DEF Collected, AllSeen, Unambiguous, CollectStart, CollectEnd
<1>6. CASE UNCHANGED vars
  BY <1>6 DEF vars, Collected, CollectedBehind, Past, HasItem, AllSeen, Unambiguous,
              CollectStart, CollectEnd
<1> QED  BY <1>2, <1>3, <1>4, <1>5, <1>6 DEF Next

----------------------------------------------------------------------------
LEMMA Inductive == Spec => [](TypeInv /\ Distinct /\ Behind)
<1>1. TypeInv /\ Distinct /\ Behind /\ [Next]_vars => (TypeInv /\ Distinct /\ Behind)'
  BY TypeStep, DistinctStep, BehindStep
<1> QED  BY <1>1, Initially, PTL DEF Spec

(* Loading keeps the types of its state, whatever the program.             *)
THEOREM TypeCorrect == Spec => []TypeOK
<1>1. TypeInv => TypeOK
  BY DEF TypeInv
<1> QED  BY <1>1, Inductive, PTL

(* Every program that module_graph.rs accepts has been loaded whole, each  *)
(* module once, its imports before it and the root last.                   *)
THEOREM LoadedInOrderHolds == Spec => []LoadedInOrder
<1>1. TypeInv /\ Distinct /\ Behind => LoadedInOrder
  <2> SUFFICES ASSUME TypeInv, Distinct, Behind, pc = "done" PROVE
               /\ \A f \in Loaded : \A n \in ImportsOf(f) :
                    Refusal(f, n) = {} /\ \E g \in Resolved(f, n) : Before(g, f)
               /\ \A i, j \in DOMAIN loadOrder : loadOrder[i] = loadOrder[j] => i = j
               /\ loadOrder[Len(loadOrder)] = program.root
    BY DEF LoadedInOrder
  <2>1. LoadedBehind /\ diagnostics = {}
    BY DEF Behind, TypeInv, Shape
  <2>2. ASSUME NEW f \in Loaded, NEW n \in ImportsOf(f)
        PROVE  Refusal(f, n) = {} /\ \E g \in Resolved(f, n) : Before(g, f)
    <3>1. PICK i \in DOMAIN loadOrder : f = loadOrder[i]
      BY <2>2 DEF Loaded
    <3>2. PICK j \in DOMAIN program.imports[f] : n = program.imports[f][j]
      BY <2>2 DEF ImportsOf
    <3>3. /\ Fine(f, n)
          /\ \E k \in DOMAIN loadOrder : k < i /\ loadOrder[k] \in Resolved(f, n)
      BY <2>1, <3>1, <3>2 DEF LoadedBehind
    <3> QED  BY <3>1, <3>3 DEF Fine, Before
  <2> QED  BY <2>2 DEF Distinct, OnceLoaded, TypeInv, Shape
<1> QED  BY <1>1, Inductive, PTL

LEMMA SoundInductive == Spec => [](TypeInv /\ CyclesAreReal /\ Collected)
<1>1. TypeInv /\ CyclesAreReal /\ Collected /\ [Next]_vars
        => (TypeInv /\ CyclesAreReal /\ Collected)'
  BY TypeStep, CyclesStep, CollectedStep
<1>2. Init => TypeInv /\ CyclesAreReal /\ Collected
  BY Initially, CollectedInitially
<1> QED  BY <1>1, <1>2, PTL DEF Spec

(* Of every program that module_graph.rs accepts, all the declarations of  *)
(* all its modules are collected, no call has two meanings, and whenever a *)
(* cycle is reported the modules do import one another in a ring.          *)
THEOREM ModulesAreSoundHolds == Spec => []ModulesAreSound
<1>1. TypeInv /\ Collected => ItemsAreSound
  <2> SUFFICES ASSUME TypeInv, Collected, pc = "done" PROVE AllCollected /\ CallsAreUnambiguous
    BY DEF ItemsAreSound, AllCollected, CallsAreUnambiguous
  <2>1. /\ module > Len(loadOrder) /\ diagnostics = {} /\ module \in Nat
        /\ loadOrder \in Seq(Files)
    BY DEF Collected, CollectEnd, TypeInv, TypeOK, Shape
  <2>2. AllCollected
    <3> SUFFICES ASSUME NEW f \in Loaded, NEW k \in Kinds,
                        NEW j \in DOMAIN program.declares[f][k]
                 PROVE  HasItem(f, k, j)
      BY DEF AllCollected, HasItem
    <3>1. PICK i \in DOMAIN loadOrder : f = loadOrder[i]
      BY DEF Loaded
    <3>2. Past(i, k, j)
      BY <2>1, <3>1 DEF Past
    <3> QED  BY <2>1, <3>1, <3>2 DEF Collected, CollectedBehind
  <2>3. CallsAreUnambiguous
    BY DEF Collected, Unambiguous, CallsAreUnambiguous
  <2> QED  BY <2>2, <2>3
<1>2. TypeInv /\ CyclesAreReal /\ Collected => ModulesAreSound
  BY <1>1 DEF ModulesAreSound
<1> QED  BY <1>2, SoundInductive, PTL

----------------------------------------------------------------------------
(***************************************************************************)
(* The packages and their lockfile.                                        *)
(***************************************************************************)

(* The packages resolved, and those being visited.                         *)
Frame == [root : Roots, manifest : P!Manifest, next : Nat \ {0}, found : Seq(Modules)]
Record == [root : Roots, manifest : P!Manifest, found : Seq(Modules), entry : {"main", "lib"}]

Deps(p) == p.manifest.dependencies
IsResolved(done, r) == \E j \in DOMAIN done : done[j].root = r

WalkTypes ==
  /\ disk \in [Roots -> P!Directory] /\ \A r \in Roots : disk[r] \in Contents[r]
  /\ pkgPc \in {"idle", "context", "root", "visit", "finish"}
  /\ command \in {"write", "check"} /\ answer \in P!Answers
  /\ edits \in 0 .. MaxEdits /\ disturbed \in BOOLEAN
  /\ pkgStack \in Seq(Frame) /\ packages \in Seq(Record)
  /\ pkgModules \subseteq Modules \X Roots

(* Where the walk is.                                                      *)
PlaceInv ==
  /\ pkgPc \in {"context", "root"} => pkgStack = <<>> /\ packages = <<>> /\ pkgModules = {}
  /\ pkgPc = "visit" => pkgStack # <<>>
  /\ pkgStack # <<>> => pkgStack[1].root = Main
  /\ pkgPc = "finish" \/ P!Accepted =>
       pkgStack = <<>> /\ packages # <<>> /\ packages[Len(packages)].root = Main
  /\ pkgPc = "idle" /\ answer = "cycle" =>
       pkgStack # <<>> /\ P!Top.next <= Len(Deps(P!Top)) /\ P!OnStack(P!Target)

(* No directory is visited twice, and no module has two directories.       *)
ApartInv ==
  /\ \A i, j \in DOMAIN pkgStack : pkgStack[i].root = pkgStack[j].root => i = j
  /\ \A i, j \in DOMAIN packages : packages[i].root = packages[j].root => i = j
  /\ \A i \in DOMAIN pkgStack : ~IsResolved(packages, pkgStack[i].root)
  /\ \A i \in DOMAIN pkgStack : <<pkgStack[i].manifest.module, pkgStack[i].root>> \in pkgModules
  /\ \A i \in DOMAIN packages : <<packages[i].manifest.module, packages[i].root>> \in pkgModules
  /\ \A p, q \in pkgModules : p[1] = q[1] => p[2] = q[2]

(* The first n dependencies of p are resolved, and found under their names.*)
Noted(done, p, n) ==
  /\ Len(p.found) = n /\ n \in 0 .. Len(Deps(p))
  /\ \A d \in 1 .. n : \E j \in DOMAIN done :
       done[j].root = Deps(p)[d].root /\ done[j].manifest.module = p.found[d]

(* The walk is depth first.                                                *)
WalkInv ==
  /\ \A i \in DOMAIN pkgStack : Noted(packages, pkgStack[i], pkgStack[i].next - 1)
  /\ \A i \in 1 .. Len(pkgStack) - 1 :
       /\ pkgStack[i].next <= Len(Deps(pkgStack[i]))
       /\ Deps(pkgStack[i])[pkgStack[i].next].root = pkgStack[i + 1].root
  /\ \A i \in DOMAIN packages : Noted(packages, packages[i], Len(Deps(packages[i])))
  /\ P!DependenciesFirst

(* Without an edit what was read is what is there.                         *)
CurrentInv ==
  ~disturbed =>
    /\ \A i \in DOMAIN pkgStack : pkgStack[i].manifest = disk[pkgStack[i].root].manifest
    /\ \A i \in DOMAIN packages :
         /\ packages[i].manifest = disk[packages[i].root].manifest
         /\ packages[i].entry \in P!Entries(packages[i].root)

WalkIInv == WalkTypes /\ PlaceInv /\ ApartInv /\ WalkInv /\ CurrentInv

(* A resolution: the packages W, each once, with all that they need.       *)
Whole(W) ==
  /\ W \subseteq Record
  /\ \A p, q \in W : p.root = q.root => p = q
  /\ \A p \in W :
       /\ Len(p.found) = Len(Deps(p))
       /\ \A d \in 1 .. Len(Deps(p)) : \E q \in W :
            q.root = Deps(p)[d].root /\ q.manifest.module = p.found[d]

LockOf(W) ==
  [packages |-> {P!LockedPackage(p) : p \in W},
   edition |-> {p.manifest.edition : p \in {q \in W : q.root = Main}}]
ManifestsOf(W) ==
  [r \in {p.root : p \in W} |-> (CHOOSE p \in W : p.root = r).manifest]

(* The lockfile is of a resolution, and an answer compared it with one.    *)
LockInv ==
  /\ lock # NoLock => \E W : Whole(W) /\ lock = LockOf(W) /\ locked = ManifestsOf(W)
  /\ pkgPc = "idle" /\ answer = "written" => command = "write"
  /\ pkgPc = "idle" /\ answer = "no lock" => lock = NoLock
  /\ pkgPc = "idle" /\ answer = "fresh" => lock = P!Lockfile
  /\ pkgPc = "idle" /\ answer = "stale" => lock # P!Lockfile

----------------------------------------------------------------------------
(* The parts of the state, and what Noting does.                           *)

LEMMA Typed ==
  ASSUME WalkTypes
  PROVE  /\ Len(pkgStack) \in Nat /\ DOMAIN pkgStack = 1 .. Len(pkgStack)
         /\ Len(packages) \in Nat /\ DOMAIN packages = 1 .. Len(packages)
         /\ \A i \in DOMAIN pkgStack : pkgStack[i] \in Frame
         /\ \A i \in DOMAIN packages : packages[i] \in Record
BY DEF WalkTypes

LEMMA FrameFields ==
  ASSUME NEW f \in Frame
  PROVE  /\ f.root \in Roots /\ f.manifest \in P!Manifest /\ f.next \in Nat \ {0}
         /\ f.found \in Seq(Modules) /\ f.manifest.module \in Modules
         /\ Deps(f) \in Seq(P!Dependency) /\ Len(Deps(f)) \in Nat
         /\ \A d \in 1 .. Len(Deps(f)) : Deps(f)[d].root \in Roots
<1>1. f.root \in Roots /\ f.manifest \in P!Manifest /\ f.next \in Nat \ {0} /\ f.found \in Seq(Modules)
  BY DEF Frame
<1>2. Deps(f) \in Seq(P!Dependency) /\ f.manifest.module \in Modules
  BY <1>1 DEF P!Manifest, Deps
<1>3. Len(Deps(f)) \in Nat /\ \A d \in 1 .. Len(Deps(f)) : Deps(f)[d] \in P!Dependency
  BY <1>2
<1> QED  BY <1>1, <1>2, <1>3 DEF P!Dependency

LEMMA RecordFields ==
  ASSUME NEW p \in Record
  PROVE  /\ p.root \in Roots /\ p.manifest \in P!Manifest /\ p.found \in Seq(Modules)
         /\ p.entry \in {"main", "lib"} /\ p.manifest.module \in Modules
         /\ Deps(p) \in Seq(P!Dependency) /\ Len(Deps(p)) \in Nat
BY DEF Record, P!Manifest, Deps

LEMMA KnownManifest ==
  ASSUME P!PackageAssumption, WalkTypes, NEW r \in Roots, P!Problem(r) = {}
  PROVE  disk[r].manifest \in P!Manifest /\ disk[r].manifest.module \in Modules
<1>1. disk[r] \in P!Directory
  BY DEF WalkTypes
<1>2. disk[r].manifest \in P!Manifest \cup {NoManifest, BadManifest}
  BY <1>1 DEF P!Directory
<1>3. disk[r].manifest \in P!Manifest
  BY <1>2 DEF P!Problem
<1> QED  BY <1>3 DEF P!Manifest

LEMMA NotingTop ==
  ASSUME NEW s \in Seq(Frame), s # <<>>, NEW m \in Modules
  PROVE  /\ P!Noting(m, s) \in Seq(Frame) /\ Len(P!Noting(m, s)) = Len(s)
         /\ Len(s) \in Nat \ {0}
         /\ \A i \in 1 .. Len(s) - 1 : P!Noting(m, s)[i] = s[i]
         /\ P!Noting(m, s)[Len(s)].root = s[Len(s)].root
         /\ P!Noting(m, s)[Len(s)].manifest = s[Len(s)].manifest
         /\ P!Noting(m, s)[Len(s)].next = s[Len(s)].next + 1
         /\ P!Noting(m, s)[Len(s)].found = Append(s[Len(s)].found, m)
<1>1. PICK f : f = [s[Len(s)] EXCEPT !.next = @ + 1, !.found = Append(@, m)]
  OBVIOUS
<1>2. Len(s) \in Nat \ {0} /\ s[Len(s)] \in Frame
  OBVIOUS
<1>3. P!Noting(m, s) = [s EXCEPT ![Len(s)] = f]
  BY <1>1, <1>2 DEF P!Noting
<1>4. /\ f.root = s[Len(s)].root /\ f.manifest = s[Len(s)].manifest
      /\ f.next = s[Len(s)].next + 1 /\ f.found = Append(s[Len(s)].found, m)
  BY <1>1, <1>2 DEF Frame
<1>5. f \in Frame
  <2>1. s[Len(s)].next + 1 \in Nat \ {0} /\ Append(s[Len(s)].found, m) \in Seq(Modules)
    BY <1>2, FrameFields
  <2> QED  BY <1>1, <1>2, <2>1 DEF Frame
<1>6. /\ [s EXCEPT ![Len(s)] = f] \in Seq(Frame) /\ Len([s EXCEPT ![Len(s)] = f]) = Len(s)
      /\ [s EXCEPT ![Len(s)] = f][Len(s)] = f
      /\ \A i \in 1 .. Len(s) - 1 : [s EXCEPT ![Len(s)] = f][i] = s[i]
  BY <1>2, <1>5
<1> QED  BY <1>2, <1>3, <1>4, <1>6

(* What was behind a package stays behind it.                              *)
LEMMA NotedStays ==
  ASSUME NEW done, NEW more,
         \A j \in DOMAIN done : j \in DOMAIN more /\ more[j] = done[j],
         NEW p, NEW n, Noted(done, p, n)
  PROVE  Noted(more, p, n)
BY DEF Noted

(* One more dependency is behind it.                                       *)
LEMMA NotedGrows ==
  ASSUME NEW done, NEW p \in Frame, Noted(done, p, p.next - 1), p.next <= Len(Deps(p)),
         NEW q \in Frame, q.manifest = p.manifest, q.next = p.next + 1,
         NEW m \in Modules, q.found = Append(p.found, m),
         \E j \in DOMAIN done :
           done[j].root = Deps(p)[p.next].root /\ done[j].manifest.module = m
  PROVE  Noted(done, q, q.next - 1)
<1>1. /\ p.found \in Seq(Modules) /\ Len(p.found) = p.next - 1 /\ p.next \in Nat \ {0}
      /\ Len(Deps(p)) \in Nat /\ Deps(q) = Deps(p)
  BY FrameFields DEF Noted, Deps
<1>2. Len(q.found) = p.next /\ q.next - 1 = p.next
  BY <1>1
<1>3. \A d \in 1 .. p.next - 1 : q.found[d] = p.found[d]
  BY <1>1
<1>4. q.found[p.next] = m
  BY <1>1
<1>5. \A d \in 1 .. p.next : d = p.next \/ d \in 1 .. p.next - 1
  BY <1>1
<1>6. \A d \in 1 .. p.next : \E j \in DOMAIN done :
        done[j].root = Deps(q)[d].root /\ done[j].manifest.module = q.found[d]
  BY <1>1, <1>3, <1>4, <1>5 DEF Noted
<1> QED  BY <1>1, <1>2, <1>6 DEF Noted

----------------------------------------------------------------------------
(* The steps of the walk, by their effects.                                *)

Refusals == P!Answers \ {"none", "written", "fresh", "stale", "no lock"}
Refuses ==
  /\ pkgPc' = "idle" /\ answer' \in Refusals /\ UNCHANGED <<pkgStack, packages, pkgModules>>
  /\ answer' = "cycle" => pkgPc = "visit" /\ P!Top.next <= Len(Deps(P!Top)) /\ P!OnStack(P!Target)

Enters(r, m) ==
  /\ r \in Roots /\ m \in P!Manifest /\ m = disk[r].manifest
  /\ ~P!OnStack(r) /\ ~IsResolved(packages, r) /\ P!Rivals(r, m) = {}
  /\ pkgStack' = Append(pkgStack, [root |-> r, manifest |-> m, next |-> 1, found |-> <<>>])
  /\ pkgModules' = pkgModules \cup {<<m.module, r>>}
  /\ pkgPc' = "visit" /\ UNCHANGED <<packages, answer>>

MeetsAgain(m) ==
  /\ P!Visiting /\ m \in Modules
  /\ \E j \in DOMAIN packages : packages[j].root = P!Target /\ packages[j].manifest.module = m
  /\ pkgStack' = P!Noting(m, pkgStack) /\ UNCHANGED <<pkgPc, packages, pkgModules, answer>>

Same == UNCHANGED <<P!world, lock, locked, command>>

LEMMA VisitEffect ==
  ASSUME P!PackageAssumption, WalkIInv, P!Visit
  PROVE  /\ Same
         /\ \/ Refuses
            \/ P!Visiting /\ \E m \in P!Manifest : Enters(P!Target, m)
            \/ \E m \in Modules : MeetsAgain(m)
<1>1. Same /\ P!Visiting /\ pkgStack # <<>>
  BY DEF P!Visit, Same, WalkIInv, PlaceInv, P!Visiting
<1>2. P!Top \in Frame /\ P!Top.next \in 1 .. Len(Deps(P!Top)) /\ P!Target \in Roots
      /\ P!Target = Deps(P!Top)[P!Top.next].root
  <2>1. P!Top \in Frame
    BY <1>1, Typed DEF P!Top, WalkIInv
  <2> QED  BY <1>1, <2>1, FrameFields DEF P!Visiting, P!Target, Deps
<1>3. PICK r : r = P!Target
  OBVIOUS
<1>4. CASE P!Problem(r) # {}
  <2>1. PICK why \in P!Problem(r) : P!Fail(why)
    BY <1>3, <1>4 DEF P!Visit
  <2>2. why \in {"missing", "manifest"}
    BY <2>1 DEF P!Problem
  <2> QED  BY <1>1, <2>1, <2>2 DEF P!Fail, Refuses, Refusals, P!Answers
<1>5. CASE P!Problem(r) = {} /\ P!OnStack(r)
  <2>1. P!Fail("cycle")
    BY <1>3, <1>5 DEF P!Visit
  <2> QED  BY <1>1, <1>2, <1>3, <1>5, <2>1 DEF P!Fail, Refuses, Refusals, P!Answers, P!Visiting
<1>6. CASE P!Problem(r) = {} /\ ~P!OnStack(r)
  <2>1. PICK m : m = disk[r].manifest
    OBVIOUS
  <2>2. m \in P!Manifest /\ m.module \in Modules
    BY <1>2, <1>3, <1>6, <2>1, KnownManifest DEF WalkIInv
  <2>3. CASE P!Rivals(r, m) # {}
    <3>1. P!Fail("module")
      BY <1>3, <1>6, <2>1, <2>3 DEF P!Visit
    <3> QED  BY <1>1, <3>1 DEF P!Fail, Refuses, Refusals, P!Answers
  <2>4. CASE P!Rivals(r, m) = {} /\ \E p \in P!Earlier(r) : p.manifest.module # m.module \/ p.manifest.edition # m.edition
    <3>1. P!Fail("metadata")
      BY <1>3, <1>6, <2>1, <2>4 DEF P!Visit
    <3> QED  BY <1>1, <3>1 DEF P!Fail, Refuses, Refusals, P!Answers
  <2>5. CASE /\ P!Rivals(r, m) = {}
             /\ ~ \E p \in P!Earlier(r) : p.manifest.module # m.module \/ p.manifest.edition # m.edition
             /\ P!Earlier(r) # {}
    <3>1. pkgStack' = P!Noting(m.module, pkgStack) /\ UNCHANGED <<pkgPc, packages, pkgModules, answer>>
      BY <1>3, <1>6, <2>1, <2>5 DEF P!Visit
    <3>2. \E j \in DOMAIN packages : packages[j].root = r /\ packages[j].manifest.module = m.module
      BY <2>5 DEF P!Earlier, P!Resolved
    <3> QED  BY <1>1, <1>3, <2>2, <3>1, <3>2 DEF MeetsAgain
  <2>6. CASE P!Rivals(r, m) = {} /\ P!Earlier(r) = {}
    <3>1. P!Push(r, m, pkgStack)
      BY <1>3, <1>6, <2>1, <2>6 DEF P!Visit
    <3>2. ~IsResolved(packages, r)
      BY <2>6 DEF P!Earlier, P!Resolved, IsResolved
    <3>3. Enters(r, m)
      BY <1>2, <1>3, <1>6, <2>1, <2>2, <2>6, <3>1, <3>2 DEF P!Push, Enters
    <3> QED  BY <1>1, <1>3, <2>2, <3>3
  <2> QED  BY <2>3, <2>4, <2>5, <2>6
<1> QED  BY <1>4, <1>5, <1>6

LEMMA VisitMainEffect ==
  ASSUME P!PackageAssumption, WalkIInv, P!VisitMain
  PROVE  Same /\ (Refuses \/ (pkgStack = <<>> /\ \E m \in P!Manifest : Enters(Main, m)))
<1>1. Same /\ pkgStack = <<>> /\ packages = <<>> /\ pkgModules = {} /\ Main \in Roots
  BY DEF P!VisitMain, Same, WalkIInv, PlaceInv, P!PackageAssumption
<1>2. CASE P!Problem(Main) # {}
  <2>1. PICK why \in P!Problem(Main) : P!Fail(why)
    BY <1>2 DEF P!VisitMain
  <2>2. why \in {"missing", "manifest"}
    BY <2>1 DEF P!Problem
  <2> QED  BY <1>1, <2>1, <2>2 DEF P!Fail, Refuses, Refusals, P!Answers
<1>3. CASE P!Problem(Main) = {}
  <2>1. P!Push(Main, disk[Main].manifest, pkgStack)
    BY <1>3 DEF P!VisitMain
  <2>2. disk[Main].manifest \in P!Manifest
    BY <1>1, <1>3, KnownManifest DEF WalkIInv
  <2>3. ~P!OnStack(Main) /\ ~IsResolved(packages, Main) /\ P!Rivals(Main, disk[Main].manifest) = {}
    BY <1>1 DEF P!OnStack, IsResolved, P!Rivals
  <2> QED  BY <1>1, <2>1, <2>2, <2>3 DEF P!Push, Enters
<1> QED  BY <1>2, <1>3

Finished(e) == [root |-> P!Top.root, manifest |-> P!Top.manifest, found |-> P!Top.found, entry |-> e]
Below == SubSeq(pkgStack, 1, Len(pkgStack) - 1)
Finishes(e) ==
  /\ pkgPc = "visit" /\ pkgStack # <<>> /\ ~(P!Top.next <= Len(Deps(P!Top)))
  /\ e \in P!Entries(P!Top.root)
  /\ packages' = Append(packages, Finished(e))
  /\ pkgStack' = P!Noting(P!Top.manifest.module, Below)
  /\ pkgPc' = IF Len(pkgStack) = 1 THEN "finish" ELSE "visit"
  /\ UNCHANGED <<pkgModules, answer>>

LEMMA FinishEffect ==
  ASSUME WalkIInv, P!FinishPackage
  PROVE  Same /\ (Refuses \/ \E e \in P!Entries(P!Top.root) : Finishes(e))
<1>1. Same /\ pkgStack # <<>> /\ pkgPc = "visit" /\ ~(P!Top.next <= Len(Deps(P!Top)))
  BY DEF P!FinishPackage, Same, WalkIInv, PlaceInv, P!Visiting, Deps
<1>2. CASE P!Entries(P!Top.root) = {}
  BY <1>1, <1>2 DEF P!FinishPackage, P!Fail, Refuses, Refusals, P!Answers
<1>3. CASE P!Entries(P!Top.root) # {}
  <2>1. PICK e \in P!Entries(P!Top.root) : packages' = Append(packages, Finished(e))
    BY <1>3 DEF P!FinishPackage, Finished
  <2>2. /\ pkgStack' = P!Noting(P!Top.manifest.module, Below)
        /\ pkgPc' = IF Len(pkgStack) = 1 THEN "finish" ELSE "visit"
        /\ UNCHANGED <<pkgModules, answer>>
    BY <1>3 DEF P!FinishPackage, Below
  <2> QED  BY <1>1, <2>1, <2>2 DEF Finishes
<1> QED  BY <1>2, <1>3

LEMMA EntersKeeps ==
  ASSUME P!PackageAssumption, WalkIInv, NEW r, NEW m, Enters(r, m), Same,
         (pkgStack = <<>> /\ r = Main) \/ (P!Visiting /\ r = P!Target)
  PROVE  WalkIInv'
<1>0. PICK f : f = [root |-> r, manifest |-> m, next |-> 1, found |-> <<>>]
  OBVIOUS
<1>1. /\ f \in Frame /\ f.root = r /\ f.manifest = m /\ f.next = 1 /\ f.found = <<>>
      /\ m.module \in Modules /\ r \in Roots
  BY <1>0 DEF Enters, Frame, P!Manifest
<1>2. /\ pkgStack' = Append(pkgStack, f) /\ pkgModules' = pkgModules \cup {<<m.module, r>>}
      /\ packages' = packages /\ pkgPc' = "visit" /\ answer' = answer
      /\ disk' = disk /\ disturbed' = disturbed /\ edits' = edits /\ command' = command
      /\ m = disk[r].manifest /\ ~P!OnStack(r) /\ ~IsResolved(packages, r) /\ P!Rivals(r, m) = {}
  BY <1>0 DEF Enters, Same, P!world
<1>3. /\ pkgStack \in Seq(Frame) /\ Len(pkgStack) \in Nat /\ Len(pkgStack') = Len(pkgStack) + 1
      /\ pkgStack' \in Seq(Frame) /\ pkgStack'[Len(pkgStack) + 1] = f
      /\ \A i \in 1 .. Len(pkgStack) : pkgStack'[i] = pkgStack[i]
      /\ DOMAIN pkgStack = 1 .. Len(pkgStack) /\ DOMAIN pkgStack' = 1 .. Len(pkgStack) + 1
  BY <1>1, <1>2 DEF WalkIInv, WalkTypes
<1>4. \A i \in DOMAIN pkgStack' : i \in 1 .. Len(pkgStack) \/ i = Len(pkgStack) + 1
  BY <1>3
<1>5. WalkTypes'
  <2>1. <<m.module, r>> \in Modules \X Roots
    BY <1>1
  <2> QED  BY <1>2, <1>3, <2>1 DEF WalkIInv, WalkTypes
<1>6. PlaceInv'
  <2>1. pkgStack'[1].root = Main
    <3>1. CASE pkgStack = <<>>
      <4>1. r = Main
        BY <3>1 DEF P!Visiting, WalkIInv, PlaceInv
      <4> QED  BY <1>1, <1>3, <3>1, <4>1
    <3>2. CASE pkgStack # <<>>
      <4>1. 1 \in 1 .. Len(pkgStack)
        BY <1>3, <3>2
      <4> QED  BY <1>3, <3>2, <4>1 DEF WalkIInv, PlaceInv
    <3> QED  BY <3>1, <3>2
  <2>2. pkgStack' # <<>>
    BY <1>3
  <2> QED  BY <1>2, <2>1, <2>2 DEF PlaceInv, P!Accepted
<1>7. ApartInv'
  <2>1. \A i \in DOMAIN pkgStack : pkgStack[i].root # r
    BY <1>2 DEF P!OnStack
  <2>2. \A i, j \in DOMAIN pkgStack' : pkgStack'[i].root = pkgStack'[j].root => i = j
    BY <1>1, <1>3, <1>4, <2>1 DEF WalkIInv, ApartInv
  <2>3. \A i \in DOMAIN pkgStack' : ~IsResolved(packages', pkgStack'[i].root)
    BY <1>1, <1>2, <1>3, <1>4 DEF WalkIInv, ApartInv, IsResolved
  <2>4. \A i \in DOMAIN pkgStack' : <<pkgStack'[i].manifest.module, pkgStack'[i].root>> \in pkgModules'
    BY <1>1, <1>2, <1>3, <1>4 DEF WalkIInv, ApartInv
  <2>5. \A q \in pkgModules : q[1] = m.module => q[2] = r
    BY <1>2 DEF P!Rivals
  <2>6. \A q, w \in pkgModules' : q[1] = w[1] => q[2] = w[2]
    BY <1>2, <2>5 DEF WalkIInv, ApartInv
  <2> QED  BY <1>2, <2>2, <2>3, <2>4, <2>6 DEF WalkIInv, ApartInv
<1>8. WalkInv'
  <2>2. Noted(packages, f, 0)
    BY <1>1, FrameFields DEF Noted
  <2>3. ASSUME NEW i \in DOMAIN pkgStack' PROVE Noted(packages', pkgStack'[i], pkgStack'[i].next - 1)
    <3> SUFFICES Noted(packages, pkgStack'[i], pkgStack'[i].next - 1)
      BY <1>2
    <3>1. CASE i \in 1 .. Len(pkgStack)
      BY <1>3, <3>1 DEF WalkIInv, WalkInv
    <3>2. CASE i = Len(pkgStack) + 1
      <4>1. pkgStack'[i].next - 1 = 0 /\ pkgStack'[i] = f
        BY <1>1, <1>3, <3>2
      <4> QED  BY <2>2, <4>1
    <3> QED  BY <1>4, <3>1, <3>2
  <2>4. ASSUME NEW i \in 1 .. Len(pkgStack') - 1
        PROVE  /\ pkgStack'[i].next <= Len(Deps(pkgStack'[i]))
               /\ Deps(pkgStack'[i])[pkgStack'[i].next].root = pkgStack'[i + 1].root
    <3>1. i \in 1 .. Len(pkgStack) /\ pkgStack'[i] = pkgStack[i]
      BY <1>3
    <3>2. CASE i = Len(pkgStack)
      <4>1. P!Visiting /\ r = P!Target /\ P!Top = pkgStack[i]
        BY <1>3, <3>1, <3>2 DEF P!Top
      <4> QED  BY <1>1, <1>3, <3>1, <3>2, <4>1 DEF P!Visiting, P!Target, Deps
    <3>3. CASE i # Len(pkgStack)
      <4>1. i \in 1 .. Len(pkgStack) - 1 /\ i + 1 \in 1 .. Len(pkgStack)
        <5>1. Len(pkgStack) \in Nat /\ i \in 1 .. Len(pkgStack)
          BY <1>3, <3>1
        <5> QED  BY ONLY <5>1, <3>3
      <4>2. pkgStack'[i + 1] = pkgStack[i + 1]
        BY <1>3, <4>1
      <4> QED  BY <3>1, <4>1, <4>2 DEF WalkIInv, WalkInv
    <3> QED  BY <3>2, <3>3
  <2>5. \A i \in DOMAIN packages' : Noted(packages', packages'[i], Len(Deps(packages'[i])))
    BY <1>2 DEF WalkIInv, WalkInv
  <2>6. P!DependenciesFirst'
    BY <1>2 DEF WalkIInv, WalkInv, P!DependenciesFirst
  <2> QED  BY <2>3, <2>4, <2>5, <2>6 DEF WalkInv, Deps
<1>9. CurrentInv'
  <2>1. ASSUME ~disturbed, NEW i \in DOMAIN pkgStack' PROVE pkgStack'[i].manifest = disk[pkgStack'[i].root].manifest
    BY <1>1, <1>2, <1>3, <1>4, <2>1 DEF WalkIInv, CurrentInv
  <2>2. \A x : P!Entries(x)' = P!Entries(x)
    BY <1>2 DEF P!Entries
  <2> QED  BY <1>2, <2>1, <2>2 DEF WalkIInv, CurrentInv
<1> QED  BY <1>5, <1>6, <1>7, <1>8, <1>9 DEF WalkIInv

LEMMA MeetsKeeps ==
  ASSUME WalkIInv, NEW m, MeetsAgain(m), Same
  PROVE  WalkIInv'
<1>1. /\ P!Visiting /\ m \in Modules /\ pkgStack' = P!Noting(m, pkgStack)
      /\ packages' = packages /\ pkgPc' = pkgPc /\ answer' = answer /\ pkgModules' = pkgModules
      /\ disk' = disk /\ disturbed' = disturbed /\ edits' = edits /\ command' = command
      /\ pkgPc = "visit" /\ pkgStack # <<>> /\ pkgStack \in Seq(Frame)
  BY DEF MeetsAgain, Same, P!world, P!Visiting, WalkIInv, PlaceInv, WalkTypes
<1>2. /\ pkgStack' \in Seq(Frame) /\ Len(pkgStack') = Len(pkgStack) /\ Len(pkgStack) \in Nat \ {0}
      /\ \A i \in 1 .. Len(pkgStack) - 1 : pkgStack'[i] = pkgStack[i]
      /\ pkgStack'[Len(pkgStack)].root = pkgStack[Len(pkgStack)].root
      /\ pkgStack'[Len(pkgStack)].manifest = pkgStack[Len(pkgStack)].manifest
      /\ pkgStack'[Len(pkgStack)].next = pkgStack[Len(pkgStack)].next + 1
      /\ pkgStack'[Len(pkgStack)].found = Append(pkgStack[Len(pkgStack)].found, m)
  BY <1>1, NotingTop
<1>3. /\ DOMAIN pkgStack' = 1 .. Len(pkgStack) /\ DOMAIN pkgStack = 1 .. Len(pkgStack)
      /\ \A i \in 1 .. Len(pkgStack) : i = Len(pkgStack) \/ i \in 1 .. Len(pkgStack) - 1
      /\ pkgStack[Len(pkgStack)] \in Frame /\ pkgStack'[Len(pkgStack)] \in Frame
  BY <1>1, <1>2
<1>4. \A i \in 1 .. Len(pkgStack) : pkgStack'[i].root = pkgStack[i].root /\ pkgStack'[i].manifest = pkgStack[i].manifest
  BY <1>2, <1>3
<1>5. WalkTypes'
  BY <1>1, <1>2 DEF WalkIInv, WalkTypes
<1>6. PlaceInv'
  <2>1. pkgStack'[1].root = Main /\ pkgStack' # <<>>
    BY <1>1, <1>2, <1>4 DEF WalkIInv, PlaceInv
  <2> QED  BY <1>1, <2>1 DEF PlaceInv, P!Accepted
<1>7. ApartInv'
  <2>1. \A i, j \in DOMAIN pkgStack' : pkgStack'[i].root = pkgStack'[j].root => i = j
    BY <1>3, <1>4 DEF WalkIInv, ApartInv
  <2>2. \A i \in DOMAIN pkgStack' : ~IsResolved(packages', pkgStack'[i].root)
    BY <1>1, <1>3, <1>4 DEF WalkIInv, ApartInv
  <2>3. \A i \in DOMAIN pkgStack' : <<pkgStack'[i].manifest.module, pkgStack'[i].root>> \in pkgModules'
    BY <1>1, <1>3, <1>4 DEF WalkIInv, ApartInv
  <2> QED  BY <1>1, <2>1, <2>2, <2>3 DEF WalkIInv, ApartInv
<1>8. WalkInv'
  <2>2. Noted(packages, pkgStack'[Len(pkgStack)], pkgStack'[Len(pkgStack)].next - 1)
    <3>1. /\ Noted(packages, pkgStack[Len(pkgStack)], pkgStack[Len(pkgStack)].next - 1)
          /\ pkgStack[Len(pkgStack)].next <= Len(Deps(pkgStack[Len(pkgStack)]))
      <4>1. Len(pkgStack) \in DOMAIN pkgStack
        <5>1. pkgStack \in Seq(Frame) /\ pkgStack # <<>>
          BY <1>1
        <5> QED  BY ONLY <5>1
      <4>2. Noted(packages, pkgStack[Len(pkgStack)], pkgStack[Len(pkgStack)].next - 1)
        BY <4>1 DEF WalkIInv, WalkInv
      <4>3. pkgStack[Len(pkgStack)].next <= Len(Deps(pkgStack[Len(pkgStack)]))
        BY <1>1 DEF P!Visiting, P!Top, Deps
      <4> QED  BY <4>2, <4>3
    <3>2. \E j \in DOMAIN packages :
            /\ packages[j].root = Deps(pkgStack[Len(pkgStack)])[pkgStack[Len(pkgStack)].next].root
            /\ packages[j].manifest.module = m
      BY DEF MeetsAgain, P!Target, P!Top, Deps
    <3> QED  BY <1>1, <1>2, <1>3, <3>1, <3>2, NotedGrows
  <2>3. \A i \in DOMAIN pkgStack' : Noted(packages', pkgStack'[i], pkgStack'[i].next - 1)
    BY <1>1, <1>2, <1>3, <2>2 DEF WalkIInv, WalkInv
  <2>4. ASSUME NEW i \in 1 .. Len(pkgStack') - 1
        PROVE  /\ pkgStack'[i].next <= Len(Deps(pkgStack'[i]))
               /\ Deps(pkgStack'[i])[pkgStack'[i].next].root = pkgStack'[i + 1].root
    <3>1. i \in 1 .. Len(pkgStack) - 1 /\ i + 1 \in 1 .. Len(pkgStack)
      BY <1>2
    <3> QED  BY <1>2, <1>4, <3>1 DEF WalkIInv, WalkInv
  <2>5. \A i \in DOMAIN packages' : Noted(packages', packages'[i], Len(Deps(packages'[i])))
    BY <1>1 DEF WalkIInv, WalkInv
  <2>6. P!DependenciesFirst'
    BY <1>1 DEF WalkIInv, WalkInv, P!DependenciesFirst
  <2> QED  BY <2>3, <2>4, <2>5, <2>6 DEF WalkInv, Deps
<1>9. CurrentInv'
  <2>2. \A x : P!Entries(x)' = P!Entries(x)
    BY <1>1 DEF P!Entries
  <2> QED  BY <1>1, <1>3, <1>4, <2>2 DEF WalkIInv, CurrentInv
<1> QED  BY <1>5, <1>6, <1>7, <1>8, <1>9 DEF WalkIInv

LEMMA FinishesKeeps ==
  ASSUME WalkIInv, NEW e, Finishes(e), Same
  PROVE  WalkIInv'
<1>0. PICK p : p = Finished(e)
  OBVIOUS
<1>1. /\ pkgStack \in Seq(Frame) /\ pkgStack # <<>> /\ packages \in Seq(Record)
      /\ packages' = Append(packages, p) /\ pkgStack' = P!Noting(P!Top.manifest.module, Below)
      /\ pkgPc = "visit" /\ pkgPc' = IF Len(pkgStack) = 1 THEN "finish" ELSE "visit"
      /\ pkgModules' = pkgModules /\ answer' = answer
      /\ disk' = disk /\ disturbed' = disturbed /\ edits' = edits /\ command' = command
      /\ e \in P!Entries(P!Top.root) /\ ~(P!Top.next <= Len(Deps(P!Top)))
  BY <1>0 DEF Finishes, Same, P!world, WalkIInv, WalkTypes
<1>2. PICK n \in Nat : n = Len(pkgStack)
  BY <1>1
<1>3. n # 0 /\ DOMAIN pkgStack = 1 .. n /\ n \in 1 .. n /\ P!Top = pkgStack[n] /\ P!Top \in Frame
  BY <1>1, <1>2 DEF P!Top
<1>4. /\ p.root = P!Top.root /\ p.manifest = P!Top.manifest /\ p.found = P!Top.found /\ p.entry = e
      /\ p \in Record
  <2>1. e \in {"main", "lib"}
    BY <1>1 DEF P!Entries
  <2> QED  BY <1>0, <1>3, <2>1, FrameFields DEF Finished, Record
<1>5. /\ Len(packages) \in Nat /\ DOMAIN packages = 1 .. Len(packages)
      /\ packages' \in Seq(Record) /\ DOMAIN packages' = 1 .. Len(packages) + 1
      /\ Len(packages') = Len(packages) + 1
      /\ packages'[Len(packages) + 1] = p
      /\ \A i \in 1 .. Len(packages) : packages'[i] = packages[i]
  BY <1>1, <1>4
<1>6. /\ \A i \in DOMAIN packages' : i \in DOMAIN packages \/ i = Len(packages) + 1
      /\ \A i \in DOMAIN packages : i \in DOMAIN packages' /\ packages'[i] = packages[i]
      /\ Len(packages) + 1 \in DOMAIN packages'
  BY <1>5
<1>7. Noted(packages, P!Top, P!Top.next - 1) /\ P!Top.next - 1 = Len(Deps(P!Top))
  <2>1. Noted(packages, P!Top, P!Top.next - 1)
    BY <1>3 DEF WalkIInv, WalkInv
  <2>2. P!Top.next \in Nat /\ Len(Deps(P!Top)) \in Nat /\ P!Top.next - 1 \in 0 .. Len(Deps(P!Top))
    BY <1>3, <2>1, FrameFields DEF Noted
  <2> QED  BY ONLY <2>1, <2>2, <1>1
(* The stack below: the same, and what it waits for is noted.              *)
<1>8. /\ Below \in Seq(Frame) /\ Len(Below) = n - 1
      /\ \A i \in 1 .. n - 1 : Below[i] = pkgStack[i]
  BY <1>1, <1>2, <1>3 DEF Below
<1>9. P!Top.manifest.module \in Modules /\ P!Top.root \in Roots
  BY <1>3, FrameFields
<1>10. /\ pkgStack' \in Seq(Frame) /\ Len(pkgStack') = n - 1 /\ DOMAIN pkgStack' = 1 .. n - 1
       /\ n = 1 => pkgStack' = <<>>
       /\ \A i \in 1 .. n - 1 : pkgStack'[i].root = pkgStack[i].root /\ pkgStack'[i].manifest = pkgStack[i].manifest
       /\ \A i \in 1 .. n - 2 : pkgStack'[i] = pkgStack[i]
       /\ n > 1 => /\ pkgStack'[n - 1].next = pkgStack[n - 1].next + 1
                   /\ pkgStack'[n - 1].found = Append(pkgStack[n - 1].found, P!Top.manifest.module)
  <2>1. CASE n = 1
    <3>1. Below = <<>>
      BY <1>8, <2>1
    <3>2. pkgStack' = <<>>
      BY <1>1, <3>1 DEF P!Noting
    <3> QED  BY <2>1, <3>2
  <2>2. CASE n # 1
    <3>1. Below # <<>> /\ n - 1 \in 1 .. n - 1
      BY <1>3, <1>8, <2>2
    <3>2. /\ pkgStack' \in Seq(Frame) /\ Len(pkgStack') = n - 1
          /\ \A i \in 1 .. n - 1 - 1 : pkgStack'[i] = Below[i]
          /\ pkgStack'[n - 1].root = Below[n - 1].root /\ pkgStack'[n - 1].manifest = Below[n - 1].manifest
          /\ pkgStack'[n - 1].next = Below[n - 1].next + 1
          /\ pkgStack'[n - 1].found = Append(Below[n - 1].found, P!Top.manifest.module)
      <4>1. PICK b : b = Below
        OBVIOUS
      <4>2. PICK m : m = P!Top.manifest.module
        OBVIOUS
      <4>3. b \in Seq(Frame) /\ b # <<>> /\ m \in Modules /\ pkgStack' = P!Noting(m, b) /\ Len(b) = n - 1
        BY <1>1, <1>8, <1>9, <3>1, <4>1, <4>2
      <4>4. /\ pkgStack' \in Seq(Frame) /\ Len(pkgStack') = Len(b)
            /\ \A i \in 1 .. Len(b) - 1 : pkgStack'[i] = b[i]
            /\ pkgStack'[Len(b)].root = b[Len(b)].root /\ pkgStack'[Len(b)].manifest = b[Len(b)].manifest
            /\ pkgStack'[Len(b)].next = b[Len(b)].next + 1
            /\ pkgStack'[Len(b)].found = Append(b[Len(b)].found, m)
        BY <4>3, NotingTop
      <4> QED  BY <4>1, <4>2, <4>3, <4>4
    <3>3. /\ n - 1 - 1 = n - 2 /\ \A i \in 1 .. n - 1 : i = n - 1 \/ i \in 1 .. n - 2
          /\ \A i \in 1 .. n - 2 : i \in 1 .. n - 1
      BY <1>2
    <3>4. \A i \in 1 .. n - 2 : pkgStack'[i] = pkgStack[i]
      BY <1>8, <3>2, <3>3
    <3>5. DOMAIN pkgStack' = 1 .. n - 1
      BY <3>2
    <3> QED  BY <1>8, <2>2, <3>1, <3>2, <3>3, <3>4, <3>5
  <2> QED  BY <2>1, <2>2
<1>11. /\ \A i \in 1 .. n - 1 : i \in 1 .. n /\ i # n /\ (i = n - 1 \/ i \in 1 .. n - 2)
       /\ \A i \in 1 .. n - 2 : i \in 1 .. n - 1 /\ i + 1 \in 1 .. n - 1 /\ i + 1 \in 1 .. n
  BY <1>2
<1>12. WalkTypes'
  BY <1>1, <1>2, <1>5, <1>10 DEF WalkIInv, WalkTypes
<1>13. PlaceInv'
  <2>1. CASE n = 1
    <3>1. pkgPc' = "finish" /\ pkgStack' = <<>> /\ packages' # <<>>
      BY <1>1, <1>2, <1>5, <1>10, <2>1
    <3>2. packages'[Len(packages')].root = Main
      BY <1>3, <1>4, <1>5, <2>1, <1>1 DEF WalkIInv, PlaceInv
    <3> QED  BY <3>1, <3>2 DEF PlaceInv, P!Accepted
  <2>2. CASE n # 1
    <3>1. pkgPc' = "visit" /\ 1 \in 1 .. n - 1
      BY <1>1, <1>2, <1>3, <2>2
    <3>2. pkgStack' # <<>> /\ pkgStack'[1].root = Main
      BY <1>1, <1>10, <3>1 DEF WalkIInv, PlaceInv
    <3> QED  BY <3>1, <3>2 DEF PlaceInv, P!Accepted
  <2> QED  BY <2>1, <2>2
<1>14. ApartInv'
  <2>1. \A i, j \in DOMAIN pkgStack' : pkgStack'[i].root = pkgStack'[j].root => i = j
    BY <1>3, <1>10, <1>11 DEF WalkIInv, ApartInv
  <2>2. ~IsResolved(packages, P!Top.root) /\ \A i \in 1 .. n - 1 : pkgStack[i].root # P!Top.root
    BY <1>3, <1>11 DEF WalkIInv, ApartInv
  <2>3. \A i, j \in DOMAIN packages' : packages'[i].root = packages'[j].root => i = j
    BY <1>4, <1>5, <1>6, <2>2 DEF WalkIInv, ApartInv, IsResolved
  <2>4. ASSUME NEW i \in DOMAIN pkgStack' PROVE ~IsResolved(packages', pkgStack'[i].root)
    <3>1. i \in DOMAIN pkgStack /\ pkgStack'[i].root = pkgStack[i].root /\ pkgStack[i].root # P!Top.root
      BY <1>3, <1>10, <1>11, <2>2
    <3>2. ~IsResolved(packages, pkgStack[i].root)
      BY <3>1 DEF WalkIInv, ApartInv
    <3> QED  BY <1>4, <1>5, <1>6, <3>1, <3>2 DEF IsResolved
  <2>5. \A i \in DOMAIN pkgStack' : <<pkgStack'[i].manifest.module, pkgStack'[i].root>> \in pkgModules'
    BY <1>1, <1>3, <1>10, <1>11 DEF WalkIInv, ApartInv
  <2>6. <<p.manifest.module, p.root>> \in pkgModules
    BY <1>3, <1>4 DEF WalkIInv, ApartInv
  <2>7. \A i \in DOMAIN packages' : <<packages'[i].manifest.module, packages'[i].root>> \in pkgModules'
    BY <1>1, <1>5, <1>6, <2>6 DEF WalkIInv, ApartInv
  <2> QED  BY <1>1, <2>1, <2>3, <2>4, <2>5, <2>7 DEF WalkIInv, ApartInv
<1>15. WalkInv'
  <2>1. \A f, k : Noted(packages, f, k) => Noted(packages', f, k)
    BY <1>6, NotedStays
  <2>2. ASSUME NEW i \in DOMAIN pkgStack' PROVE Noted(packages', pkgStack'[i], pkgStack'[i].next - 1)
    <3>1. CASE i \in 1 .. n - 2
      BY <1>3, <1>10, <1>11, <2>1, <3>1 DEF WalkIInv, WalkInv
    <3>2. CASE i = n - 1
      <4>1. /\ i \in 1 .. n - 1 /\ i \in DOMAIN pkgStack /\ i \in 1 .. Len(pkgStack) - 1 /\ n > 1 /\ i + 1 = n
        BY <1>2, <1>3, <1>10, <1>11, <3>2
      <4>2. /\ Noted(packages', pkgStack[i], pkgStack[i].next - 1) /\ pkgStack[i].next <= Len(Deps(pkgStack[i]))
            /\ Deps(pkgStack[i])[pkgStack[i].next].root = P!Top.root
        BY <1>3, <2>1, <4>1 DEF WalkIInv, WalkInv
      <4>3. /\ packages'[Len(packages) + 1].root = Deps(pkgStack[i])[pkgStack[i].next].root
            /\ packages'[Len(packages) + 1].manifest.module = P!Top.manifest.module
        BY <1>4, <1>5, <4>2
      <4>4. /\ pkgStack'[i] \in Frame /\ pkgStack'[i].manifest = pkgStack[i].manifest
            /\ pkgStack'[i].next = pkgStack[i].next + 1 /\ pkgStack[i] \in Frame
            /\ pkgStack'[i].found = Append(pkgStack[i].found, P!Top.manifest.module)
        BY <1>1, <1>10, <3>2, <4>1
      <4> QED  BY <1>6, <1>9, <4>2, <4>3, <4>4, NotedGrows
    <3> QED  BY <1>10, <1>11, <3>1, <3>2
  <2>3. ASSUME NEW i \in 1 .. Len(pkgStack') - 1
        PROVE  /\ pkgStack'[i].next <= Len(Deps(pkgStack'[i]))
               /\ Deps(pkgStack'[i])[pkgStack'[i].next].root = pkgStack'[i + 1].root
    <3>1. i \in 1 .. n - 2 /\ i \in 1 .. Len(pkgStack) - 1 /\ i + 1 \in 1 .. n - 1
      BY <1>2, <1>10
    <3> QED  BY <1>10, <1>11, <3>1 DEF WalkIInv, WalkInv
  <2>4. Noted(packages, p, Len(Deps(p)))
    BY <1>4, <1>7 DEF Noted, Deps
  <2>5. \A i \in DOMAIN packages' : Noted(packages', packages'[i], Len(Deps(packages'[i])))
    BY <1>5, <1>6, <2>1, <2>4 DEF WalkIInv, WalkInv
  <2>6. P!DependenciesFirst'
    <3> SUFFICES ASSUME NEW i \in DOMAIN packages',
                        NEW d \in DOMAIN packages'[i].manifest.dependencies
                 PROVE  \E j \in 1 .. i - 1 :
                          packages'[j].root = packages'[i].manifest.dependencies[d].root
      BY DEF P!DependenciesFirst
    <3>1. CASE i \in DOMAIN packages
      <4>1. packages'[i] = packages[i] /\ \A j \in 1 .. i - 1 : packages'[j] = packages[j]
        BY <1>5, <1>6, <3>1
      <4> QED  BY <3>1, <4>1 DEF WalkIInv, WalkInv, P!DependenciesFirst
    <3>2. CASE i = Len(packages) + 1
      <4>1. d \in 1 .. Len(Deps(p)) /\ packages'[i] = p
        BY <1>4, <1>5, <3>2, RecordFields DEF Deps
      <4>2. PICK j \in DOMAIN packages : packages[j].root = Deps(p)[d].root
        BY <2>4, <4>1 DEF Noted
      <4>3. j \in 1 .. i - 1 /\ packages'[j] = packages[j]
        BY <1>5, <1>6, <3>2
      <4> QED  BY <4>1, <4>2, <4>3 DEF Deps
    <3> QED  BY <1>6, <3>1, <3>2
  <2> QED  BY <2>2, <2>3, <2>5, <2>6 DEF WalkInv, Deps
<1>16. CurrentInv'
  <2>1. \A x : P!Entries(x)' = P!Entries(x)
    BY <1>1 DEF P!Entries
  <2>2. ASSUME ~disturbed, NEW i \in DOMAIN pkgStack' PROVE pkgStack'[i].manifest = disk[pkgStack'[i].root].manifest
    BY <1>3, <1>10, <1>11, <2>2 DEF WalkIInv, CurrentInv
  <2>3. ASSUME ~disturbed PROVE p.manifest = disk[p.root].manifest /\ p.entry \in P!Entries(p.root)
    BY <1>1, <1>3, <1>4, <2>3 DEF WalkIInv, CurrentInv
  <2>4. ASSUME ~disturbed, NEW i \in DOMAIN packages'
        PROVE  /\ packages'[i].manifest = disk[packages'[i].root].manifest
               /\ packages'[i].entry \in P!Entries(packages'[i].root)
    BY <1>5, <1>6, <2>3, <2>4 DEF WalkIInv, CurrentInv
  <2> QED  BY <1>1, <2>1, <2>2, <2>4 DEF CurrentInv
<1> QED  BY <1>12, <1>13, <1>14, <1>15, <1>16 DEF WalkIInv

(* A step that ends a command, or only moves it on.                        *)
LEMMA RestsKeep ==
  ASSUME WalkIInv, UNCHANGED <<pkgStack, packages, pkgModules, P!world, command>>,
         pkgPc' \in {"idle", "context", "root", "visit", "finish"}, answer' \in P!Answers,
         PlaceInv'
  PROVE  WalkIInv'
<1>1. WalkTypes'
  BY DEF WalkIInv, WalkTypes, P!world
<1>2. ApartInv'
  BY DEF WalkIInv, ApartInv
<1>3. WalkInv'
  BY DEF WalkIInv, WalkInv, P!DependenciesFirst
<1>4. CurrentInv'
  <2>1. \A x : P!Entries(x)' = P!Entries(x)
    BY DEF P!Entries, P!world
  <2> QED  BY <2>1 DEF WalkIInv, CurrentInv, P!world
<1> QED  BY <1>1, <1>2, <1>3, <1>4 DEF WalkIInv

LEMMA RefusesKeeps == ASSUME WalkIInv, Refuses, Same PROVE WalkIInv'
<1>1. UNCHANGED <<pkgStack, packages, pkgModules, P!world, command>> /\ pkgPc' = "idle"
      /\ answer' \in Refusals /\ answer' \in P!Answers
  BY DEF Refuses, Same, Refusals
<1>2. PlaceInv'
  <2>1. pkgStack' # <<>> => pkgStack'[1].root = Main
    BY <1>1 DEF WalkIInv, PlaceInv
  <2>2. ~P!Accepted'
    BY <1>1 DEF P!Accepted, Refusals
  <2>3. answer' = "cycle" => pkgStack' # <<>> /\ (P!Top.next <= Len(Deps(P!Top)) /\ P!OnStack(P!Target))'
    BY <1>1 DEF Refuses, WalkIInv, PlaceInv, P!Top, Deps, P!OnStack, P!Target
  <2> QED  BY <1>1, <2>1, <2>2, <2>3 DEF PlaceInv
<1> QED  BY <1>1, <1>2, RestsKeep

LEMMA BeginKeeps ==
  ASSUME WalkIInv, NEW c \in {"write", "check"}, P!Begin(c)
  PROVE  WalkIInv'
<1>1. /\ pkgStack' = <<>> /\ packages' = <<>> /\ pkgModules' = {} /\ answer' = "none"
      /\ disturbed' = FALSE /\ pkgPc' \in {"context", "root"} /\ command' = c
      /\ disk' = disk /\ edits' = edits
  BY DEF P!Begin
<1>2. WalkTypes'
  <2>1. pkgStack' \in Seq(Frame) /\ packages' \in Seq(Record) /\ pkgModules' \subseteq Modules \X Roots
    BY <1>1
  <2>2. answer' \in P!Answers /\ disturbed' \in BOOLEAN /\ command' \in {"write", "check"}
    BY <1>1 DEF P!Answers
  <2>3. /\ disk' \in [Roots -> P!Directory] /\ \A r \in Roots : disk'[r] \in Contents[r]
        /\ edits' \in 0 .. MaxEdits
    BY <1>1 DEF WalkIInv, WalkTypes
  <2> QED  BY <1>1, <2>1, <2>2, <2>3 DEF WalkTypes
<1>3. PlaceInv'
  BY <1>1 DEF PlaceInv, P!Accepted
<1>4. ApartInv'
  BY <1>1 DEF ApartInv
<1>5. WalkInv'
  <2>1. DOMAIN pkgStack' = {} /\ DOMAIN packages' = {} /\ 1 .. Len(pkgStack') - 1 = {}
    BY <1>1
  <2> QED  BY <2>1 DEF WalkInv, P!DependenciesFirst
<1>6. CurrentInv'
  BY <1>1 DEF CurrentInv
<1> QED  BY <1>2, <1>3, <1>4, <1>5, <1>6 DEF WalkIInv

LEMMA EditKeeps ==
  ASSUME P!PackageAssumption, WalkIInv, NEW r \in Roots, P!Edit(r)
  PROVE  WalkIInv'
<1>1. /\ UNCHANGED <<lock, pkgPc, command, pkgStack, packages, pkgModules, answer, locked>>
      /\ disturbed' = TRUE /\ edits' = edits + 1 /\ edits < MaxEdits
  BY DEF P!Edit
<1>2. PICK c \in Contents[r] : disk' = [disk EXCEPT ![r] = c]
  BY DEF P!Edit
<1>3. c \in P!Directory
  BY <1>2 DEF P!PackageAssumption
<1>4. WalkTypes'
  <2>1. disk' \in [Roots -> P!Directory] /\ \A q \in Roots : disk'[q] \in Contents[q]
    BY <1>2, <1>3 DEF WalkIInv, WalkTypes
  <2>2. edits' \in 0 .. MaxEdits
    BY <1>1 DEF WalkIInv, WalkTypes, P!PackageAssumption
  <2> QED  BY <1>1, <2>1, <2>2 DEF WalkIInv, WalkTypes
<1>5. PlaceInv'
  BY <1>1 DEF WalkIInv, PlaceInv, P!Accepted, P!Top, Deps, P!OnStack, P!Target
<1>6. ApartInv'
  BY <1>1 DEF WalkIInv, ApartInv
<1>7. WalkInv'
  BY <1>1 DEF WalkIInv, WalkInv, P!DependenciesFirst
<1>8. CurrentInv'
  BY <1>1 DEF CurrentInv
<1> QED  BY <1>4, <1>5, <1>6, <1>7, <1>8 DEF WalkIInv

LEMMA OthersKeep ==
  ASSUME WalkIInv, P!Context \/ P!WriteLock \/ P!CheckLock \/ UNCHANGED P!vars
  PROVE  WalkIInv'
<1>1. CASE P!Context
  <2>1. Same /\ pkgPc = "context" /\ pkgStack = <<>> /\ packages = <<>> /\ pkgModules = {}
    BY <1>1 DEF P!Context, Same, WalkIInv, PlaceInv
  <2>2. PICK m : m = disk[Main].manifest
    OBVIOUS
  <2>3. \/ P!Fail("no package") \/ P!Fail("manifest") \/ P!Fail("missing")
        \/ pkgPc' = "root" /\ UNCHANGED <<pkgStack, packages, pkgModules, answer>>
    BY <1>1 DEF P!Context
  <2>4. CASE pkgPc' = "root" /\ UNCHANGED <<pkgStack, packages, pkgModules, answer>>
    <3>1. PlaceInv'
      BY <2>1, <2>4 DEF PlaceInv, P!Accepted
    <3> QED  BY <2>1, <2>4, <3>1, RestsKeep DEF Same, WalkIInv, WalkTypes
  <2>5. CASE P!Fail("no package") \/ P!Fail("manifest") \/ P!Fail("missing")
    <3>1. Refuses
      BY <2>1, <2>5 DEF P!Fail, Refuses, Refusals, P!Answers
    <3> QED  BY <2>1, <3>1, RefusesKeeps
  <2> QED  BY <2>3, <2>4, <2>5
<1>2. CASE P!WriteLock
  <2>1. /\ pkgPc = "finish" /\ UNCHANGED <<P!world, pkgStack, packages, pkgModules, command>>
        /\ pkgPc' = "idle" /\ answer' = "written"
    BY <1>2 DEF P!WriteLock
  <2>2. PlaceInv'
    BY <2>1 DEF WalkIInv, PlaceInv, P!Accepted
  <2> QED  BY <2>1, <2>2, RestsKeep DEF P!Answers
<1>3. CASE P!CheckLock
  <2>1. /\ pkgPc = "finish" /\ UNCHANGED <<P!world, pkgStack, packages, pkgModules, command>>
        /\ pkgPc' = "idle" /\ answer' \in {"no lock", "fresh", "stale"}
    BY <1>3 DEF P!CheckLock, P!Fail
  <2>2. PlaceInv'
    BY <2>1 DEF WalkIInv, PlaceInv, P!Accepted
  <2> QED  BY <2>1, <2>2, RestsKeep DEF P!Answers
<1>4. CASE UNCHANGED P!vars
  <2>1. PlaceInv' /\ pkgPc' = pkgPc /\ answer' = answer
    BY <1>4 DEF P!vars, WalkIInv, PlaceInv, P!Accepted, P!Top, Deps, P!OnStack, P!Target
  <2> QED  BY <1>4, <2>1, RestsKeep DEF P!vars, P!world, WalkIInv, WalkTypes
<1> QED  BY <1>1, <1>2, <1>3, <1>4

LEMMA WalkStep ==
  ASSUME P!PackageAssumption, WalkIInv, P!Next \/ UNCHANGED P!vars
  PROVE  WalkIInv'
<1>1. ASSUME NEW c \in {"write", "check"}, P!Begin(c) PROVE WalkIInv'
  BY <1>1, BeginKeeps
<1>2. ASSUME NEW r \in Roots, P!Edit(r) PROVE WalkIInv'
  BY <1>2, EditKeeps
<1>3. CASE P!VisitMain
  BY <1>3, VisitMainEffect, EntersKeeps, RefusesKeeps
<1>4. CASE P!Visit
  <2>1. Same
    BY <1>4, VisitEffect
  <2>2. ASSUME NEW m \in P!Manifest, P!Visiting, Enters(P!Target, m) PROVE WalkIInv'
    BY <2>1, <2>2, EntersKeeps
  <2>3. ASSUME NEW m \in Modules, MeetsAgain(m) PROVE WalkIInv'
    BY <2>1, <2>3, MeetsKeeps
  <2> QED  BY <1>4, <2>1, <2>2, <2>3, VisitEffect, RefusesKeeps
<1>5. CASE P!FinishPackage
  BY <1>5, FinishEffect, FinishesKeeps, RefusesKeeps
<1> QED  BY <1>1, <1>2, <1>3, <1>4, <1>5, OthersKeep DEF P!Next, P!Step

LEMMA WalkStarts == ASSUME P!PackageAssumption, P!Init PROVE WalkIInv
<1>1. /\ disk \in [Roots -> P!Directory] /\ \A r \in Roots : disk[r] \in Contents[r]
      /\ edits \in 0 .. MaxEdits
  BY DEF P!Init, P!PackageAssumption
<1>2. WalkTypes
  <2>1. pkgStack \in Seq(Frame) /\ packages \in Seq(Record) /\ pkgModules \subseteq Modules \X Roots
    BY DEF P!Init
  <2>2. answer \in P!Answers /\ disturbed \in BOOLEAN /\ command \in {"write", "check"}
        /\ pkgPc \in {"idle", "context", "root", "visit", "finish"}
    BY DEF P!Init, P!Answers
  <2> QED  BY <1>1, <2>1, <2>2 DEF WalkTypes
<1>3. PlaceInv
  BY DEF P!Init, PlaceInv, P!Accepted
<1>4. ApartInv
  BY DEF P!Init, ApartInv
<1>5. WalkInv
  <2>1. DOMAIN pkgStack = {} /\ DOMAIN packages = {} /\ 1 .. Len(pkgStack) - 1 = {}
    BY DEF P!Init
  <2> QED  BY <2>1 DEF WalkInv, P!DependenciesFirst
<1>6. CurrentInv
  BY DEF P!Init, CurrentInv
<1> QED  BY <1>2, <1>3, <1>4, <1>5, <1>6 DEF WalkIInv


(* Whatever is edited while the packages are read, what is resolved is     *)
(* closed, without cycles, and has one directory per module.               *)
LEMMA ResolutionSound == P!PackageAssumption /\ WalkIInv => P!ResolutionIsSound
<1>1. P!PackageAssumption /\ WalkIInv => P!ResolutionIsSound
  <2> SUFFICES ASSUME P!PackageAssumption, WalkIInv PROVE P!ResolutionIsSound
    OBVIOUS
  <2>1. P!TypeOK
    <3>1. ASSUME NEW i \in DOMAIN pkgStack
          PROVE  /\ pkgStack[i].root \in Roots /\ P!Known(pkgStack[i].manifest)
                 /\ Len(pkgStack[i].found) < pkgStack[i].next
      <4>1. pkgStack[i] \in Frame /\ Noted(packages, pkgStack[i], pkgStack[i].next - 1)
        BY Typed DEF WalkIInv, WalkInv
      <4>2. pkgStack[i].manifest \in P!Manifest /\ pkgStack[i].next \in Nat /\ pkgStack[i].root \in Roots
        BY <4>1, FrameFields
      <4> QED  BY <4>1, <4>2 DEF Noted, P!Known, P!PackageAssumption
    <3> QED  BY <3>1 DEF P!TypeOK, WalkIInv, WalkTypes, ApartInv
  <2>2. P!OnePackagePerModule
    <3> SUFFICES ASSUME NEW i \in DOMAIN packages, NEW j \in DOMAIN packages, i # j
                 PROVE  /\ packages[i].root # packages[j].root
                        /\ packages[i].manifest.module # packages[j].manifest.module
      BY DEF P!OnePackagePerModule
    <3>1. packages[i].root # packages[j].root
      BY DEF WalkIInv, ApartInv
    <3>2. PICK p, q : /\ p = <<packages[i].manifest.module, packages[i].root>>
                      /\ q = <<packages[j].manifest.module, packages[j].root>>
      OBVIOUS
    <3>3. p \in pkgModules /\ q \in pkgModules
      BY <3>2 DEF WalkIInv, ApartInv
    <3>4. p[1] = q[1] => p[2] = q[2]
      BY <3>3 DEF WalkIInv, ApartInv
    <3> QED  BY <3>1, <3>2, <3>4
  <2> QED  BY <2>1, <2>2 DEF P!ResolutionIsSound, WalkIInv, WalkInv
<1> QED  BY <1>1

(* A command that no edit interferes with refuses a cycle only where the   *)
(* manifests have one.                                                     *)
LEMMA PackageCyclesReal == WalkIInv => P!CyclesAreReal
<1>1. WalkIInv => P!CyclesAreReal
  <2> SUFFICES ASSUME WalkIInv, pkgPc = "idle", answer = "cycle", ~disturbed
               PROVE  \E i \in DOMAIN pkgStack :
                        /\ P!Target = pkgStack[i].root
                        /\ \A k \in i .. Len(pkgStack) - 1 :
                             \E d \in DOMAIN disk[pkgStack[k].root].manifest.dependencies :
                               disk[pkgStack[k].root].manifest.dependencies[d].root = pkgStack[k + 1].root
    BY DEF P!CyclesAreReal
  <2>1. PICK i \in DOMAIN pkgStack : pkgStack[i].root = P!Target
    BY DEF WalkIInv, PlaceInv, P!OnStack
  <2>2. ASSUME NEW k \in i .. Len(pkgStack) - 1
        PROVE  \E d \in DOMAIN disk[pkgStack[k].root].manifest.dependencies :
                 disk[pkgStack[k].root].manifest.dependencies[d].root = pkgStack[k + 1].root
    <3>1. k \in DOMAIN pkgStack /\ k \in 1 .. Len(pkgStack) - 1
      BY <2>1, Typed DEF WalkIInv
    <3>2. /\ pkgStack[k].next <= Len(Deps(pkgStack[k])) /\ Deps(pkgStack[k])[pkgStack[k].next].root = pkgStack[k + 1].root
          /\ disk[pkgStack[k].root].manifest = pkgStack[k].manifest
      BY <3>1 DEF WalkIInv, WalkInv, CurrentInv
    <3>3. pkgStack[k].next \in DOMAIN Deps(pkgStack[k])
      BY <3>1, <3>2, Typed, FrameFields DEF WalkIInv
    <3> QED  BY <3>2, <3>3 DEF Deps
  <2> QED  BY <2>1, <2>2
<1> QED  BY <1>1

----------------------------------------------------------------------------
(***************************************************************************)
(* What a lockfile tells of two resolutions.                               *)
(***************************************************************************)
RootsOf(W) == {p.root : p \in W}
OfDisk(W) == \A p \in W : p.manifest = disk[p.root].manifest /\ p.entry \in P!Entries(p.root)

LEMMA LockedAlike ==
  ASSUME NEW p \in Record, NEW q \in Record, P!LockedPackage(p) = P!LockedPackage(q)
  PROVE  p.root = q.root /\ p.manifest = q.manifest /\ p.entry = q.entry
<1>1. p.root = q.root /\ p.entry = q.entry /\ P!Digest(p.manifest) = P!Digest(q.manifest)
  BY DEF P!LockedPackage
<1>2. /\ p.manifest.module = q.manifest.module /\ p.manifest.edition = q.manifest.edition
      /\ p.manifest.dependencies = q.manifest.dependencies
  BY <1>1 DEF P!Digest
<1>3. p.manifest \in P!Manifest /\ q.manifest \in P!Manifest
  BY RecordFields
<1>4. p.manifest = q.manifest
  BY <1>2, <1>3 DEF P!Manifest
<1> QED  BY <1>1, <1>4

LEMMA ManifestsAt ==
  ASSUME NEW W, Whole(W)
  PROVE  DOMAIN ManifestsOf(W) = RootsOf(W) /\ \A p \in W : ManifestsOf(W)[p.root] = p.manifest
<1>1. ASSUME NEW p \in W PROVE ManifestsOf(W)[p.root] = p.manifest
  <2>1. PICK q : q = (CHOOSE w \in W : w.root = p.root)
    OBVIOUS
  <2>2. q \in W /\ q.root = p.root
    BY <2>1
  <2>3. q = p
    BY <2>2 DEF Whole
  <2> QED  BY <2>1, <2>3 DEF ManifestsOf
<1> QED  BY <1>1 DEF ManifestsOf, RootsOf

LEMMA OneEntry ==
  ASSUME NEW r, NEW x \in P!Entries(r), NEW y \in P!Entries(r) PROVE x = y
BY DEF P!Entries

(* The manifests say under which names the dependencies are found.         *)
LEMMA FoundAlike ==
  ASSUME NEW W, NEW R, Whole(W), Whole(R), RootsOf(W) = RootsOf(R),
         \A p \in W, q \in R : p.root = q.root => p.manifest = q.manifest,
         NEW p \in W, NEW q \in R, p.root = q.root
  PROVE  p.found = q.found
<1>1. /\ p.manifest = q.manifest /\ p.found \in Seq(Modules) /\ q.found \in Seq(Modules)
      /\ Len(p.found) = Len(Deps(p)) /\ Len(q.found) = Len(Deps(p)) /\ Len(Deps(p)) \in Nat
  BY RecordFields DEF Whole, Deps
<1>2. ASSUME NEW d \in 1 .. Len(Deps(p)) PROVE p.found[d] = q.found[d]
  <2>1. PICK w \in W : w.root = Deps(p)[d].root /\ w.manifest.module = p.found[d]
    BY DEF Whole
  <2>2. d \in 1 .. Len(Deps(q)) /\ Deps(q)[d] = Deps(p)[d]
    BY <1>1 DEF Deps
  <2>3. PICK r \in R : r.root = Deps(p)[d].root /\ r.manifest.module = q.found[d]
    BY <2>2 DEF Whole
  <2> QED  BY <2>1, <2>3
<1> QED  BY <1>1, <1>2

LEMMA LockAlike ==
  ASSUME NEW W, NEW R, Whole(W), Whole(R), OfDisk(R), LockOf(W) = LockOf(R)
  PROVE  /\ RootsOf(W) = RootsOf(R)
         /\ \A p \in W : p.manifest = disk[p.root].manifest /\ p.entry \in P!Entries(p.root)
<1>1. {P!LockedPackage(p) : p \in W} = {P!LockedPackage(p) : p \in R}
  BY DEF LockOf
<1>2. ASSUME NEW p \in W PROVE \E q \in R : p.root = q.root /\ p.manifest = q.manifest /\ p.entry = q.entry
  <2>1. PICK q \in R : P!LockedPackage(p) = P!LockedPackage(q)
    BY <1>1
  <2> QED  BY <2>1, LockedAlike DEF Whole
<1>3. ASSUME NEW q \in R PROVE \E p \in W : p.root = q.root
  <2>1. PICK p \in W : P!LockedPackage(p) = P!LockedPackage(q)
    BY <1>1
  <2> QED  BY <2>1, LockedAlike DEF Whole
<1> QED  BY <1>2, <1>3 DEF RootsOf, OfDisk

LEMMA AlikeLocked ==
  ASSUME NEW W, NEW R, Whole(W), Whole(R), OfDisk(R), RootsOf(W) = RootsOf(R),
         \A p \in W : p.manifest = disk[p.root].manifest /\ p.entry \in P!Entries(p.root)
  PROVE  LockOf(W) = LockOf(R)
<1>1. \A p \in W, q \in R : p.root = q.root => p.manifest = q.manifest
  BY DEF OfDisk
<1>2. ASSUME NEW p \in W, NEW q \in R, p.root = q.root PROVE P!LockedPackage(p) = P!LockedPackage(q)
  <2>1. p.found = q.found
    BY <1>1, <1>2, FoundAlike
  <2>2. p.entry = q.entry
    BY <1>2, OneEntry DEF OfDisk
  <2> QED  BY <1>1, <1>2, <2>1, <2>2 DEF P!LockedPackage
<1>3. (\A p \in W : \E q \in R : p.root = q.root) /\ (\A q \in R : \E p \in W : p.root = q.root)
  BY DEF RootsOf
<1>4. {P!LockedPackage(p) : p \in W} = {P!LockedPackage(p) : p \in R}
  BY <1>2, <1>3
<1>5. {p.manifest.edition : p \in {q \in W : q.root = Main}}
        = {p.manifest.edition : p \in {q \in R : q.root = Main}}
  BY <1>1, <1>3
<1> QED  BY <1>4, <1>5 DEF LockOf

----------------------------------------------------------------------------
(* What is resolved when the walk is over.                                 *)

LEMMA ResolvedIsWhole ==
  ASSUME WalkIInv PROVE Whole(P!Resolved) /\ (~disturbed => OfDisk(P!Resolved))
<1>1. P!Resolved \subseteq Record
  BY Typed DEF P!Resolved, WalkIInv
<1>2. \A p, q \in P!Resolved : p.root = q.root => p = q
  BY DEF P!Resolved, WalkIInv, ApartInv
<1>3. ASSUME NEW p \in P!Resolved
      PROVE  /\ Len(p.found) = Len(Deps(p))
             /\ \A d \in 1 .. Len(Deps(p)) : \E q \in P!Resolved :
                  q.root = Deps(p)[d].root /\ q.manifest.module = p.found[d]
  <2>1. PICK i \in DOMAIN packages : p = packages[i]
    BY DEF P!Resolved
  <2>2. Noted(packages, p, Len(Deps(p)))
    BY <2>1 DEF WalkIInv, WalkInv
  <2> QED  BY <2>2 DEF Noted, P!Resolved
<1>4. ~disturbed => OfDisk(P!Resolved)
  BY DEF OfDisk, P!Resolved, WalkIInv, CurrentInv
<1> QED  BY <1>1, <1>2, <1>3, <1>4 DEF Whole

Answered == {"written", "no lock", "fresh", "stale"}

LEMMA LockStarts == ASSUME P!Init PROVE LockInv
BY DEF P!Init, LockInv

LEMMA LockStays ==
  ASSUME LockInv, lock' = lock, locked' = locked,
         \/ UNCHANGED <<pkgPc, answer, command, packages>>
         \/ pkgPc' # "idle" \/ answer' \notin Answered
  PROVE  LockInv'
<1>1. lock' # NoLock => \E W : Whole(W) /\ lock' = LockOf(W) /\ locked' = ManifestsOf(W)
  BY DEF LockInv
<1>2. CASE UNCHANGED <<pkgPc, answer, command, packages>>
  <2>1. P!Lockfile' = P!Lockfile
    BY <1>2 DEF P!Lockfile, P!Resolved, P!LockedPackage
  <2> QED  BY <1>1, <1>2, <2>1 DEF LockInv
<1>3. CASE pkgPc' # "idle" \/ answer' \notin Answered
  BY <1>1, <1>3 DEF LockInv, Answered
<1> QED  BY <1>2, <1>3

LEMMA LockStep ==
  ASSUME P!PackageAssumption, WalkIInv, LockInv, P!Next \/ UNCHANGED P!vars
  PROVE  LockInv'
<1>1. ASSUME NEW c \in {"write", "check"}, P!Begin(c) PROVE LockInv'
  BY <1>1, LockStays DEF P!Begin
<1>2. ASSUME NEW r \in Roots, P!Edit(r) PROVE LockInv'
  BY <1>2, LockStays DEF P!Edit
<1>3. CASE UNCHANGED P!vars
  BY <1>3, LockStays DEF P!vars
<1>4. CASE P!Context
  BY <1>4, LockStays DEF P!Context, P!Fail, Answered
<1>5. ASSUME Same, Refuses PROVE LockInv'
  BY <1>5, LockStays DEF Same, Refuses, Refusals, Answered
<1>6. ASSUME Same, pkgPc' \in {"visit", "finish"} PROVE LockInv'
  BY <1>6, LockStays DEF Same
<1>7. CASE P!VisitMain
  BY <1>5, <1>6, <1>7, VisitMainEffect DEF Enters
<1>8. CASE P!Visit
  BY <1>5, <1>6, <1>8, VisitEffect DEF Enters, MeetsAgain, P!Visiting
<1>9. CASE P!FinishPackage
  BY <1>5, <1>6, <1>9, FinishEffect DEF Finishes
<1>10. CASE P!WriteLock
  <2>1. /\ lock' = P!Lockfile /\ pkgPc' = "idle" /\ answer' = "written" /\ command' = command
        /\ command = "write" /\ locked' = ManifestsOf(P!Resolved)
    BY <1>10 DEF P!WriteLock, ManifestsOf
  <2>2. Whole(P!Resolved) /\ lock' = LockOf(P!Resolved)
    BY <2>1, ResolvedIsWhole DEF P!Lockfile, LockOf
  <2>3. \E W : Whole(W) /\ lock' = LockOf(W) /\ locked' = ManifestsOf(W)
    BY <2>1, <2>2
  <2> QED  BY <2>1, <2>3 DEF LockInv
<1>11. CASE P!CheckLock
  <2>1. /\ UNCHANGED <<lock, locked, packages>> /\ pkgPc' = "idle"
        /\ answer' = CASE lock = NoLock -> "no lock"
                       [] lock # NoLock /\ lock = P!Lockfile -> "fresh"
                       [] OTHER -> "stale"
    BY <1>11 DEF P!CheckLock, P!Fail
  <2>2. P!Lockfile' = P!Lockfile
    BY <2>1 DEF P!Lockfile, P!Resolved, P!LockedPackage
  <2>3. lock' # NoLock => \E W : Whole(W) /\ lock' = LockOf(W) /\ locked' = ManifestsOf(W)
    BY <2>1 DEF LockInv
  <2>4. \/ answer' = "no lock" /\ lock = NoLock
        \/ answer' = "fresh" /\ lock = P!Lockfile
        \/ answer' = "stale" /\ lock # P!Lockfile
    BY <2>1
  <2> QED  BY <2>1, <2>2, <2>3, <2>4 DEF LockInv
<1> QED  BY <1>1, <1>2, <1>3, <1>4, <1>7, <1>8, <1>9, <1>10, <1>11 DEF P!Next, P!Step

(* The lockfile is fresh exactly if nothing changed.                       *)
LEMMA FreshDecides ==
  ASSUME WalkIInv, LockInv PROVE P!FreshIffSame
<1> SUFFICES ASSUME P!Accepted, command = "check", lock # NoLock, ~disturbed
             PROVE  answer = "fresh" <=>
                      /\ DOMAIN locked = {p.root : p \in P!Resolved}
                      /\ \A r \in DOMAIN locked :
                           /\ locked[r] = disk[r].manifest
                           /\ \E q \in lock.packages : q.root = r /\ q.entry \in P!Entries(r)
  BY DEF P!FreshIffSame
<1>1. PICK W : Whole(W) /\ lock = LockOf(W) /\ locked = ManifestsOf(W)
  BY DEF LockInv
<1>2. Whole(P!Resolved) /\ OfDisk(P!Resolved) /\ P!Lockfile = LockOf(P!Resolved)
  BY ResolvedIsWhole DEF P!Lockfile, LockOf
<1>3. answer = "fresh" <=> LockOf(W) = LockOf(P!Resolved)
  BY <1>1, <1>2 DEF LockInv, P!Accepted
<1>4. /\ DOMAIN locked = RootsOf(W) /\ \A p \in W : locked[p.root] = p.manifest
      /\ lock.packages = {P!LockedPackage(p) : p \in W}
  BY <1>1, ManifestsAt DEF LockOf
<1>5. \A p \in W : P!LockedPackage(p).root = p.root /\ P!LockedPackage(p).entry = p.entry
  BY DEF P!LockedPackage
<1>6. ASSUME NEW p \in W
      PROVE  (\E q \in lock.packages : q.root = p.root /\ q.entry \in P!Entries(p.root))
               <=> p.entry \in P!Entries(p.root)
  <2>1. ASSUME NEW q \in lock.packages, q.root = p.root, q.entry \in P!Entries(p.root)
        PROVE  p.entry \in P!Entries(p.root)
    <3>1. PICK w \in W : q = P!LockedPackage(w)
      BY <1>4
    <3>2. w.root = p.root /\ q.entry = w.entry
      BY <1>5, <2>1, <3>1
    <3>3. w = p
      BY <1>1, <3>2 DEF Whole
    <3> QED  BY <2>1, <3>2, <3>3
  <2> QED  BY <1>4, <1>5, <2>1
<1>7. (\A r \in DOMAIN locked :
         /\ locked[r] = disk[r].manifest
         /\ \E q \in lock.packages : q.root = r /\ q.entry \in P!Entries(r))
      <=> \A p \in W : p.manifest = disk[p.root].manifest /\ p.entry \in P!Entries(p.root)
  BY <1>4, <1>6 DEF RootsOf
<1>8. DOMAIN locked = {p.root : p \in P!Resolved} <=> RootsOf(W) = RootsOf(P!Resolved)
  BY <1>4 DEF RootsOf
<1>9. LockOf(W) = LockOf(P!Resolved) <=>
        /\ RootsOf(W) = RootsOf(P!Resolved)
        /\ \A p \in W : p.manifest = disk[p.root].manifest /\ p.entry \in P!Entries(p.root)
  BY <1>1, <1>2, LockAlike, AlikeLocked
<1> QED  BY <1>3, <1>7, <1>8, <1>9

----------------------------------------------------------------------------
(* Both graphs have a behaviour of their own in GraphsSpec.                *)
PackagesInv == part = "packages" => WalkIInv /\ LockInv

THEOREM PackagesInvariant == GraphsSpec => []PackagesInv
<1>1. GraphsInit => PackagesInv
  <2>1. P!Init => WalkIInv /\ LockInv
    BY WalkStarts, LockStarts, GraphsAssumption
  <2> QED  BY <2>1 DEF GraphsInit, PackagesInv
<1>2. PackagesInv /\ [GraphsNext]_<<part, vars, packageVars>> => PackagesInv'
  <2> SUFFICES ASSUME PackagesInv, [GraphsNext]_<<part, vars, packageVars>>, part' = "packages"
               PROVE  WalkIInv' /\ LockInv'
    BY DEF PackagesInv
  <2>1. part = "packages" /\ (P!Next \/ UNCHANGED P!vars)
    <3>1. part' = part
      BY DEF GraphsNext, OnModules, OnPackages
    <3>2. P!Next \/ UNCHANGED packageVars
      BY <3>1 DEF GraphsNext, OnModules, OnPackages
    <3> QED  BY <3>1, <3>2 DEF packageVars, P!vars
  <2>2. WalkIInv /\ LockInv
    BY <2>1 DEF PackagesInv
  <2> QED  BY <2>1, <2>2, WalkStep, LockStep, GraphsAssumption
<1> QED  BY <1>1, <1>2, PTL DEF GraphsSpec

(* A lockfile is fresh exactly if nothing it was made from has changed,    *)
(* for any packages and any edits before or after the command that asks,   *)
(* although what is compared are digests, sorted names and entries.        *)
THEOREM FreshExactlyIfSame == GraphsSpec => []FreshIffSame
<1>1. PackagesInv => FreshIffSame
  BY FreshDecides DEF PackagesInv, FreshIffSame
<1> QED  BY <1>1, PackagesInvariant, PTL

(* Whatever is edited while the packages are read, what is resolved is     *)
(* closed, without cycles, and has one directory per module; and a command *)
(* that no edit interferes with refuses a cycle only where the manifests   *)
(* have one.                                                               *)
THEOREM PackagesAlwaysSound == GraphsSpec => []PackagesAreSound
<1>1. PackagesInv => PackagesAreSound
  BY ResolutionSound, PackageCyclesReal, GraphsAssumption DEF PackagesInv, PackagesAreSound
<1> QED  BY <1>1, PackagesInvariant, PTL
----------------------------------------------------------------------------
(* The inference of return types (Inference).                              *)

(* A function of a smaller number than there were rounds has its type for  *)
(* good: those it calls have theirs, so the next round finds it again.     *)
InferTypes(types) ==
  /\ prog \in Written /\ sigs \in [Functions -> types] /\ round \in Nat
  /\ stage \in {"inferring", "inferred", "accepted", "refused", "over"}
DeclaredStay == \A f \in Functions : prog[f].ret # Undeclared => sigs[f] = prog[f].ret
RankedRest ==
  \A rank \in Orders(prog), f \in Untyped(prog) : rank[f] < round => Checked(f).ty = sigs[f]
(* The rounds end where nothing changed, or after one more than functions. *)
RoundsEnd == stage # "inferring" => Stable \/ round = Cardinality(Functions) + 1
InferInv(types) == InferTypes(types) /\ DeclaredStay /\ RankedRest /\ RoundsEnd

(* What a round finds of a function it has found before, if it has found   *)
(* before what each of those is that it calls.                             *)
LEMMA SameCallees ==
  ASSUME NEW types, LooksAtCallees(Written, types), NEW p \in Written, NEW f \in DOMAIN p,
         NEW s \in [DOMAIN p -> types], NEW r \in [DOMAIN p -> types],
         \A g \in DOMAIN p \cap Callees(p, f) : s[g] = r[g]
  PROVE  Finds(p, s, f).ty = Finds(p, r, f).ty
<1>1. OfCallees(p, s, f) = OfCallees(p, r, f)
  BY DEF OfCallees
<1>2. /\ Finds(p, s, f).ty = Finds(p, OfCallees(p, s, f), f).ty
      /\ Finds(p, r, f).ty = Finds(p, OfCallees(p, r, f), f).ty
  BY DEF LooksAtCallees
<1> QED
  BY <1>1, <1>2

LEMMA DeclaredFound ==
  ASSUME NEW types, LooksAtCallees(Written, types), NEW p \in Written, NEW f \in DOMAIN p,
         NEW s \in [DOMAIN p -> types], p[f].ret # Undeclared
  PROVE  Finds(p, s, f).ty = p[f].ret
BY DEF LooksAtCallees

LEMMA InferInitially ==
  ASSUME NEW types, FindsTypes(types), InferInit
  PROVE  InferInv(types)
<1>1. InferTypes(types)
  BY DEF InferTypes, InferInit, FindsTypes, Functions
<1>2. DeclaredStay
  BY DEF DeclaredStay, InferInit, Functions
<1>3. RankedRest
  <2> SUFFICES ASSUME NEW rank \in Orders(prog), NEW f \in Untyped(prog), rank[f] < round
               PROVE  FALSE
    BY DEF RankedRest
  <2>1. IsFiniteSet(DOMAIN prog)
    BY InferenceAssumption DEF InferInit
  <2>2. Cardinality(DOMAIN prog) \in Nat
    BY <2>1, FS_CardinalityType
  <2>3. rank[f] \in 0 .. Cardinality(DOMAIN prog) - 1
    BY DEF Orders, Untyped
  <2> QED
    BY <2>2, <2>3 DEF InferInit
<1>4. RoundsEnd
  BY DEF RoundsEnd, InferInit
<1> QED
  BY <1>1, <1>2, <1>3, <1>4 DEF InferInv

LEMMA InferRoundKeeps ==
  ASSUME NEW types, FindsTypes(types), LooksAtCallees(Written, types), InferInv(types), InferRound
  PROVE  InferInv(types)'
<1> USE DEF InferInv
<1>1. /\ prog \in Written /\ prog' = prog /\ sigs \in [DOMAIN prog -> types] /\ round \in Nat
      /\ sigs' = [f \in DOMAIN prog |-> Finds(prog, sigs, f).ty] /\ round' = round + 1
  BY DEF InferTypes, InferRound, Functions, Checked
<1>2. \A f \in DOMAIN prog : Finds(prog, sigs, f).ty \in types
  BY <1>1 DEF FindsTypes
<1>3. sigs' \in [DOMAIN prog -> types]
  BY <1>1, <1>2
<1>4. InferTypes(types)'
  BY <1>1, <1>3 DEF InferTypes, InferRound, Functions
<1>5. \A f \in DOMAIN prog :
        prog[f].ret # Undeclared => sigs[f] = prog[f].ret /\ sigs'[f] = prog[f].ret
  BY <1>1, DeclaredFound DEF DeclaredStay, Functions
<1>6. DeclaredStay'
  BY <1>1, <1>5 DEF DeclaredStay, Functions
<1>7. RankedRest'
  <2> SUFFICES ASSUME NEW rank \in Orders(prog), NEW f \in Untyped(prog), rank[f] < round + 1
               PROVE  Finds(prog, sigs', f).ty = sigs'[f]
    BY <1>1 DEF RankedRest, Checked
  <2>1. f \in DOMAIN prog
    BY DEF Untyped
  <2>2. \A g \in DOMAIN prog \cap Callees(prog, f) : sigs[g] = sigs'[g]
    <3> SUFFICES ASSUME NEW g \in DOMAIN prog, g \in Callees(prog, f),
                        prog[g].ret = Undeclared
                 PROVE  sigs[g] = sigs'[g]
      BY <1>5
    <3>1. g \in Untyped(prog)
      BY DEF Untyped
    <3>2. rank[g] < rank[f]
      <4>1. <<f, g>> \in {c \in Untyped(prog) \X Untyped(prog) : c[2] \in Callees(prog, c[1])}
        BY <3>1
      <4> QED
        BY <4>1 DEF Orders
    <3>3. rank[g] \in Int /\ rank[f] \in Int
      BY <2>1 DEF Orders
    <3>4. rank[g] < round
      BY <1>1, <3>2, <3>3
    <3> QED
      BY <1>1, <3>1, <3>4 DEF RankedRest, Checked
  <2>3. Finds(prog, sigs, f).ty = Finds(prog, sigs', f).ty
    BY <1>1, <1>3, <2>1, <2>2, SameCallees
  <2> QED
    BY <1>1, <2>1, <2>3
<1>8. RoundsEnd'
  <2> SUFFICES ASSUME stage' # "inferring"
               PROVE  Stable' \/ round' = Cardinality(Functions)' + 1
    BY DEF RoundsEnd
  <2>1. sigs' = sigs \/ round = Cardinality(Functions)
    BY DEF InferRound
  <2>2. CASE sigs' = sigs
    BY <1>1, <2>2 DEF Stable, Checked, Functions
  <2>3. CASE round = Cardinality(Functions)
    BY <1>1, <2>3 DEF Functions
  <2> QED
    BY <2>1, <2>2, <2>3
<1> QED
  BY <1>4, <1>6, <1>7, <1>8

LEMMA InferNextKeeps ==
  ASSUME NEW types, FindsTypes(types), LooksAtCallees(Written, types), InferInv(types),
         [InferNext]_inferenceVars
  PROVE  InferInv(types)'
<1>1. CASE InferRound
  BY <1>1, InferRoundKeeps
<1>2. CASE CheckProgram
  <2>1. UNCHANGED <<prog, sigs, round>> /\ stage # "inferring" /\ stage' \in {"accepted", "refused"}
    BY <1>2 DEF CheckProgram
  <2> QED
    BY <2>1 DEF InferInv, InferTypes, DeclaredStay, RankedRest, RoundsEnd, Stable, Checked, Functions
<1>3. CASE RunProgram
  <2>1. UNCHANGED <<prog, sigs, round>> /\ stage # "inferring" /\ stage' = "over"
    BY <1>3 DEF RunProgram
  <2> QED
    BY <2>1 DEF InferInv, InferTypes, DeclaredStay, RankedRest, RoundsEnd, Stable, Checked, Functions
<1>4. CASE UNCHANGED inferenceVars
  BY <1>4 DEF inferenceVars, InferInv, InferTypes, DeclaredStay, RankedRest, RoundsEnd, Stable,
              Checked, Functions
<1> QED
  BY <1>1, <1>2, <1>3, <1>4 DEF InferNext

LEMMA InferInvSettles ==
  ASSUME NEW types, LooksAtCallees(Written, types), InferInv(types)
  PROVE  InferenceSettles
<1> SUFFICES ASSUME stage = "inferred", NEW rank \in Orders(prog),
                    round = Cardinality(DOMAIN prog) + 1, NEW f \in DOMAIN prog
             PROVE  Finds(prog, sigs, f).ty = sigs[f]
  BY DEF InferInv, RoundsEnd, InferenceSettles, Stable, Checked, Functions
<1>1. prog \in Written /\ sigs \in [DOMAIN prog -> types]
  BY DEF InferInv, InferTypes, Functions
<1>2. CASE prog[f].ret # Undeclared
  BY <1>1, <1>2, DeclaredFound DEF InferInv, DeclaredStay, Functions
<1>3. CASE prog[f].ret = Undeclared
  <2>1. f \in Untyped(prog)
    BY <1>3 DEF Untyped
  <2>2. IsFiniteSet(DOMAIN prog)
    BY <1>1, InferenceAssumption
  <2>3. Cardinality(DOMAIN prog) \in Nat
    BY <2>2, FS_CardinalityType
  <2>4. rank[f] \in 0 .. Cardinality(DOMAIN prog) - 1
    BY DEF Orders
  <2>5. rank[f] < round
    BY <2>3, <2>4
  <2> QED
    BY <2>1, <2>5 DEF InferInv, RankedRest, Checked
<1> QED
  BY <1>2, <1>3

(* Of every program in which the functions without a declared return type  *)
(* call each other in no circle, with a checker that leaves declared types *)
(* as they are and looks at no signature but those of the functions that   *)
(* are called: when the rounds of lower end, one more than functions at    *)
(* most, another one would change no return type.                          *)
THEOREM InferenceComesToRest ==
  ASSUME NEW types, FindsTypes(types), LooksAtCallees(Written, types)
  PROVE  InferSpec => []InferenceSettles
<1>1. InferInit => InferInv(types)
  BY InferInitially
<1>2. InferInv(types) /\ [InferNext]_inferenceVars => InferInv(types)'
  BY InferNextKeeps
<1>3. InferInv(types) => InferenceSettles
  BY InferInvSettles
<1> QED
  BY <1>1, <1>2, <1>3, PTL DEF InferSpec
=============================================================================
