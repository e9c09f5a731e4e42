---------------------------- MODULE CreateTool_proofs ----------------------------
(***************************************************************************)
(* Proofs about CreateTool and the modules it is made of, for any number   *)
(* of calls, names, checkpoints and faults: types, the uniqueness of the   *)
(* live characters, the rounds of the slug allocator, uploads and their    *)
(* rows, and the answers of the tool character.create.                     *)
(*                                                                         *)
(* The inductive invariant has a part for each component, and each step    *)
(* changes the variables of one or two of them.                            *)
(***************************************************************************)
EXTENDS CreateTool, FiniteSetTheorems, TLAPS

-----------------------------------------------------------------------------
(* The inductive invariant.                                                *)

Bases == {SlugBase[n] : n \in Names} \cup {NoName}

\* Rows that are, or were, in the table.
Visible == {"live", "deleted", "gone"}

SlugType == slug \in [Calls -> Bases \X (Nat \ {0})]

\* The rows the unique indexes see, committed or not.
Held(c) == life[c] \in {"live", "flushed"}

KeysUnique ==
  \A c, d \in Calls : c # d /\ Held(c) /\ Held(d) => name[c] # name[d] /\ slug[c] # slug[d]

\* Every smaller suffix was found taken, by a character that keeps its slug for good.
Probed(c) ==
  \A j \in Nat \ {0} : j < slug[c][2] =>
    \E d \in Calls \ {c} : slug[d] = <<slug[c][1], j>> /\ life[d] \in Visible

CreationAgrees(c) ==
  /\ step[c] \in {"idle", "allocate", "insert"} => life[c] = "none" /\ rounds[c] < RetryLimit
  /\ life[c] = "flushed" <=> step[c] \in {"copy", "commit"}
  /\ edit[c] # NoName => life[c] \in {"live", "deleted"}
  /\ rounds[c] <= arrivals[c]
  /\ step[c] = "insert" /\ SlugTaken(c) => rounds[c] < arrivals[c]
  /\ kind[c] = "fork" /\ (step[c] = "commit" \/ life[c] \in Visible)
       => c \in images

CreationInv ==
  SlugType /\ KeysUnique /\ \A c \in Calls : Probed(c) /\ CreationAgrees(c)

UploadAgrees(c) ==
  /\ upload[c] \in {"idle", "put"} => c \notin blobs \cup uploaded
  /\ upload[c] = "insert" => c \in blobs \ (uploaded \cup strays)
  /\ upload[c] = "sweep" => c \in blobs \ strays
  /\ c \in blobs \ uploaded => c \in strays \/ upload[c] \in {"insert", "sweep"}
  /\ c \in uploaded \ blobs => c \in unsure
  /\ upload[c] = "sweep" /\ c \in uploaded => c \in unsure

\* What a tool's step says of its session and of who selected the Base.
ToolAgrees(c) ==
  /\ step[c] \in CreationSteps \ {"over"} => session[c] = "none"
  /\ step[c] \in ToolSteps => IsTool(c)
  /\ step[c] # "over" => reply[c] = "none"
  /\ step[c] \in (CreationSteps \ {"over"}) \cup {"handle", "upload"} => made[c] = 0
  /\ step[c] = "enqueue" => made[c] < CheckpointCount
  /\ chooser[c] # "nobody" <=> session[c] = "completed"
  /\ step[c] = "detail" => chooser[c] = "tool"
  /\ step[c] \in ToolSteps \ {"detail"} /\ c \notin lost => chooser[c] # "tool"
  /\ IsTool(c) /\ reply[c] = "ok" => chooser[c] = "tool"
  /\ IsTool(c) /\ reply[c] = "error" /\ c \notin lost =>
       chooser[c] # "tool" /\ (c \in excused \/ session[c] # "in_progress")

IndInv ==
  TypeOK /\ CreationInv /\ \A c \in Calls : UploadAgrees(c) /\ ToolAgrees(c)

-----------------------------------------------------------------------------
(* Creation and edits: keys, slugs and rounds.                             *)

LEMMA CreationInit == Init => CreationInv
  BY CharactersAssumption
  DEF Init, CharactersInit, CreationInv, SlugType, Bases, KeysUnique, Held, Probed,
      CreationAgrees

\* Different suffixes have different witnesses, so no suffix exceeds the number of calls.
LEMMA SuffixesBounded == CreationInv => \A c \in Calls : slug[c][2] \in Suffixes
  <1> SUFFICES ASSUME CreationInv, NEW c \in Calls PROVE slug[c][2] \in Suffixes
    OBVIOUS
  <1> DEFINE k == slug[c][2]
             b == slug[c][1]
             Rivals == Calls \ {c}
  <1>1. k \in Nat \ {0}
    BY DEF CreationInv, SlugType
  <1>2. \A j \in Nat \ {0} : j < k => \E d \in Rivals : slug[d] = <<b, j>>
    BY DEF CreationInv, Probed
  <1> HIDE DEF k, b
  <1>3. \A j \in 1..(k - 1) : \E d \in Rivals : slug[d] = <<b, j>>
    <2> SUFFICES ASSUME NEW j \in 1..(k - 1) PROVE \E d \in Rivals : slug[d] = <<b, j>>
      OBVIOUS
    <2>1. j \in Nat \ {0} /\ j < k
      BY <1>1
    <2>2. QED
      BY <1>2, <2>1
  <1>4. PICK f \in [1..(k - 1) -> Rivals] : \A j \in 1..(k - 1) : slug[f[j]] = <<b, j>>
    <2> DEFINE g == [j \in 1..(k - 1) |-> CHOOSE d \in Rivals : slug[d] = <<b, j>>]
    <2>1. \A j \in 1..(k - 1) : g[j] \in Rivals /\ slug[g[j]] = <<b, j>>
      BY <1>3
    <2>2. g \in [1..(k - 1) -> Rivals]
      BY <2>1
    <2>3. QED
      BY <2>1, <2>2
  <1>5. f \in Injection(1..(k - 1), Rivals)
    <2>1. ASSUME NEW i \in 1..(k - 1), NEW j \in 1..(k - 1), f[i] = f[j]
          PROVE  i = j
      <3>1. <<b, i>> = <<b, j>>
        BY <1>4, <2>1
      <3>2. QED
        BY <3>1
    <2>2. QED
      BY <2>1 DEF Injection, IsInjective
  <1>6. IsFiniteSet(Rivals) /\ Cardinality(Rivals) = Cardinality(Calls) - 1
    BY FS_RemoveElement, CharactersAssumption
  <1>7. Cardinality(1..(k - 1)) <= Cardinality(Rivals)
    BY <1>6, <1>5, FS_Injection
  <1>8. Cardinality(1..(k - 1)) = k - 1
    BY <1>1, FS_Interval
  <1>9. Cardinality(Calls) \in Nat
    BY FS_CardinalityType, CharactersAssumption
  <1>10. k \in Suffixes
    BY <1>1, <1>6, <1>7, <1>8, <1>9 DEF Suffixes
  <1>11. QED
    BY <1>10 DEF k

\* What was found taken stays taken, as long as rows keep their slugs.
LEMMA ProbedKept ==
  ASSUME NEW c \in Calls, Probed(c), slug'[c] = slug[c],
         \A d \in Calls : life[d] \in Visible => slug'[d] = slug[d] /\ life'[d] \in Visible
  PROVE  Probed(c)'
  BY DEF Probed

LEMMA OneMoreProbed ==
  ASSUME NEW c \in Calls, NEW e \in Calls \ {c}, Probed(c), slug[c][2] \in Nat \ {0},
         slug[e] = <<slug[c][1], slug[c][2]>>, life[e] \in Visible
  PROVE  \A j \in Nat \ {0} : j < slug[c][2] + 1 =>
           \E w \in Calls \ {c} : slug[w] = <<slug[c][1], j>> /\ life[w] \in Visible
  <1> DEFINE n == slug[c][2]
             Witnessed(j) == \E w \in Calls \ {c} : slug[w] = <<slug[c][1], j>> /\ life[w] \in Visible
  <1>1. n \in Nat \ {0}
    OBVIOUS
  <1>2. Witnessed(n)
    OBVIOUS
  <1>3. \A j \in Nat \ {0} : j < n => Witnessed(j)
    BY DEF Probed
  <1> HIDE DEF n, Witnessed
  <1>4. \A j \in Nat \ {0} : j < n + 1 => j = n \/ j < n
    BY <1>1
  <1>5. \A j \in Nat \ {0} : j < n + 1 => Witnessed(j)
    BY <1>2, <1>3, <1>4
  <1>6. QED
    BY <1>5 DEF n, Witnessed

\* Requests that create, before their row is inserted.
LEMMA ProbeKeepsCreation ==
  ASSUME TypeOK, CreationInv, NEW c \in Calls,
         ProbeSlug(c) \/ \E k \in KindsOf[c], n \in Names : Submit(c, k, n)
  PROVE  CreationInv'
  <1> USE DEF TypeOK, CharactersTypeOK, CreationInv
  <1>1. CASE ProbeSlug(c)
    <2>1. SlugType'
      BY <1>1 DEF ProbeSlug, SlugType
    <2>2. KeysUnique'
      BY <1>1, SMTT(30) DEF ProbeSlug, Goto, KeysUnique, Held, CreationAgrees, SlugType
    <2>3. ASSUME NEW d \in Calls PROVE Probed(d)'
      <3>1. \A e \in Calls : life[e] \in Visible => slug'[e] = slug[e] /\ life'[e] \in Visible
        BY <1>1 DEF ProbeSlug, SlugType, CreationAgrees, Visible
      <3>2. CASE slug'[d] = slug[d]
        BY <3>1, <3>2, ProbedKept
      <3>3. CASE slug'[d] # slug[d]
        <4>1. /\ d = c /\ SlugTaken(c) /\ slug'[c] = <<slug[c][1], slug[c][2] + 1>>
              /\ slug[c] = <<slug[c][1], slug[c][2]>> /\ slug[c][2] \in Nat \ {0}
          BY <1>1, <3>3 DEF ProbeSlug, SlugType
        <4>2. PICK e \in Calls \ {c} : Live(e) /\ slug[e] = slug[c]
          BY <4>1 DEF SlugTaken
        <4>3. slug[e] = <<slug[c][1], slug[c][2]>> /\ life[e] \in Visible
          BY <4>1, <4>2 DEF Live, Visible
        <4>4. \A j \in Nat \ {0} : j < slug[c][2] + 1 =>
                \E w \in Calls \ {c} : slug[w] = <<slug[c][1], j>> /\ life[w] \in Visible
          <5>1. Probed(c)
            OBVIOUS
          <5>2. QED
            BY <4>1, <4>2, <4>3, <5>1, OneMoreProbed
        <4>5. slug'[d][1] = slug[c][1] /\ slug'[d][2] = slug[c][2] + 1
          BY <4>1
        <4>6. ASSUME NEW j \in Nat \ {0}, j < slug'[d][2]
              PROVE  \E w \in Calls \ {d} : slug'[w] = <<slug'[d][1], j>> /\ life'[w] \in Visible
          <5>1. PICK w \in Calls \ {c} : slug[w] = <<slug[c][1], j>> /\ life[w] \in Visible
            BY <4>4, <4>5, <4>6
          <5>2. QED
            BY <3>1, <4>1, <4>5, <5>1
        <4>7. QED
          BY <4>6 DEF Probed
      <3>4. QED
        BY <3>2, <3>3
    <2>4. ASSUME NEW d \in Calls PROVE CreationAgrees(d)'
      BY <1>1 DEF ProbeSlug, Goto, SlugType, SlugTaken, Live, CreationAgrees
    <2>5. QED
      BY <2>1, <2>2, <2>3, <2>4
  <1>2. ASSUME NEW k \in KindsOf[c], NEW n \in Names, Submit(c, k, n) PROVE CreationInv'
    <2>1. SlugType'
      BY <1>2 DEF Submit, SlugType, Bases
    <2>2. KeysUnique'
      BY <1>2 DEF Submit, Goto, Answer, KeysUnique, Held, CreationAgrees, SlugType
    <2>3. ASSUME NEW d \in Calls PROVE Probed(d)'
      <3>1. \A e \in Calls : life[e] \in Visible => slug'[e] = slug[e] /\ life'[e] \in Visible
        BY <1>2 DEF Submit, SlugType, CreationAgrees, Visible
      <3>2. CASE d = c
        <4>1. slug'[d][2] = 1
          BY <1>2, <3>2 DEF Submit, SlugType
        <4>2. QED
          BY <4>1 DEF Probed
      <3>3. CASE d # c
        <4>1. slug'[d] = slug[d]
          BY <1>2, <3>3 DEF Submit, SlugType
        <4>2. QED
          BY <3>1, <4>1, ProbedKept
      <3>4. QED
        BY <3>2, <3>3
    <2>4. ASSUME NEW d \in Calls PROVE CreationAgrees(d)'
      <3>1. step[c] = "idle" /\ step'[c] \in {"allocate", "over"}
        BY <1>2 DEF Submit, Goto, Answer
      <3>2. CASE d = c
        BY <1>2, <3>1, <3>2 DEF Submit, CreationAgrees, Visible
      <3>3. CASE d # c
        <4>1. /\ step'[d] = step[d] /\ kind'[d] = kind[d] /\ slug'[d] = slug[d]
              /\ life' = life /\ rounds' = rounds /\ arrivals' = arrivals /\ edit' = edit
              /\ images' = images
          BY <1>2, <3>3 DEF Submit, Goto, Answer, SlugType
        <4>2. SlugTaken(d)' <=> SlugTaken(d)
          BY <1>2, <3>1, <4>1 DEF Submit, SlugType, SlugTaken, Live, CreationAgrees
        <4>3. QED
          BY <4>1, <4>2 DEF CreationAgrees
      <3>4. QED
        BY <3>2, <3>3
    <2>5. QED
      BY <2>1, <2>2, <2>3, <2>4
  <1>3. QED
    BY <1>1, <1>2

\* Steps that keep every slug, and the life of the rows that are seen.
LEMMA ProbesKept ==
  ASSUME CreationInv, slug' = slug,
         \A d \in Calls : life[d] \in Visible => life'[d] \in Visible
  PROVE  SlugType' /\ \A d \in Calls : Probed(d)'
  BY DEF CreationInv, SlugType, Probed

LEMMA InsertKeepsCreation ==
  ASSUME TypeOK, CreationInv, NEW c \in Calls, InsertRow(c)
  PROVE  CreationInv'
  <1> USE DEF TypeOK, CharactersTypeOK, CreationInv
  <1>0. step[c] = "insert" /\ life[c] = "none" /\ rounds[c] < RetryLimit
    BY DEF InsertRow, CreationAgrees
  <1>1. CASE /\ ~NameTaken(name[c], c) /\ ~SlugTaken(c)
             /\ SetLife(c, "flushed")
             /\ Goto(c, IF kind[c] = "fork" THEN "copy" ELSE "commit")
             /\ UNCHANGED <<reply, slug, rounds>>
    <2>1. KeysUnique'
      BY <1>1 DEF InsertRow, SetLife, KeysUnique, Held, Waits, NameTaken, SlugTaken, Live
    <2>2. SlugType' /\ \A d \in Calls : Probed(d)'
      BY <1>0, <1>1, ProbesKept DEF SetLife, Visible
    <2>3. ASSUME NEW d \in Calls PROVE CreationAgrees(d)'
      <3>1. SlugTaken(d)' <=> SlugTaken(d)
        BY <1>0, <1>1 DEF SetLife, SlugTaken, Live
      <3>2. QED
        BY <1>0, <1>1, <3>1 DEF InsertRow, SetLife, Goto, CreationAgrees, Visible
    <2>4. QED
      BY <2>1, <2>2, <2>3
  <1>2. CASE NameTaken(name[c], c) /\ Answer(c, "conflict") /\ UNCHANGED <<life, slug, rounds>>
    <2>1. KeysUnique'
      BY <1>2 DEF InsertRow, KeysUnique, Held
    <2>2. SlugType' /\ \A d \in Calls : Probed(d)'
      BY <1>2, ProbesKept
    <2>3. ASSUME NEW d \in Calls PROVE CreationAgrees(d)'
      <3>1. SlugTaken(d)' <=> SlugTaken(d)
        BY <1>2 DEF SlugTaken, Live
      <3>2. QED
        BY <1>0, <1>2, <3>1 DEF InsertRow, Answer, Goto, CreationAgrees, Visible
    <2>4. QED
      BY <2>1, <2>2, <2>3
  <1>3. CASE SlugRefused(c)
    <2>1. \A d \in Calls \ {c} : slug'[d] = slug[d]
      BY <1>3 DEF SlugRefused, SlugType
    <2>2. life' = life /\ (slug' = slug \/ slug'[c] = <<slug[c][1], 1>>)
      BY <1>3 DEF SlugRefused, SlugType
    <2>3. SlugType'
      BY <1>3 DEF SlugRefused, SlugType
    <2>4. KeysUnique'
      BY <1>0, <2>1, <2>2 DEF InsertRow, KeysUnique, Held
    <2>5. ASSUME NEW d \in Calls PROVE Probed(d)'
      <3>1. \A e \in Calls : life[e] \in Visible => slug'[e] = slug[e] /\ life'[e] \in Visible
        BY <1>0, <2>1, <2>2 DEF Visible
      <3>2. CASE slug'[d] = slug[d]
        BY <3>1, <3>2, ProbedKept
      <3>3. CASE slug'[d] # slug[d]
        <4>1. slug'[d][2] = 1
          BY <2>1, <2>2, <3>3
        <4>2. QED
          BY <4>1 DEF Probed
      <3>4. QED
        BY <3>2, <3>3
    <2>6. ASSUME NEW d \in Calls PROVE CreationAgrees(d)'
      <3>1. CASE d = c
        <4>1. rounds[c] < arrivals[c] /\ rounds'[c] = rounds[c] + 1 /\ arrivals' = arrivals
          BY <1>0, <1>3 DEF InsertRow, SlugRefused, CreationAgrees
        <4>2. rounds'[c] <= arrivals'[c]
          BY <4>1
        <4>3. step'[c] = "over" \/ (step'[c] = "allocate" /\ rounds'[c] < RetryLimit)
          <5>1. step'[c] = "over" \/ (step'[c] = "allocate" /\ rounds[c] + 1 # RetryLimit)
            BY <1>3 DEF SlugRefused, Answer, Goto
          <5>2. rounds[c] \in Nat /\ RetryLimit \in Nat
            BY CharactersAssumption
          <5>3. QED
            BY <1>0, <4>1, <5>1, <5>2
        <4>4. QED
          BY <1>0, <2>2, <3>1, <4>2, <4>3 DEF InsertRow, CreationAgrees, Visible
      <3>2. CASE d # c
        <4>1. step'[d] = step[d] /\ rounds'[d] = rounds[d]
          BY <1>3, <3>2 DEF SlugRefused, Answer, Goto
        <4>2. SlugTaken(d)' <=> SlugTaken(d)
          BY <1>0, <2>1, <2>2, <3>2 DEF SlugTaken, Live
        <4>3. QED
          BY <2>1, <2>2, <3>2, <4>1, <4>2 DEF InsertRow, CreationAgrees, Visible
      <3>3. QED
        BY <3>1, <3>2
    <2>7. QED
      BY <2>3, <2>4, <2>5, <2>6
  <1>4. QED
    BY <1>1, <1>2, <1>3 DEF InsertRow

\* A transaction that ends without a row.
LEMMA RowlessKeepsCreation ==
  ASSUME TypeOK, CreationInv, NEW c \in Calls,
         step[c] \in CreationSteps \ {"idle", "over"},
         SetLife(c, "none"), step' = [step EXCEPT ![c] = "over"],
         UNCHANGED <<kind, name, slug, rounds, edit, images, arrivals>>
  PROVE  CreationInv'
  <1> USE DEF TypeOK, CharactersTypeOK, CreationInv
  <1>1. life[c] \in {"none", "flushed"} /\ life' = [life EXCEPT ![c] = "none"]
    BY DEF CreationAgrees, CreationSteps, SetLife
  <1>2. KeysUnique'
    BY <1>1 DEF KeysUnique, Held
  <1>3. SlugType' /\ \A d \in Calls : Probed(d)'
    BY <1>1, ProbesKept DEF Visible
  <1>4. ASSUME NEW d \in Calls PROVE CreationAgrees(d)'
    <2>1. SlugTaken(d)' <=> SlugTaken(d)
      BY <1>1 DEF SlugTaken, Live
    <2>2. QED
      BY <1>1, <2>1 DEF CreationAgrees, Visible
  <1>5. QED
    BY <1>2, <1>3, <1>4

\* A row that becomes live, at a commit or at a restore.
LEMMA ArrivalKeepsAgreement ==
  ASSUME TypeOK, CreationInv, NEW c \in Calls, NEW d \in Calls \ {c},
         SetLife(c, "live"), Arrives(c), step'[d] = step[d],
         UNCHANGED <<kind, slug, rounds, images>>, edit'[d] = edit[d]
  PROVE  CreationAgrees(d)'
  <1> USE DEF TypeOK, CharactersTypeOK, CreationInv
  <1>1. life'[d] = life[d] /\ \A e \in Calls \ {c} : life'[e] = life[e]
    BY DEF SetLife
  <1>2. arrivals[d] <= arrivals'[d]
    BY DEF Arrives
  <1>3. rounds'[d] <= arrivals'[d]
    BY <1>2 DEF CreationAgrees, Arrives
  <1>4. ASSUME step'[d] = "insert", SlugTaken(d)' PROVE rounds'[d] < arrivals'[d]
    <2>1. step[d] = "insert" /\ rounds[d] < RetryLimit /\ rounds[d] <= arrivals[d]
      BY <1>4 DEF CreationAgrees
    <2>2. CASE SlugTaken(d)
      BY <1>2, <2>1, <2>2 DEF CreationAgrees, Arrives
    <2>3. CASE ~SlugTaken(d)
      <3>1. slug[d] = slug[c]
        BY <1>1, <1>4, <2>3 DEF SlugTaken, Live
      <3>2. arrivals'[d] = IF arrivals[d] < RetryLimit THEN arrivals[d] + 1 ELSE arrivals[d]
        BY <2>1, <3>1 DEF Arrives
      <3>3. QED
        BY <2>1, <3>2
    <2>4. QED
      BY <2>2, <2>3
  <1>5. QED
    BY <1>1, <1>3, <1>4 DEF CreationAgrees

LEMMA CommitKeepsCreation ==
  ASSUME TypeOK, CreationInv, NEW c \in Calls,
         CopyImage(c) \/ CommitCharacter(c) \/ CommitFails(c) \/ CreationCrash(c)
  PROVE  CreationInv'
  <1> USE DEF TypeOK, CharactersTypeOK, CreationInv
  <1>1. CASE step[c] = "copy" /\ images' = images \cup {c} /\ Goto(c, "commit")
             /\ UNCHANGED <<kind, name, slug, rounds, life, edit, arrivals>>
    <2>1. KeysUnique'
      BY <1>1 DEF KeysUnique, Held
    <2>2. SlugType' /\ \A d \in Calls : Probed(d)'
      BY <1>1, ProbesKept
    <2>3. ASSUME NEW d \in Calls PROVE CreationAgrees(d)'
      <3>1. SlugTaken(d)' <=> SlugTaken(d)
        BY <1>1 DEF SlugTaken, Live
      <3>2. QED
        BY <1>1, <3>1 DEF Goto, CreationAgrees
    <2>4. QED
      BY <2>1, <2>2, <2>3
  <1>2. CASE /\ step[c] \in CreationSteps \ {"idle", "over"}
             /\ SetLife(c, "none") /\ step' = [step EXCEPT ![c] = "over"]
             /\ UNCHANGED <<kind, name, slug, rounds, edit, images, arrivals>>
    BY <1>2, RowlessKeepsCreation
  <1>3. CASE /\ step[c] = "commit" /\ SetLife(c, "live") /\ Arrives(c)
             /\ step' \in {[step EXCEPT ![c] = "over"], [step EXCEPT ![c] = "handle"]}
             /\ UNCHANGED <<kind, name, slug, rounds, edit, images>>
    <2>1. life[c] = "flushed" /\ life' = [life EXCEPT ![c] = "live"]
      BY <1>3 DEF SetLife, CreationAgrees
    <2>2. KeysUnique'
      BY <1>3, <2>1 DEF KeysUnique, Held
    <2>3. SlugType' /\ \A d \in Calls : Probed(d)'
      BY <1>3, <2>1, ProbesKept DEF Visible
    <2>4. ASSUME NEW d \in Calls PROVE CreationAgrees(d)'
      <3>1. CASE d # c
        <4>1. step'[d] = step[d] /\ edit'[d] = edit[d]
          BY <1>3, <3>1
        <4>2. QED
          BY <1>3, <3>1, <4>1, ArrivalKeepsAgreement
      <3>2. CASE d = c
        <4>1. arrivals'[c] = arrivals[c]
          BY <1>3 DEF Arrives
        <4>2. QED
          BY <1>3, <2>1, <3>2, <4>1 DEF CreationAgrees, Visible
      <3>3. QED
        BY <3>1, <3>2
    <2>5. QED
      BY <2>2, <2>3, <2>4
  <1>4. QED
    BY <1>1, <1>2, <1>3
    DEF CopyImage, CommitCharacter, CommitFails, CreationCrash, Answer, Goto, CreationSteps

LEMMA EditKeepsCreation ==
  ASSUME TypeOK, CreationInv, NEW c \in Calls, Edit(c)
  PROVE  CreationInv'
  <1> USE DEF TypeOK, CharactersTypeOK, CreationInv
  <1> SlugType' /\ \A d \in Calls : Probed(d)'
    <2>1. slug' = slug
      BY DEF Edit, BeginRename, FinishRename, DeleteCharacter, Expire, BeginRestore,
             FinishRestore, EditVars
    <2>2. \A d \in Calls : life[d] \in Visible => life'[d] \in Visible
      BY DEF Edit, BeginRename, FinishRename, DeleteCharacter, Expire, BeginRestore,
             FinishRestore, SetLife, Visible
    <2>3. QED
      BY <2>1, <2>2, ProbesKept
  <1> UNCHANGED <<kind, step, slug, rounds, images>>
    BY DEF Edit, BeginRename, FinishRename, DeleteCharacter, Expire, BeginRestore,
           FinishRestore, EditVars
  <1>1. ASSUME UNCHANGED <<life, arrivals>>, KeysUnique',
               \A d \in Calls : edit'[d] # NoName => edit[d] # NoName \/ life[d] \in {"live", "deleted"}
        PROVE  CreationInv'
    <2>1. ASSUME NEW d \in Calls PROVE CreationAgrees(d)'
      <3>1. SlugTaken(d)' <=> SlugTaken(d)
        BY <1>1 DEF SlugTaken, Live
      <3>2. QED
        BY <1>1, <3>1 DEF CreationAgrees
    <2>2. QED
      BY <1>1, <2>1
  <1>2. ASSUME NEW n \in Names, BeginRename(c, n) PROVE CreationInv'
    <2>1. KeysUnique'
      BY <1>2 DEF BeginRename, KeysUnique, Held
    <2>2. QED
      BY <1>1, <1>2, <2>1 DEF BeginRename, Live
  <1>3. CASE FinishRename(c)
    <2>1. KeysUnique'
      <3>1. CASE Live(c) /\ ~NameTaken(edit[c], c)
        BY <1>3, <3>1 DEF FinishRename, KeysUnique, Held, Live, Waits, NameTaken
      <3>2. CASE Live(c) /\ NameTaken(edit[c], c)
        BY <1>3, <3>2 DEF FinishRename, KeysUnique, Held
      <3>3. CASE ~Live(c)
        <4>1. ~Held(c) /\ life' = life /\ \A d \in Calls \ {c} : name'[d] = name[d]
          BY <1>3, <3>3, CharactersAssumption DEF FinishRename, CreationAgrees, Held, Live
        <4>2. QED
          BY <4>1 DEF KeysUnique, Held
      <3>4. QED
        BY <3>1, <3>2, <3>3
    <2>2. QED
      BY <1>1, <1>3, <2>1 DEF FinishRename
  <1>4. ASSUME NEW l \in {"deleted", "gone"}, SetLife(c, l), UNCHANGED <<name, edit, arrivals>>,
               \/ life[c] = "live" /\ l = "deleted"
               \/ life[c] = "deleted" /\ edit[c] = NoName
        PROVE  CreationInv'
    <2>1. KeysUnique'
      BY <1>4 DEF SetLife, KeysUnique, Held
    <2>2. ASSUME NEW d \in Calls PROVE CreationAgrees(d)'
      <3>1. SlugTaken(d)' => SlugTaken(d)
        BY <1>4 DEF SetLife, SlugTaken, Live
      <3>2. QED
        BY <1>4, <3>1 DEF SetLife, CreationAgrees, Visible
    <2>3. QED
      BY <2>1, <2>2
  <1>5. CASE BeginRestore(c)
    <2>1. KeysUnique'
      BY <1>5 DEF BeginRestore, KeysUnique, Held
    <2>2. QED
      BY <1>1, <1>5, <2>1 DEF BeginRestore
  <1>6. CASE FinishRestore(c)
    <2>1. CASE NameTaken(name[c], c) \/ SlugTaken(c)
      <3>1. KeysUnique'
        BY <1>6, <2>1 DEF FinishRestore, KeysUnique, Held
      <3>2. QED
        BY <1>1, <1>6, <2>1, <3>1 DEF FinishRestore
    <2>2. CASE ~(NameTaken(name[c], c) \/ SlugTaken(c))
      <3>1. SetLife(c, "live") /\ Arrives(c) /\ UNCHANGED name /\ edit' = [edit EXCEPT ![c] = NoName]
        BY <1>6, <2>2 DEF FinishRestore
      <3>2. KeysUnique'
        BY <1>6, <2>2, <3>1
        DEF FinishRestore, SetLife, KeysUnique, Held, Waits, NameTaken, SlugTaken, Live
      <3>3. ASSUME NEW d \in Calls PROVE CreationAgrees(d)'
        <4>1. CASE d # c
          BY <3>1, <4>1, ArrivalKeepsAgreement
        <4>2. CASE d = c
          <5>1. life[c] \in {"live", "deleted"} /\ life'[c] = "live" /\ arrivals'[c] = arrivals[c]
            BY <1>6, <3>1, CharactersAssumption DEF FinishRestore, SetLife, Arrives, CreationAgrees
          <5>2. QED
            BY <3>1, <4>2, <5>1 DEF CreationAgrees, Visible
        <4>3. QED
          BY <4>1, <4>2
      <3>4. QED
        BY <3>2, <3>3
    <2>3. QED
      BY <2>1, <2>2
  <1>7. QED
    BY <1>2, <1>3, <1>4, <1>5, <1>6 DEF Edit, DeleteCharacter, Expire, Live

-----------------------------------------------------------------------------
(* Uploads, and what a step leaves alone.                                  *)

\* A tool moves among its own steps and does not touch its character.
LEMMA ToolKeepsCreation ==
  ASSUME CreationInv, KeepCharacters,
         \A d \in Calls : step'[d] = step[d] \/ (step[d] \in ToolSteps /\ step'[d] \in ToolSteps \cup {"over"})
  PROVE  CreationInv'
  <1> USE DEF KeepCharacters, CreationInv
  <1>1. KeysUnique'
    BY DEF KeysUnique, Held
  <1>2. SlugType' /\ \A d \in Calls : Probed(d)'
    BY ProbesKept
  <1>3. ASSUME NEW d \in Calls PROVE CreationAgrees(d)'
    <2>1. SlugTaken(d)' <=> SlugTaken(d)
      BY DEF SlugTaken, Live
    <2>2. step'[d] = step[d] \/ {step[d], step'[d]} \cap {"idle", "allocate", "insert", "copy", "commit"} = {}
      BY DEF ToolSteps
    <2>3. QED
      BY <2>1, <2>2 DEF CreationAgrees
  <1>4. QED
    BY <1>1, <1>2, <1>3

UploadsAgree == UploadsTypeOK /\ \A c \in Calls : UploadAgrees(c)

LEMMA UploadsKept ==
  ASSUME UploadsAgree, UNCHANGED uploadVars
  PROVE  UploadsAgree'
  BY DEF UploadsAgree, UploadsTypeOK, UploadAgrees, uploadVars

LEMMA UploadMoves ==
  ASSUME UploadsAgree, NEW c \in Calls,
         \/ \E m \in {"reference", "mask"} : BeginUpload(c, m)
         \/ UploadStep(c) \/ UploadCrash(c)
         \/ UploadStops(c)
         \/ /\ upload[c] = "idle" /\ SetUpload(c, "put")
            /\ UNCHANGED <<media, blobs, uploaded, strays, unsure>>
         \/ /\ upload[c] \in {"put", "insert"}
            /\ SetUpload(c, IF upload[c] = "put" THEN "refused" ELSE "sweep")
            /\ UNCHANGED <<media, blobs, uploaded, strays, unsure>>
  PROVE  UploadsAgree'
  <1> USE DEF UploadsAgree, UploadsTypeOK, UploadAgrees, UploadSteps, SetUpload
  <1>1. CASE \/ \E m \in {"reference", "mask"} : BeginUpload(c, m)
             \/ /\ upload[c] = "idle" /\ SetUpload(c, "put")
                /\ UNCHANGED <<media, blobs, uploaded, strays, unsure>>
    BY <1>1 DEF BeginUpload
  <1>2. CASE PutFile(c)
    BY <1>2 DEF PutFile
  <1>3. CASE InsertUpload(c)
    BY <1>3 DEF InsertUpload
  <1>4. CASE InsertFails(c)
    BY <1>4 DEF InsertFails
  <1>5. CASE SweepUpload(c)
    BY <1>5 DEF SweepUpload
  <1>6. CASE UploadStops(c)
    <2>1. CASE upload[c] \in {"put", "insert", "sweep"}
      BY <1>6, <2>1 DEF UploadStops
    <2>2. CASE upload[c] \notin {"put", "insert", "sweep"}
      BY <1>6, <2>2, UploadsKept DEF UploadStops
    <2>3. QED
      BY <2>1, <2>2
  <1>7. CASE /\ upload[c] \in {"put", "insert"}
             /\ SetUpload(c, IF upload[c] = "put" THEN "refused" ELSE "sweep")
             /\ UNCHANGED <<media, blobs, uploaded, strays, unsure>>
    BY <1>7
  <1>8. QED
    BY <1>1, <1>2, <1>3, <1>4, <1>5, <1>6, <1>7 DEF UploadStep, UploadCrash

LEMMA NextKeepsUploads ==
  ASSUME UploadsAgree, Next
  PROVE  UploadsAgree'
  <1> PICK c \in Calls : CharacterSide(c) \/ Tool(c) \/ ToolFault(c) \/ Others(c)
    BY DEF Next
  <1>1. CASE ToolUpload(c)
    BY <1>1, UploadMoves, UploadsKept DEF ToolUpload, uploadVars
  <1>2. CASE ToolCut(c)
    BY <1>2, UploadMoves, UploadsKept DEF ToolCut, uploadVars
  <1>3. CASE UserUploads(c) \/ UploadRuns(c)
    BY <1>3, UploadMoves DEF UserUploads, UploadRuns
  <1>4. CASE ~(ToolUpload(c) \/ ToolCut(c) \/ UserUploads(c) \/ UploadRuns(c))
    <2>1. UNCHANGED uploadVars
      BY <1>4 DEF CharacterSide, Tool, ToolFault, Others, SendHandle, EnqueueCheckpoint, PollTask,
         SelectBase, ReturnDetail, AbandonQuietly, ToolFails, TaskEnds, UserEndsSession
    <2>2. QED
      BY <2>1, UploadsKept
  <1>5. QED
    BY <1>1, <1>2, <1>3, <1>4

-----------------------------------------------------------------------------
(* Types, and the answers of the tool.                                     *)

LEMMA NextKeepsCreation ==
  ASSUME IndInv, Next
  PROVE  CreationInv'
  <1> TypeOK /\ CreationInv
    BY DEF IndInv
  <1> PICK c \in Calls : CharacterSide(c) \/ Tool(c) \/ ToolFault(c) \/ Others(c)
    BY DEF Next
  <1>1. CASE CharacterSide(c)
    BY <1>1, ProbeKeepsCreation, InsertKeepsCreation, CommitKeepsCreation, EditKeepsCreation
    DEF CharacterSide, Create
  <1>2. CASE Tool(c) \/ ToolFault(c) \/ Others(c)
    <2>1. KeepCharacters
      BY <1>2 DEF Tool, ToolFault, Others, SendHandle, ToolUpload, EnqueueCheckpoint, PollTask,
         SelectBase, ReturnDetail, AbandonQuietly, ToolFails, ToolCut, TaskEnds, UserEndsSession,
         UserUploads, UploadRuns
    <2>2. \/ step' = step
          \/ /\ step[c] \in ToolSteps
             /\ \E s \in ToolSteps \cup {"over"} : step' = [step EXCEPT ![c] = s]
      BY <1>2 DEF Tool, ToolFault, Others, SendHandle, ToolUpload, EnqueueCheckpoint, PollTask,
         SelectBase, ReturnDetail, AbandonQuietly, ToolFails, ToolCut, TaskEnds, UserEndsSession,
         UserUploads, UploadRuns, Goto, Answer, ToolSteps
    <2>3. \A d \in Calls : step'[d] = step[d]
                            \/ (step[d] \in ToolSteps /\ step'[d] \in ToolSteps \cup {"over"})
      BY <2>2 DEF TypeOK
    <2>4. QED
      BY <2>1, <2>3, ToolKeepsCreation
  <1>3. QED
    BY <1>1, <1>2

\* Everything of TypeOK that says more than uploads and slugs do.
PlainTypes ==
  /\ kind \in [Calls -> Kinds]
  /\ reply \in [Calls -> Replies]
  /\ name \in [Calls -> Names \cup {NoName}]
  /\ rounds \in [Calls -> 0..RetryLimit]
  /\ life \in [Calls -> LifeStates]
  /\ session \in [Calls -> {"none", "in_progress", "completed", "abandoned"}]
  /\ edit \in [Calls -> Names \cup {NoName, "restore"}]
  /\ images \subseteq Calls /\ lost \subseteq Calls
  /\ arrivals \in [Calls -> 0..RetryLimit]
  /\ faults \in 0..MaxFaults
  /\ step \in [Calls -> CreationSteps \cup ToolSteps]
  /\ task \in [Calls -> {"none", "active", "completed", "failed", "cancelled"}]
  /\ made \in [Calls -> 0..CheckpointCount]
  /\ usable \subseteq Calls /\ excused \subseteq Calls
  /\ chooser \in [Calls -> {"nobody", "tool", "user"}]

LEMMA TypesFromParts ==
  ASSUME PlainTypes', UploadsAgree', CreationInv'
  PROVE  TypeOK'
  <1>1. (\A c \in Calls : slug[c][2] \in Suffixes)'
    <2>1. (CreationInv => \A c \in Calls : slug[c][2] \in Suffixes)'
      BY SuffixesBounded, PTL
    <2>2. QED
      BY <2>1
  <1>2. QED
    BY <1>1 DEF PlainTypes, UploadsAgree, TypeOK, CharactersTypeOK

LEMMA CreationKeepsTypes ==
  ASSUME IndInv, NEW c \in Calls, CharacterSide(c)
  PROVE  PlainTypes'
  <1> PlainTypes /\ CreationAgrees(c)
    BY DEF IndInv, TypeOK, CharactersTypeOK, PlainTypes, CreationInv
  <1> USE CharactersAssumption
      DEF PlainTypes, Goto, Answer, SetLife, Fault, Replies, LifeStates, CreationSteps, ToolSteps
  <1> UNCHANGED toolVars
    BY DEF CharacterSide
  <1>1. ASSUME NEW k \in KindsOf[c], NEW n \in Names, Submit(c, k, n) PROVE PlainTypes'
    BY <1>1 DEF Submit, toolVars
  <1>2. CASE ProbeSlug(c)
    BY <1>2 DEF ProbeSlug, toolVars
  <1>3. CASE InsertRow(c)
    <2>1. rounds[c] + 1 \in 0..RetryLimit
      BY <1>3 DEF InsertRow, CreationAgrees
    <2>2. rounds' \in [Calls -> 0..RetryLimit]
      BY <1>3, <2>1 DEF InsertRow, SlugRefused
    <2>3. /\ \/ life' = life
             \/ life' = [life EXCEPT ![c] = "flushed"]
          /\ \/ step' = step /\ reply' = reply
             \/ \E s \in {"copy", "commit", "allocate"} : step' = [step EXCEPT ![c] = s] /\ reply' = reply
             \/ /\ step' = [step EXCEPT ![c] = "over"]
                /\ \E r \in {"conflict", "error"} : reply' = [reply EXCEPT ![c] = r]
      BY <1>3 DEF InsertRow, SlugRefused
    <2>4. life' \in [Calls -> LifeStates] /\ reply' \in [Calls -> Replies]
          /\ step' \in [Calls -> CreationSteps \cup ToolSteps]
      BY <2>3
    <2>5. QED
      BY <1>3, <2>2, <2>4 DEF InsertRow, toolVars
  <1>4. CASE CopyImage(c)
    BY <1>4 DEF CopyImage, toolVars
  <1>5. Arrives(c) => arrivals' \in [Calls -> 0..RetryLimit]
    BY DEF Arrives
  <1>6. CASE CommitCharacter(c)
    BY <1>5, <1>6 DEF CommitCharacter, toolVars
  <1>7. CASE CommitFails(c)
    BY <1>5, <1>7 DEF CommitFails, toolVars
  <1>8. CASE CreationCrash(c)
    BY <1>8 DEF CreationCrash, toolVars
  <1>9. CASE Edit(c)
    BY <1>5, <1>9 DEF Edit, BeginRename, FinishRename, DeleteCharacter, Expire, BeginRestore,
       FinishRestore, EditVars, toolVars
  <1>10. QED
    BY <1>1, <1>2, <1>3, <1>4, <1>6, <1>7, <1>8, <1>9 DEF CharacterSide, Create

LEMMA ToolKeepsTypes ==
  ASSUME IndInv, NEW c \in Calls, Tool(c) \/ ToolFault(c) \/ Others(c)
  PROVE  PlainTypes'
  <1> PlainTypes /\ ToolAgrees(c)
    BY DEF IndInv, TypeOK, CharactersTypeOK, PlainTypes
  <1> USE CharactersAssumption, CheckpointCountAssumption
      DEF PlainTypes, KeepCharacters, Goto, Answer, SetTask, Fault, Replies, CreationSteps, ToolSteps
  <1>1. CASE SendHandle(c)
    BY <1>1 DEF SendHandle, toolVars
  <1>2. CASE ToolUpload(c)
    BY <1>2 DEF ToolUpload, toolVars
  <1>3. CASE EnqueueCheckpoint(c)
    <2>1. made[c] + 1 \in 0..CheckpointCount
      BY <1>3 DEF EnqueueCheckpoint, ToolAgrees
    <2>2. made' \in [Calls -> 0..CheckpointCount]
      BY <1>3, <2>1 DEF EnqueueCheckpoint
    <2>3. QED
      BY <1>3, <2>2 DEF EnqueueCheckpoint
  <1>4. CASE PollTask(c)
    BY <1>4 DEF PollTask, toolVars
  <1>5. CASE SelectBase(c)
    BY <1>5 DEF SelectBase
  <1>6. CASE ReturnDetail(c)
    BY <1>6 DEF ReturnDetail, toolVars
  <1>7. CASE AbandonQuietly(c)
    BY <1>7 DEF AbandonQuietly
  <1>8. CASE ToolFails(c)
    BY <1>8 DEF ToolFails, toolVars
  <1>9. CASE ToolCut(c)
    BY <1>9 DEF ToolCut, toolVars
  <1>10. CASE TaskEnds(c) \/ UserEndsSession(c)
    BY <1>10 DEF TaskEnds, UserEndsSession
  <1>11. CASE UserUploads(c) \/ UploadRuns(c)
    <2>1. faults' \in 0..MaxFaults
      BY <1>11 DEF UserUploads, UploadRuns, BeginUpload, UploadStep, PutFile, InsertUpload, InsertFails,
         SweepUpload, UploadCrash
    <2>2. QED
      BY <1>11, <2>1 DEF UserUploads, UploadRuns, toolVars
  <1>12. QED
    BY <1>1, <1>2, <1>3, <1>4, <1>5, <1>6, <1>7, <1>8, <1>9, <1>10, <1>11
    DEF Tool, ToolFault, Others

AllToolAgree == \A c \in Calls : ToolAgrees(c)

\* A step of one call that leaves the variables of ToolAgrees of the others alone.
OnlyFor(c) ==
  \A d \in Calls \ {c} :
    /\ kind'[d] = kind[d] /\ step'[d] = step[d] /\ reply'[d] = reply[d]
    /\ session'[d] = session[d] /\ made'[d] = made[d] /\ chooser'[d] = chooser[d]
    /\ (d \in lost' <=> d \in lost) /\ (d \in excused' <=> d \in excused)

LEMMA OthersAgree ==
  ASSUME AllToolAgree, NEW c \in Calls, OnlyFor(c), ToolAgrees(c)'
  PROVE  AllToolAgree'
  <1>1. ASSUME NEW d \in Calls \ {c} PROVE ToolAgrees(d)'
    BY <1>1 DEF AllToolAgree, OnlyFor, ToolAgrees, IsTool
  <1>2. QED
    BY <1>1 DEF AllToolAgree

LEMMA CreationKeepsTool ==
  ASSUME IndInv, NEW c \in Calls, CharacterSide(c)
  PROVE  AllToolAgree'
  <1> PlainTypes /\ ToolAgrees(c) /\ AllToolAgree
    BY DEF IndInv, TypeOK, CharactersTypeOK, PlainTypes, AllToolAgree
  <1> UNCHANGED toolVars
    BY DEF CharacterSide
  <1> USE DEF PlainTypes, toolVars
  <1>1. CASE Create(c)
    <2>1. OnlyFor(c)
      <3>1. /\ kind' = kind \/ \E k \in Kinds : kind' = [kind EXCEPT ![c] = k]
            /\ step' = step \/ \E s \in CreationSteps \cup ToolSteps : step' = [step EXCEPT ![c] = s]
            /\ reply' = reply \/ \E r \in Replies : reply' = [reply EXCEPT ![c] = r]
            /\ session' = session \/ session' = [session EXCEPT ![c] = "in_progress"]
            /\ lost' = lost \/ lost' = lost \cup {c}
        BY <1>1, CharactersAssumption
        DEF Create, Submit, ProbeSlug, InsertRow, SlugRefused, CopyImage, CommitCharacter, CommitFails,
            CreationCrash, Goto, Answer, CreationSteps, ToolSteps, Replies
      <3>2. QED
        BY <3>1 DEF OnlyFor
    <2>2. ToolAgrees(c)'
      <3>1. step[c] \in CreationSteps \ {"over"} /\ session[c] = "none" /\ reply[c] = "none"
            /\ made[c] = 0 /\ chooser[c] = "nobody"
        BY <1>1 DEF Create, Submit, ProbeSlug, InsertRow, CopyImage, CommitCharacter, CommitFails,
           CreationCrash, ToolAgrees, CreationSteps
      <3> DEFINE Under == step'[c] \in CreationSteps \ {"over"} /\ reply'[c] = "none" /\ session'[c] = "none"
                 Begun == step'[c] = "handle" /\ reply'[c] = "none" /\ session'[c] = "in_progress" /\ IsTool(c)'
                 Ended == /\ step'[c] = "over" /\ session'[c] \in {"none", "in_progress"}
                          /\ IsTool(c)' => reply'[c] # "ok"
                          /\ reply'[c] = "error" => c \in lost' \/ session'[c] = "none"
      <3>2. Under \/ Begun \/ Ended
        <4>1. ASSUME NEW k \in KindsOf[c], NEW n \in Names, Submit(c, k, n) PROVE Under \/ Ended
          BY <3>1, <4>1 DEF Submit, Goto, Answer, CreationSteps
        <4>2. CASE ProbeSlug(c)
          BY <3>1, <4>2 DEF ProbeSlug, Goto, CreationSteps
        <4>3. CASE InsertRow(c)
          BY <3>1, <4>3 DEF InsertRow, SlugRefused, Goto, Answer, CreationSteps
        <4>4. CASE CopyImage(c)
          BY <3>1, <4>4 DEF CopyImage, Goto, Answer, CreationSteps
        <4>5. CASE CommitCharacter(c)
          BY <3>1, <4>5 DEF CommitCharacter, Goto, Answer, IsTool, Kinds
        <4>6. CASE CommitFails(c) \/ CreationCrash(c)
          BY <3>1, <4>6 DEF CommitFails, CreationCrash, Goto, Answer
        <4>7. QED
          BY <1>1, <4>1, <4>2, <4>3, <4>4, <4>5, <4>6 DEF Create
      <3>3. made'[c] = 0 /\ chooser'[c] = "nobody"
        BY <3>1
      <3>4. QED
        BY <3>2, <3>3 DEF ToolAgrees, CreationSteps, ToolSteps
    <2>3. QED
      BY <2>1, <2>2, OthersAgree
  <1>2. CASE Edit(c)
    <2>1. UNCHANGED EditVars
      BY <1>2 DEF Edit, BeginRename, FinishRename, DeleteCharacter, Expire, BeginRestore,
         FinishRestore, EditVars
    <2>2. QED
      BY <2>1 DEF EditVars, AllToolAgree, ToolAgrees, IsTool
  <1>3. QED
    BY <1>1, <1>2 DEF CharacterSide

LEMMA ToolKeepsTool ==
  ASSUME IndInv, NEW c \in Calls, Tool(c) \/ ToolFault(c) \/ Others(c)
  PROVE  AllToolAgree'
  <1> PlainTypes /\ ToolAgrees(c) /\ AllToolAgree
    BY DEF IndInv, TypeOK, CharactersTypeOK, PlainTypes, AllToolAgree
  <1> USE CheckpointCountAssumption
      DEF PlainTypes, KeepCharacters, Goto, Answer, SetTask, CreationSteps, ToolSteps, IsTool, Writable
  <1>1. CASE SendHandle(c)
    <2>1. ToolAgrees(c)'
      BY <1>1 DEF SendHandle, toolVars, ToolAgrees
    <2>2. QED
      BY <1>1, <2>1, OthersAgree DEF SendHandle, toolVars, OnlyFor
  <1>2. CASE ToolUpload(c)
    <2>1. ToolAgrees(c)'
      BY <1>2 DEF ToolUpload, toolVars, ToolAgrees
    <2>2. QED
      BY <1>2, <2>1, OthersAgree DEF ToolUpload, toolVars, OnlyFor
  <1>3. CASE EnqueueCheckpoint(c)
    <2>1. ToolAgrees(c)'
      BY <1>3 DEF EnqueueCheckpoint, ToolAgrees
    <2>2. QED
      BY <1>3, <2>1, OthersAgree DEF EnqueueCheckpoint, OnlyFor
  <1>4. CASE PollTask(c)
    <2>1. ToolAgrees(c)'
      BY <1>4 DEF PollTask, toolVars, ToolAgrees
    <2>2. QED
      BY <1>4, <2>1, OthersAgree DEF PollTask, toolVars, OnlyFor
  <1>5. CASE SelectBase(c)
    <2>1. ToolAgrees(c)'
      BY <1>5 DEF SelectBase, ToolAgrees
    <2>2. QED
      BY <1>5, <2>1, OthersAgree DEF SelectBase, OnlyFor
  <1>6. CASE ReturnDetail(c)
    <2>1. ToolAgrees(c)'
      BY <1>6 DEF ReturnDetail, toolVars, ToolAgrees
    <2>2. QED
      BY <1>6, <2>1, OthersAgree DEF ReturnDetail, toolVars, OnlyFor
  <1>7. CASE AbandonQuietly(c)
    <2>1. ToolAgrees(c)'
      BY <1>7 DEF AbandonQuietly, ToolAgrees
    <2>2. QED
      BY <1>7, <2>1, OthersAgree DEF AbandonQuietly, OnlyFor
  <1>8. CASE ToolFails(c)
    <2>1. ToolAgrees(c)'
      BY <1>8 DEF ToolFails, toolVars, ToolAgrees
    <2>2. QED
      BY <1>8, <2>1, OthersAgree DEF ToolFails, toolVars, OnlyFor
  <1>9. CASE ToolCut(c)
    <2>1. ToolAgrees(c)'
      BY <1>9 DEF ToolCut, toolVars, ToolAgrees
    <2>2. QED
      BY <1>9, <2>1, OthersAgree DEF ToolCut, toolVars, OnlyFor
  <1>10. CASE UserEndsSession(c)
    <2>1. ToolAgrees(c)'
      BY <1>10 DEF UserEndsSession, ToolAgrees
    <2>2. QED
      BY <1>10, <2>1, OthersAgree DEF UserEndsSession, OnlyFor
  <1>11. CASE TaskEnds(c) \/ UserUploads(c) \/ UploadRuns(c)
    <2>1. UNCHANGED <<kind, step, reply, session, lost, made, chooser, excused>>
      BY <1>11 DEF TaskEnds, UserUploads, UploadRuns, toolVars
    <2>2. QED
      BY <2>1 DEF AllToolAgree, ToolAgrees
  <1>12. QED
    BY <1>1, <1>2, <1>3, <1>4, <1>5, <1>6, <1>7, <1>8, <1>9, <1>10, <1>11
    DEF Tool, ToolFault, Others

-----------------------------------------------------------------------------
(* The theorems.                                                           *)

LEMMA InitEstablishes == Init => IndInv
  <1> SUFFICES ASSUME Init PROVE IndInv
    OBVIOUS
  <1>1. CreationInv
    BY CreationInit
  <1>2. TypeOK
    <2>1. ASSUME NEW c \in Calls PROVE name[c] = NoName
      BY DEF Init, CharactersInit
    <2>2. QED
      BY <2>1, CharactersAssumption, CheckpointCountAssumption
      DEF Init, CharactersInit, UploadsInit, TypeOK, CharactersTypeOK, UploadsTypeOK, Kinds, Replies,
          LifeStates, CreationSteps, UploadSteps
  <1>3. \A c \in Calls : UploadAgrees(c) /\ ToolAgrees(c)
    BY DEF Init, CharactersInit, UploadsInit, UploadAgrees, ToolAgrees, IsTool, ToolSteps
  <1>4. QED
    BY <1>1, <1>2, <1>3 DEF IndInv

LEMMA StepPreserves == IndInv /\ [Next]_vars => IndInv'
  <1> SUFFICES ASSUME IndInv, [Next]_vars PROVE IndInv'
    OBVIOUS
  <1>1. CASE Next
    <2>1. PlainTypes' /\ AllToolAgree'
      BY <1>1, CreationKeepsTypes, ToolKeepsTypes, CreationKeepsTool, ToolKeepsTool DEF Next
    <2>2. CreationInv'
      BY <1>1, NextKeepsCreation
    <2>3. UploadsAgree'
      BY <1>1, NextKeepsUploads DEF IndInv, TypeOK, UploadsAgree
    <2>4. TypeOK'
      BY <2>1, <2>2, <2>3, TypesFromParts
    <2>5. QED
      BY <2>1, <2>2, <2>3, <2>4 DEF IndInv, AllToolAgree, UploadsAgree
  <1>2. CASE UNCHANGED vars
    <2>1. TypeOK'
      BY <1>2 DEF vars, characterVars, uploadVars, toolVars, IndInv, TypeOK, CharactersTypeOK,
         UploadsTypeOK
    <2>2. CreationInv'
      BY <1>2, ToolKeepsCreation DEF vars, characterVars, IndInv, KeepCharacters
    <2>3. UploadsAgree'
      BY <1>2, UploadsKept DEF vars, IndInv, TypeOK, UploadsAgree
    <2>4. AllToolAgree'
      BY <1>2 DEF vars, characterVars, toolVars, IndInv, AllToolAgree, ToolAgrees, IsTool
    <2>5. QED
      BY <2>1, <2>2, <2>3, <2>4 DEF IndInv, AllToolAgree, UploadsAgree
  <1>3. QED
    BY <1>1, <1>2

LEMMA Inductive == Spec => []IndInv
  BY InitEstablishes, StepPreserves, PTL DEF Spec

\* Every variable keeps its type; in particular no slug is probed with a suffix beyond
\* the number of calls (generate_unique_slug).
THEOREM TypeCorrect == Spec => []TypeOK
  <1>1. IndInv => TypeOK
    BY DEF IndInv
  <1>2. QED
    BY <1>1, Inductive, PTL

\* No two live characters of an owner share a name or a slug (character_service.py).
THEOREM LiveCharactersDiffer == Spec => []ActiveUnique
  <1>1. IndInv => ActiveUnique
    BY DEF IndInv, CreationInv, KeysUnique, Held, Live, ActiveUnique
  <1>2. QED
    BY <1>1, Inductive, PTL

\* A call is refused a slug no more often than rivals became live meanwhile.
THEOREM RoundsArePaid == Spec => []RetriesPaidFor
  <1>1. IndInv => RetriesPaidFor
    BY DEF IndInv, CreationInv, CreationAgrees, RetriesPaidFor
  <1>2. QED
    BY <1>1, Inductive, PTL

\* Uploaded files and their rows agree, but for named causes, and a fork that is
\* visible has its image.
THEOREM UploadsMatchRows == Spec => []FilesMatchRows
  <1>1. IndInv => FilesMatchRows
    BY DEF IndInv, TypeOK, UploadsTypeOK, CreationInv, CreationAgrees, UploadAgrees, Visible, FilesMatchRows
  <1>2. QED
    BY <1>1, Inductive, PTL

\* character.create tells its client the truth about the Base and the session.
THEOREM ToolTellsTheTruth == Spec => []ToolAnswerTrue
  <1>1. IndInv => ToolAnswerTrue
    BY DEF IndInv, ToolAgrees, ToolAnswerTrue
  <1>2. QED
    BY <1>1, Inductive, PTL

\* A Base is selected exactly when its session is completed.
THEOREM BasesEndSessions == Spec => []BaseEndsSession
  <1>1. IndInv => BaseEndsSession
    BY DEF IndInv, ToolAgrees, BaseEndsSession
  <1>2. QED
    BY <1>1, Inductive, PTL
===============================================================================
