-------------------------- MODULE GpuEncoderProofs --------------------------
(***************************************************************************)
(* Whatever the GPU's pace, and for any number of images in the life of    *)
(* an encoder: accesses reach the textures they mean, loads and the        *)
(* download come after the stores they need, what is saved is the download *)
(* of this image, and the teardown deletes nothing twice and nothing that  *)
(* the GPU still uses.                                                     *)
(***************************************************************************)
EXTENDS GpuEncoder, SequenceTheorems, TLAPS

\* The commands of one image, in the order in which the CPU issues them.
Order == <<"findBest", "compress", "th", "p", "stitch", "download">>

\* Calls of the CPU between two images, and how many commands are issued at
\* the others.
Between == {"compile", "idle", "gone"}
Working == {"execute00", "execute01", "execute01TH", "execute01P", "execute02",
            "download", "finish"}
Issued(p) ==
    CASE p = "execute00" -> 0 [] p = "execute01" -> 1 [] p = "execute01TH" -> 2
      [] p = "execute01P" -> 3 [] p = "execute02" -> 4 [] p = "download" -> 5
      [] OTHER -> 6

Runs == {"findBest", "compress", "th", "p", "stitch", "download"}
TexSet == [for : MemberSet, image : Nat, stored : SUBSET (Runs \union {"upload"})]
Binding == [tex : Nat, access : {"none", "read", "write", "readwrite"}]
Kinds == {"fetch", "image", "update"}
CmdSet == [ run : Runs, units : [0..4 -> Nat], uavs : [0..2 -> Binding],
            after : [Kinds -> SUBSET Nat], state : {"issued", "sampled", "done"} ]

Ranges ==
    /\ pc \in Between \union Working
    /\ image \in Nat
    /\ tex \in Seq(TexSet) /\ Len(tex) = 9 * image
    /\ member \in [MemberSet -> Nat]
    /\ live \subseteq 1..Len(tex)
    /\ unit \in [0..4 -> Nat] /\ uav \in [0..2 -> Binding]
    /\ cmds \in Seq(CmdSet)
    /\ barrier \in [Kinds -> SUBSET Nat]
    /\ pc = "compile" => image = 0
    /\ image = 0 => pc \in Between /\ \A m \in MemberSet : member[m] = 0

\* The members name the live textures of this image, and all other live
\* textures are older.
MembersInv ==
    /\ pc # "gone" /\ image > 0 =>
          \A m \in MemberSet : /\ member[m] \in live
                               /\ tex[member[m]].for = m /\ tex[member[m]].image = image
    /\ pc # "gone" => \A n \in live : tex[n].image < image \/ n = member[tex[n].for]
    /\ pc = "gone" => /\ \A m \in Released : member[m] = 0
                      /\ member["thC0C1"] = 0 \/ member["thC0C1"] \in live
                      /\ \A n \in live : tex[n].image < image \/ n = member["thC0C1"]
                      /\ progs = {"stitch"} /\ buffers = {}

\* The bindings that a command was issued with are the ones it means.
Served(r) ==
    IF r.run = "download" THEN r.units[0] = member["pTarget"]
    ELSE /\ \A f \in Shaders[r.run].fetch : r.units[f[1]] = member[f[2]]
         /\ \A l \in Shaders[r.run].load :
               /\ r.uavs[l[1]].tex = member[l[2]]
               /\ r.uavs[l[1]].access = "readwrite" \/ l[2] = "thC0C1"
         /\ \A l \in Shaders[r.run].store : /\ r.uavs[l[1]].tex = member[l[2]]
                                            /\ r.uavs[l[1]].access # "read"

\* The barriers before a command that loads what another one stores.
Ordered(k, r) ==
    /\ k = 3 => 1 \in r.after["image"]
    /\ k = 5 => 4 \in r.after["image"]
    /\ k = 6 => 5 \in r.after["update"]

CmdOK(k) ==
    /\ cmds[k].run = Order[k]
    /\ Ordered(k, cmds[k])
    /\ cmds[k].state # "done" => Served(cmds[k])
    /\ cmds[k].state = "sampled" => k # 6
    /\ cmds[k].state = "done" /\ k # 6 /\ pc # "gone" =>
          \A l \in Shaders[Order[k]].store : Order[k] \in tex[member[l[2]]].stored

CmdsInv ==
    /\ pc \in Between => /\ Len(cmds) = IF image = 0 THEN 0 ELSE 6
                         /\ \A k \in 1..Len(cmds) : cmds[k].state = "done"
    /\ pc \in Working => Len(cmds) = Issued(pc)
    /\ \A k \in 1..Len(cmds) : CmdOK(k)

\* What a later call relies on: the barrier that Execute00 ended with, and the
\* binding of unit 0 that Execute01TH left.
LeftInv ==
    /\ pc \in {"execute01", "execute01TH"} => 1 \in barrier["image"]
    /\ pc = "execute01P" => unit[0] = member["src"]

StagingInv ==
    /\ buffers \subseteq {staging.name} /\ DOMAIN staging = {"name", "from"}
    /\ pc = "finish" =>
          /\ staging.name = image /\ staging.name \in buffers
          /\ cmds[6].state = "done" => staging.from.for = "pTarget" /\ staging.from.image = image
    /\ SavedIsDownload

GpuInv == Ranges /\ MembersInv /\ CmdsInv /\ LeftInv /\ StagingInv /\ RightTexture /\ LoadsAreWritten
-----------------------------------------------------------------------------
(* The tables                                                              *)

LEMMA NineMembers ==
    /\ Count = 9
    /\ MemberSet = {"src", "compressTarget", "etc1Error", "dst", "thTarget", "thError",
                    "thC0C1", "pTarget", "pError"}
  <1>1. Count = 9
    BY DEF Count, Members
  <1>2. MemberSet = {Members[i] : i \in 1..9}
    BY <1>1 DEF MemberSet, Count
  <1>3. 1..9 = {1, 2, 3, 4, 5, 6, 7, 8, 9}
    OBVIOUS
  <1>4. QED
    BY <1>1, <1>2, <1>3 DEF Members

\* The place of a member in the sequence of createTexture calls.
PlaceOf(m) == CHOOSE i \in 1..Count : Members[i] = m

LEMMA Places ==
    /\ \A m \in MemberSet : PlaceOf(m) \in 1..9 /\ Members[PlaceOf(m)] = m
    /\ \A i \in 1..9 : Members[i] \in MemberSet /\ PlaceOf(Members[i]) = i
  <1>1. \A i \in 1..9 : Members[i] \in MemberSet
    BY NineMembers DEF MemberSet, Count
  <1>2. \A m \in MemberSet : \E i \in 1..9 : Members[i] = m
    BY NineMembers DEF MemberSet, Count
  <1>3. \A m \in MemberSet : PlaceOf(m) \in 1..9 /\ Members[PlaceOf(m)] = m
    BY <1>2, NineMembers DEF PlaceOf
  <1>4. \A i, k \in 1..9 : Members[i] = Members[k] => i = k
    BY DEF Members
  <1>5. QED
    BY <1>1, <1>3, <1>4

LEMMA ShadersMeanMembers ==
    ASSUME NEW s \in {"findBest", "compress", "th", "p", "stitch"}
    PROVE  /\ \A f \in Shaders[s].fetch : f[1] \in 0..4 /\ f[2] \in MemberSet
           /\ \A l \in Shaders[s].load : l[1] \in 0..2 /\ l[2] \in MemberSet
           /\ \A l \in Shaders[s].store : l[1] \in 0..2 /\ l[2] \in MemberSet
  <1>1. CASE s = "findBest"
    BY <1>1, NineMembers DEF Shaders
  <1>2. CASE s = "compress"
    BY <1>2, NineMembers DEF Shaders
  <1>3. CASE s = "th"
    BY <1>3, NineMembers DEF Shaders
  <1>4. CASE s = "p"
    BY <1>4, NineMembers DEF Shaders
  <1>5. CASE s = "stitch"
    BY <1>5, NineMembers DEF Shaders
  <1>6. QED
    BY <1>1, <1>2, <1>3, <1>4, <1>5

LEMMA OrderIs ==
    /\ \A k \in 1..5 : Order[k] \in {"findBest", "compress", "th", "p", "stitch"}
    /\ \A k \in 1..6 : Order[k] = "download" <=> k = 6
  BY DEF Order

\* The two shaders that load an image, and who has to have stored it.
LEMMA LoadersAre ==
    ASSUME NEW k \in 1..5, NEW l \in Shaders[Order[k]].load
    PROVE  \/ k = 3 /\ l[2] = "thC0C1" /\ Writer(l[2]) = "findBest"
                    /\ \E w \in Shaders[Order[1]].store : w[2] = l[2]
           \/ k = 5 /\ l[2] = "pTarget" /\ Writer(l[2]) = "p"
                    /\ \E w \in Shaders[Order[4]].store : w[2] = l[2]
  <1>1. CASE k \in {1, 2, 4}
    BY <1>1 DEF Shaders, Order
  <1>2. CASE k = 3
    <2>1. l[2] = "thC0C1"
      BY <1>2 DEF Shaders, Order
    <2>2. \E w \in Shaders[Order[1]].store : w[2] = "thC0C1"
      BY DEF Shaders, Order
    <2>3. Writer("thC0C1") = "findBest"
      BY DEF Writer
    <2>4. QED
      BY <1>2, <2>1, <2>2, <2>3
  <1>3. CASE k = 5
    BY <1>3 DEF Shaders, Order, Writer
  <1>4. QED
    BY <1>1, <1>2, <1>3

LEMMA SelectorStores == \E w \in Shaders[Order[5]].store : w[2] = "pTarget"
  BY DEF Shaders, Order

LEMMA BytesKeepTheirOrder ==
    FixByteOrder(PackedWord(<<0, 1, 2, 3, 4, 5, 6, 7>>)) = <<0, 1, 2, 3, 4, 5, 6, 7>>
  <1>1. PICK d : d = <<0, 1, 2, 3, 7, 6, 5, 4>>
    OBVIOUS
  <1>2. PackedWord(<<0, 1, 2, 3, 4, 5, 6, 7>>) = d
    BY <1>1 DEF PackedWord
  <1>3. SubSeq(d, 1, 4) = <<0, 1, 2, 3>>
    <2>1. d \in Seq(Nat) /\ Len(d) = 8
      BY <1>1
    <2>2. PICK a : a = SubSeq(d, 1, 4)
      OBVIOUS
    <2>3. a \in Seq(Nat) /\ Len(a) = 4 /\ \A i \in 1..4 : a[i] = d[i]
      <3>1. \A i \in 1..4 : d[i] \in Nat
        <4>1. d \in [1..8 -> Nat]
          BY <2>1, LenProperties
        <4>2. QED
          BY <4>1
      <3>2. /\ SubSeq(d, 1, 4) \in Seq(Nat)
            /\ Len(SubSeq(d, 1, 4)) = IF 1 <= 4 THEN 4 - 1 + 1 ELSE 0
            /\ \A i \in 1..(4 - 1 + 1) : SubSeq(d, 1, 4)[i] = d[1 + i - 1]
        BY <3>1, SubSeqProperties
      <3>3. QED
        BY <2>2, <3>2
    <2>4. a[1] = 0 /\ a[2] = 1 /\ a[3] = 2 /\ a[4] = 3
      BY <1>1, <2>3
    <2>5. a = <<0, 1, 2, 3>>
      BY <2>3, <2>4
    <2>6. QED
      BY <2>2, <2>5
  <1>4. <<d[8], d[7], d[6], d[5]>> = <<4, 5, 6, 7>>
    BY <1>1
  <1>5. <<0, 1, 2, 3>> \o <<4, 5, 6, 7>> = <<0, 1, 2, 3, 4, 5, 6, 7>>
    <2>1. PICK a, b, c : a = <<0, 1, 2, 3>> /\ b = <<4, 5, 6, 7>> /\ c = a \o b
      OBVIOUS
    <2>2. a \in Seq(Nat) /\ b \in Seq(Nat) /\ Len(a) = 4 /\ Len(b) = 4
      BY <2>1
    <2>3. c \in Seq(Nat) /\ Len(c) = 8
      BY <2>1, <2>2
    <2>4. c[1] = a[1] /\ c[2] = a[2] /\ c[3] = a[3] /\ c[4] = a[4]
      BY <2>1, <2>2
    <2>5. c[5] = b[1] /\ c[6] = b[2] /\ c[7] = b[3] /\ c[8] = b[4]
      BY <2>1, <2>2
    <2>6. /\ c[1] = 0 /\ c[2] = 1 /\ c[3] = 2 /\ c[4] = 3
          /\ c[5] = 4 /\ c[6] = 5 /\ c[7] = 6 /\ c[8] = 7
      BY <2>1, <2>4, <2>5
    <2>7. c = <<0, 1, 2, 3, 4, 5, 6, 7>>
      BY <2>3, <2>6
    <2>8. QED
      BY <2>1, <2>7
  <1>6. QED
    BY <1>2, <1>3, <1>4, <1>5 DEF FixByteOrder
-----------------------------------------------------------------------------
(* The invariant at the start, and under the steps of the CPU that issue    *)
(* nothing                                                                 *)

LEMMA FunctionIsSequence ==
    ASSUME NEW S, NEW n \in Nat, NEW f \in [1..n -> S]
    PROVE  f \in Seq(S) /\ Len(f) = n
  <1>1. f \in Seq(S)
    BY SeqDef
  <1>2. Len(f) \in Nat /\ 1..Len(f) = 1..n
    BY <1>1, LenProperties
  <1>3. QED
    BY <1>1, <1>2

LEMMA TexturesAre ==
    ASSUME Ranges
    PROVE  \A n \in 1..Len(tex) : /\ tex[n] \in TexSet
                                  /\ tex[n].for \in MemberSet /\ tex[n].image \in Nat
                                  /\ tex[n].stored \subseteq Runs \union {"upload"}
  <1>1. tex \in [1..Len(tex) -> TexSet]
    BY LenProperties DEF Ranges
  <1>2. \A n \in 1..Len(tex) : tex[n] \in TexSet
    BY <1>1
  <1>3. QED
    BY <1>2 DEF TexSet

LEMMA EncoderInit == Init => GpuInv
  <1> SUFFICES ASSUME Init PROVE GpuInv
    OBVIOUS
  <1>1. Len(tex) = 0 /\ Len(cmds) = 0 /\ tex \in Seq(TexSet) /\ cmds \in Seq(CmdSet)
    BY DEF Init
  <1>2. Ranges
    <2>1. member \in [MemberSet -> Nat]
      BY DEF Init
    <2>2. unit \in [0..4 -> Nat] /\ barrier \in [Kinds -> SUBSET Nat]
      BY DEF Init, Kinds
    <2>3. uav \in [0..2 -> Binding]
      BY DEF Init, Binding
    <2>4. QED
      BY <1>1, <2>1, <2>2, <2>3 DEF Ranges, Init, Between
  <1>3. MembersInv
    BY DEF Init, MembersInv
  <1>4. CmdsInv
    BY <1>1 DEF Init, CmdsInv, Between, Working
  <1>5. LeftInv /\ StagingInv
    <2>1. DOMAIN staging = {"name", "from"}
      BY DEF Init, NoStaging
    <2>2. QED
      BY <2>1 DEF Init, LeftInv, StagingInv, SavedIsDownload
  <1>6. RightTexture /\ LoadsAreWritten
    BY DEF Init, RightTexture, LoadsAreWritten
  <1>7. QED
    BY <1>2, <1>3, <1>4, <1>5, <1>6 DEF GpuInv

LEMMA CompileKeeps ==
    ASSUME GpuInv, EncoderShaderCompile
    PROVE  GpuInv'
  <1>1. pc = "compile" /\ pc' = "idle" /\ image = 0
    BY DEF EncoderShaderCompile, GpuInv, Ranges
  <1>2. UNCHANGED <<image, member, tex, live, unit, uav, cmds, seen, barrier, buffers, staging, saved>>
    BY DEF EncoderShaderCompile
  <1>3. Ranges'
    BY <1>1, <1>2 DEF GpuInv, Ranges, Between
  <1>4. MembersInv'
    BY <1>1, <1>2 DEF GpuInv, MembersInv
  <1>5. CmdsInv'
    <2>1. Len(cmds') = 0
      BY <1>1, <1>2 DEF GpuInv, CmdsInv, Between
    <2>2. QED
      BY <1>1, <1>2, <2>1 DEF CmdsInv, Between, Working
  <1>6. LeftInv' /\ StagingInv'
    BY <1>1, <1>2 DEF GpuInv, LeftInv, StagingInv, SavedIsDownload
  <1>7. RightTexture' /\ LoadsAreWritten'
    BY <1>2 DEF GpuInv, RightTexture, LoadsAreWritten
  <1>8. QED
    BY <1>3, <1>4, <1>5, <1>6, <1>7 DEF GpuInv

LEMMA FinishKeeps ==
    ASSUME GpuInv, FinishAndSave
    PROVE  GpuInv'
  <1>1. /\ pc = "finish" /\ pc' = "idle"
        /\ saved'.bytes = <<0, 1, 2, 3, 4, 5, 6, 7>> /\ saved'.from = staging.from
    BY BytesKeepTheirOrder DEF FinishAndSave
  <1>2. UNCHANGED <<image, member, tex, live, unit, uav, progs, cmds, seen, barrier, buffers, staging>>
    BY DEF FinishAndSave
  <1>3. Ranges' /\ image # 0
    BY <1>1, <1>2 DEF GpuInv, Ranges, Between, Working
  <1>4. MembersInv'
    BY <1>1, <1>2 DEF GpuInv, MembersInv
  <1>5. Len(cmds) = 6 /\ \A k \in 1..Len(cmds) : cmds[k].state = "done" /\ CmdOK(k)
    BY <1>1 DEF FinishAndSave, Finished, GpuInv, CmdsInv, Working, Issued
  <1>6. CmdsInv'
    <2>1. ASSUME NEW k \in 1..Len(cmds) PROVE CmdOK(k)'
      BY <1>1, <1>2, <1>5 DEF CmdOK, Ordered
    <2>2. QED
      BY <1>1, <1>2, <1>3, <1>5, <2>1 DEF CmdsInv, Between, Working
  <1>7. LeftInv' /\ StagingInv'
    BY <1>1, <1>2, <1>5 DEF GpuInv, LeftInv, StagingInv, SavedIsDownload
  <1>8. RightTexture' /\ LoadsAreWritten'
    BY <1>2 DEF GpuInv, RightTexture, LoadsAreWritten
  <1>9. QED
    BY <1>3, <1>4, <1>6, <1>7, <1>8 DEF GpuInv

LEMMA DeinitKeeps ==
    ASSUME GpuInv, DeinitResources
    PROVE  GpuInv'
  <1>1. pc = "idle" /\ pc' = "gone"
    BY DEF DeinitResources
  <1>2. UNCHANGED <<image, tex, unit, uav, cmds, seen, barrier, staging, saved>>
    BY DEF DeinitResources
  <1>3. /\ live' = live \ {member[m] : m \in Released}
        /\ member' = [m \in MemberSet |-> IF m \in Released THEN 0 ELSE member[m]]
        /\ progs' = {"stitch"} /\ buffers' = buffers \ {staging.name}
    BY DEF DeinitResources, Reset
  <1>4. Ranges'
    <2>1. member' \in [MemberSet -> Nat]
      BY <1>3 DEF GpuInv, Ranges
    <2>2. \A m \in MemberSet : member[m] = 0 => member'[m] = 0
      BY <1>3
    <2>3. QED
      BY <1>1, <1>2, <1>3, <2>1, <2>2 DEF GpuInv, Ranges, Between
  <1>5. MembersInv'
    <2>1. \A m \in Released : member'[m] = 0
      BY <1>3 DEF Released
    <2>2. "thC0C1" \in MemberSet /\ "thC0C1" \notin Released /\ member'["thC0C1"] = member["thC0C1"]
      BY <1>3, NineMembers DEF Released
    <2>3. member["thC0C1"] = 0 \/ member["thC0C1"] \in live'
      <3>1. CASE image = 0
        BY <2>2, <3>1 DEF GpuInv, Ranges
      <3>2. CASE image > 0
        <4>1. \A m \in MemberSet : member[m] \in live /\ tex[member[m]].for = m
          BY <1>1, <3>2 DEF GpuInv, MembersInv
        <4>2. \A m \in Released : member[m] # member["thC0C1"]
          BY <2>2, <4>1 DEF Released
        <4>3. QED
          BY <1>3, <2>2, <4>1, <4>2
      <3>3. QED
        BY <3>1, <3>2 DEF GpuInv, Ranges
    <2>4. \A n \in live' : tex[n].image < image \/ n = member'["thC0C1"]
      <3> SUFFICES ASSUME NEW n \in live', ~(tex[n].image < image)
                   PROVE  n = member["thC0C1"]
        BY <2>2
      <3>1. n \in live /\ n \in 1..Len(tex) /\ n = member[tex[n].for]
        BY <1>1, <1>3 DEF GpuInv, Ranges, MembersInv
      <3>2. tex[n].for \in MemberSet
        BY <3>1, TexturesAre DEF GpuInv
      <3>3. QED
        BY <1>3, <2>2, <3>1, <3>2 DEF Released
    <2>5. buffers' = {}
      BY <1>3 DEF GpuInv, StagingInv
    <2>6. QED
      BY <1>1, <1>2, <1>3, <2>1, <2>2, <2>3, <2>4, <2>5 DEF MembersInv
  <1>6. CmdsInv'
    <2>1. \A k \in 1..Len(cmds) : cmds[k].state = "done" /\ CmdOK(k)
      BY <1>1 DEF GpuInv, CmdsInv, Between
    <2>2. \A k \in 1..Len(cmds) : CmdOK(k)'
      BY <1>1, <1>2, <2>1 DEF CmdOK, Ordered
    <2>3. QED
      BY <1>1, <1>2, <2>1, <2>2 DEF GpuInv, CmdsInv, Between, Working
  <1>7. LeftInv' /\ StagingInv'
    BY <1>1, <1>2, <1>3 DEF GpuInv, LeftInv, StagingInv, SavedIsDownload
  <1>8. RightTexture' /\ LoadsAreWritten'
    BY <1>2 DEF GpuInv, RightTexture, LoadsAreWritten
  <1>9. QED
    BY <1>4, <1>5, <1>6, <1>7, <1>8 DEF GpuInv

LEMMA InitResourcesKeeps ==
    ASSUME GpuInv, InitResources
    PROVE  GpuInv'
  <1>1. pc = "idle" /\ pc' = "execute00" /\ image' = image + 1 /\ image \in Nat
    BY DEF InitResources, GpuInv, Ranges
  <1>2. cmds' = <<>> /\ seen' = {} /\ UNCHANGED <<uav, progs, buffers, staging, saved>>
    BY DEF InitResources
  <1>3. PICK base : base = Len(tex)
    OBVIOUS
  <1>4. PICK new : new = [i \in 1..9 |-> [for |-> Members[i], image |-> image',
                                         stored |-> IF Members[i] = "src" THEN {"upload"} ELSE {}]]
    OBVIOUS
  <1>5. tex' = tex \o new
    BY <1>4, NineMembers DEF InitResources
  <1>6. member' = [m \in MemberSet |-> base + PlaceOf(m)]
    BY <1>3, NineMembers DEF InitResources, PlaceOf
  <1>7. live' = live \union (base + 1)..(base + 9)
    BY <1>3, NineMembers DEF InitResources
  <1>8. base \in Nat /\ base = 9 * image /\ tex \in Seq(TexSet)
    BY <1>1, <1>3 DEF GpuInv, Ranges
  <1>9. new \in Seq(TexSet) /\ Len(new) = 9
    <2>1. ASSUME NEW i \in 1..9 PROVE new[i] \in TexSet
      <3>1. Members[i] \in MemberSet
        BY Places
      <3>2. PICK st : st = IF Members[i] = "src" THEN {"upload"} ELSE {}
        OBVIOUS
      <3>3. st \in SUBSET (Runs \union {"upload"})
        BY <3>2
      <3>4. new[i] = [for |-> Members[i], image |-> image', stored |-> st]
        BY <1>4, <3>2
      <3>5. QED
        BY <1>1, <3>1, <3>3, <3>4 DEF TexSet
    <2>2. new \in [1..9 -> TexSet]
      BY <1>4, <2>1
    <2>3. QED
      BY <2>2, FunctionIsSequence
  <1>10. \A i \in 1..9 : new[i].for = Members[i] /\ new[i].image = image'
    BY <1>4
  <1>11. /\ tex' \in Seq(TexSet) /\ Len(tex') = base + 9
         /\ \A n \in 1..base : tex'[n] = tex[n]
         /\ \A i \in 1..9 : tex'[base + i] = new[i]
    <2>1. /\ tex \o new \in Seq(TexSet) /\ Len(tex \o new) = Len(tex) + Len(new)
          /\ \A i \in 1..(Len(tex) + Len(new)) :
                (tex \o new)[i] = IF i <= Len(tex) THEN tex[i] ELSE new[i - Len(tex)]
      BY <1>8, <1>9, ConcatProperties
    <2>2. \A i \in 1..(base + 9) : tex'[i] = IF i <= base THEN tex[i] ELSE new[i - base]
      BY <1>3, <1>5, <1>9, <2>1
    <2>3. \A n \in 1..base : n \in 1..(base + 9) /\ n <= base
      BY <1>8
    <2>4. \A i \in 1..9 : base + i \in 1..(base + 9) /\ ~(base + i <= base) /\ base + i - base = i
      BY <1>8
    <2>5. QED
      BY <1>3, <1>5, <1>9, <2>1, <2>2, <2>3, <2>4
  <1>12. \A m \in MemberSet : /\ member'[m] \in live' /\ member'[m] \in Nat
                              /\ tex'[member'[m]].for = m /\ tex'[member'[m]].image = image'
    <2> SUFFICES ASSUME NEW m \in MemberSet
                 PROVE  /\ member'[m] \in live' /\ member'[m] \in Nat
                        /\ tex'[member'[m]].for = m /\ tex'[member'[m]].image = image'
      OBVIOUS
    <2>1. PlaceOf(m) \in 1..9 /\ Members[PlaceOf(m)] = m /\ member'[m] = base + PlaceOf(m)
      BY <1>6, Places
    <2>2. QED
      <3>1. PICK i \in 1..9 : i = PlaceOf(m)
        BY <2>1
      <3>2. base + i \in (base + 1)..(base + 9) /\ base + i \in Nat
        BY <1>8
      <3>3. tex'[base + i].for = Members[i] /\ tex'[base + i].image = image'
        BY <1>10, <1>11
      <3>4. QED
        BY <1>7, <2>1, <3>1, <3>2, <3>3
  <1>13. \A n \in live' : tex'[n].image < image' \/ n = member'[tex'[n].for]
    <2> SUFFICES ASSUME NEW n \in live'
                 PROVE  tex'[n].image < image' \/ n = member'[tex'[n].for]
      OBVIOUS
    <2>1. CASE n \in live
      <3>1. n \in 1..base /\ tex'[n] = tex[n] /\ tex[n].image \in Nat /\ tex[n].for \in MemberSet
        BY <1>3, <1>11, <2>1, TexturesAre DEF GpuInv, Ranges
      <3>2. tex[n].image <= image
        <4>1. tex[n].image < image \/ n = member[tex[n].for]
          BY <1>1, <2>1 DEF GpuInv, MembersInv
        <4>2. image > 0
          BY <1>1, <1>8, <3>1
        <4>3. n = member[tex[n].for] => tex[n].image = image
          BY <1>1, <3>1, <4>2 DEF GpuInv, MembersInv
        <4>4. QED
          BY <1>1, <3>1, <4>1, <4>3
      <3>3. QED
        BY <1>1, <3>1, <3>2
    <2>2. CASE n \in (base + 1)..(base + 9)
      <3>1. PICK i \in 1..9 : n = base + i
        <4>1. n - base \in 1..9 /\ n = base + (n - base)
          BY <1>8, <2>2, SMTT(30)
        <4>2. QED
          BY <4>1
      <3>2. tex'[n].for = Members[i]
        BY <1>10, <1>11, <3>1
      <3>3. Members[i] \in MemberSet /\ PlaceOf(Members[i]) = i
        BY Places
      <3>4. QED
        BY <1>6, <3>1, <3>2, <3>3
    <2>3. QED
      BY <1>7, <2>1, <2>2
  <1>14. Ranges'
    <2>1. member' \in [MemberSet -> Nat]
      BY <1>6, <1>12
    <2>2. live' \subseteq 1..Len(tex')
      <3>1. live \subseteq 1..base
        BY <1>3 DEF GpuInv, Ranges
      <3>2. 1..base \subseteq 1..(base + 9) /\ (base + 1)..(base + 9) \subseteq 1..(base + 9)
        BY <1>8
      <3>3. QED
        BY <1>7, <1>11, <3>1, <3>2
    <2>3. unit' \in [0..4 -> Nat]
      <3>1. "pError" \in MemberSet
        BY NineMembers
      <3>2. unit' = [unit EXCEPT ![0] = member'["pError"]]
        BY DEF InitResources
      <3>3. QED
        BY <1>12, <3>1, <3>2 DEF GpuInv, Ranges
    <2>4. barrier' \in [Kinds -> SUBSET Nat]
      BY DEF InitResources, GpuInv, Ranges
    <2>5. Len(tex') = 9 * image'
      BY <1>1, <1>8, <1>11
    <2>6. cmds' \in Seq(CmdSet) /\ uav' \in [0..2 -> Binding]
      BY <1>2 DEF GpuInv, Ranges
    <2>7. image' \in Nat /\ image' # 0 /\ pc' \in Between \union Working /\ pc' # "compile"
      BY <1>1 DEF Working
    <2>8. QED
      BY <1>11, <2>1, <2>2, <2>3, <2>4, <2>5, <2>6, <2>7 DEF Ranges
  <1>15. MembersInv'
    BY <1>1, <1>12, <1>13 DEF MembersInv
  <1>16. CmdsInv'
    BY <1>1, <1>2 DEF CmdsInv, Between, Working, Issued
  <1>17. LeftInv' /\ StagingInv'
    BY <1>1, <1>2 DEF GpuInv, LeftInv, StagingInv, SavedIsDownload
  <1>18. RightTexture' /\ LoadsAreWritten'
    BY <1>2 DEF RightTexture, LoadsAreWritten
  <1>19. QED
    BY <1>14, <1>15, <1>16, <1>17, <1>18 DEF GpuInv
-----------------------------------------------------------------------------
(* The steps of the CPU that issue a command                               *)

LEMMA CommandAppended ==
    ASSUME GpuInv, NEW k \in 1..6, NEW r \in CmdSet,
           r.run = Order[k], r.state = "issued", Served(r), Ordered(k, r),
           pc \in Working, Len(cmds) = k - 1, pc' \in Working, Issued(pc') = k,
           cmds' = Append(cmds, r), UNCHANGED <<image, member, tex, live>>
    PROVE  cmds' \in Seq(CmdSet) /\ Len(cmds') = k /\ CmdsInv'
  <1>1. cmds \in Seq(CmdSet)
    BY DEF GpuInv, Ranges
  <1>2. /\ cmds' \in Seq(CmdSet) /\ Len(cmds') = k
        /\ cmds'[k] = r /\ \A i \in 1..(k - 1) : cmds'[i] = cmds[i]
    BY <1>1
  <1>3. pc # "gone" /\ pc' # "gone" /\ pc' \notin Between
    BY DEF Working, Between
  <1>4. Served(r)' = Served(r) /\ Ordered(k, r)' = Ordered(k, r)
    BY DEF Served, Ordered
  <1>5. CmdOK(k)'
    BY <1>2, <1>4 DEF CmdOK, Ordered, Served
  <1>6. ASSUME NEW i \in 1..(k - 1) PROVE CmdOK(i)'
    <2>1. CmdOK(i)
      BY DEF GpuInv, CmdsInv
    <2>2. cmds'[i] = cmds[i]
      BY <1>2
    <2>3. QED
      BY <1>3, <2>1, <2>2 DEF CmdOK, Ordered, Served
  <1>7. \A i \in 1..k : i = k \/ i \in 1..(k - 1)
    OBVIOUS
  <1>8. \A i \in 1..k : CmdOK(i)'
    BY <1>5, <1>6, <1>7
  <1>9. QED
    BY <1>2, <1>3, <1>8 DEF CmdsInv

LEMMA RestWhileIssuing ==
    ASSUME GpuInv, pc \in Working \ {"finish"}, pc' \in Working \ {"finish"},
           UNCHANGED <<image, member, tex, live, progs, seen, buffers, staging, saved>>
    PROVE  MembersInv' /\ StagingInv' /\ RightTexture' /\ LoadsAreWritten'
  <1>1. pc' \notin Between /\ pc # "gone" /\ pc' # "finish"
    BY DEF Working, Between
  <1>2. MembersInv'
    BY <1>1 DEF GpuInv, MembersInv, Between
  <1>3. StagingInv'
    BY <1>1 DEF GpuInv, StagingInv, SavedIsDownload, Between
  <1>4. RightTexture' /\ LoadsAreWritten'
    BY DEF GpuInv, RightTexture, LoadsAreWritten
  <1>5. QED
    BY <1>2, <1>3, <1>4

LEMMA BindingsAre ==
    ASSUME Ranges
    PROVE  /\ \A m \in MemberSet : member[m] \in Nat
           /\ \A f : (\A u \in DOMAIN f : f[u] \in MemberSet) => BindUnits(f) \in [0..4 -> Nat]
           /\ \A f, a : (\A u \in DOMAIN f : f[u] \in MemberSet) /\ a \in {"write", "readwrite"}
                        => BindUavs(f, a) \in [0..2 -> Binding]
  <1>1. \A m \in MemberSet : member[m] \in Nat
    BY DEF Ranges
  <1>2. ASSUME NEW f, \A u \in DOMAIN f : f[u] \in MemberSet
        PROVE  BindUnits(f) \in [0..4 -> Nat]
    BY <1>1, <1>2 DEF BindUnits, Ranges
  <1>3. ASSUME NEW f, NEW a \in {"write", "readwrite"}, \A u \in DOMAIN f : f[u] \in MemberSet
        PROVE  BindUavs(f, a) \in [0..2 -> Binding]
    <2>1. ASSUME NEW u \in 0..2, u \in DOMAIN f
          PROVE  [tex |-> member[f[u]], access |-> a] \in Binding
      BY <1>1, <1>3, <2>1 DEF Binding
    <2>2. ASSUME NEW u \in 0..2
          PROVE  (IF u \in DOMAIN f THEN [tex |-> member[f[u]], access |-> a] ELSE uav[u]) \in Binding
      BY <2>1 DEF Ranges
    <2>3. QED
      BY <2>2 DEF BindUavs
  <1>4. QED
    BY <1>1, <1>2, <1>3

\* The bindings and the barriers that the k-th command needs.
Suits(k, units, uavs, before) ==
    \A r \in CmdSet : r.run = Order[k] /\ r.units = units /\ r.uavs = uavs /\ r.after = before
        => Served(r) /\ Ordered(k, r)

\* What Issue does, with the record that it appends named.
LEMMA IssueKeeps ==
    ASSUME GpuInv, NEW k \in 1..5, NEW units \in [0..4 -> Nat], NEW uavs \in [0..2 -> Binding],
           NEW before \in [Kinds -> SUBSET Nat], NEW next,
           Issue(Order[k], units, uavs, before, next),
           pc \in Working, Issued(pc) = k - 1, next \in Working, Issued(next) = k,
           barrier' \in [Kinds -> SUBSET Nat],
           Suits(k, units, uavs, before)
    PROVE  /\ Ranges' /\ MembersInv' /\ CmdsInv' /\ StagingInv' /\ RightTexture' /\ LoadsAreWritten'
           /\ pc' = next /\ unit' = units /\ Len(cmds') = k /\ UNCHANGED member
  <1>1. PICK r : r = [run |-> Order[k], units |-> units, uavs |-> uavs, after |-> before, state |-> "issued"]
    OBVIOUS
  <1>2. Order[k] \in Runs
    BY OrderIs DEF Runs
  <1>3. r \in CmdSet
    BY <1>1, <1>2 DEF CmdSet
  <1>4. /\ r.run = Order[k] /\ r.units = units /\ r.uavs = uavs /\ r.after = before
        /\ r.state = "issued"
    BY <1>1
  <1>5. Served(r) /\ Ordered(k, r)
    BY <1>3, <1>4 DEF Suits
  <1>6. cmds' = Append(cmds, r)
    BY <1>1 DEF Issue, Dispatch
  <1>7. pc' = next /\ unit' = units /\ uav' = uavs
        /\ UNCHANGED <<image, member, tex, live, progs, seen, buffers, staging, saved>>
    BY DEF Issue
  <1>8. Len(cmds) = k - 1
    BY DEF GpuInv, CmdsInv
  <1>9. cmds' \in Seq(CmdSet) /\ Len(cmds') = k /\ CmdsInv'
    BY <1>3, <1>4, <1>5, <1>6, <1>7, <1>8, CommandAppended, SMTT(30)
  <1>10. pc \in Working \ {"finish"} /\ pc' \in Working \ {"finish"}
    <2>1. Issued("finish") = 6
      BY DEF Issued
    <2>2. pc # "finish" /\ next # "finish"
      BY <2>1
    <2>3. QED
      BY <1>7, <2>2
  <1>11. MembersInv' /\ StagingInv' /\ RightTexture' /\ LoadsAreWritten'
    BY <1>7, <1>10, RestWhileIssuing
  <1>12. Ranges'
    BY <1>7, <1>9, <1>10 DEF GpuInv, Ranges, Between, Working
  <1>13. QED
    BY <1>7, <1>9, <1>11, <1>12

LEMMA IssuedIs ==
    /\ Issued("execute00") = 0 /\ Issued("execute01") = 1 /\ Issued("execute01TH") = 2
    /\ Issued("execute01P") = 3 /\ Issued("execute02") = 4 /\ Issued("download") = 5
    /\ Issued("finish") = 6
  BY DEF Issued

LEMMA BarrierSet ==
    ASSUME Ranges, NEW K, NEW s \in Seq(CmdSet)
    PROVE  /\ MemoryBarrier(K, s) \in [Kinds -> SUBSET Nat]
           /\ \A k \in K \cap Kinds : MemoryBarrier(K, s)[k] = 1..Len(s)
  <1>1. DOMAIN barrier = Kinds /\ \A k \in Kinds : barrier[k] \in SUBSET Nat
    BY DEF Ranges
  <1>2. 1..Len(s) \in SUBSET Nat
    OBVIOUS
  <1>3. QED
    BY <1>1, <1>2 DEF MemoryBarrier

LEMMA SourceBound ==
    ASSUME Ranges
    PROVE  BindUnits(At(0, "src")) \in [0..4 -> Nat] /\ BindUnits(At(0, "src"))[0] = member["src"]
  <1>1. "src" \in MemberSet /\ \A u \in DOMAIN At(0, "src") : At(0, "src")[u] \in MemberSet
    BY NineMembers DEF At
  <1>2. BindUnits(At(0, "src")) \in [0..4 -> Nat]
    BY <1>1, BindingsAre
  <1>3. QED
    BY <1>2 DEF BindUnits, At

LEMMA Execute00Keeps ==
    ASSUME GpuInv, Execute00
    PROVE  GpuInv'
  <1>1. Ranges /\ pc = "execute00" /\ pc \in Working
    BY DEF Execute00, GpuInv, Working
  <1>2. PICK us : us = BindUnits(At(0, "src"))
    OBVIOUS
  <1>3. PICK vs : vs = BindUavs(At(0, "thC0C1"), "write")
    OBVIOUS
  <1>4. us \in [0..4 -> Nat] /\ us[0] = member["src"]
    BY <1>1, <1>2, SourceBound
  <1>5. vs \in [0..2 -> Binding] /\ vs[0] = [tex |-> member["thC0C1"], access |-> "write"]
    <2>1. \A u \in DOMAIN At(0, "thC0C1") : At(0, "thC0C1")[u] \in MemberSet
      BY NineMembers DEF At
    <2>2. vs \in [0..2 -> Binding]
      BY <1>1, <1>3, <2>1, BindingsAre
    <2>3. QED
      BY <1>3, <2>2 DEF BindUavs, At
  <1>6. Issue(Order[1], us, vs, barrier, "execute01")
    BY <1>2, <1>3 DEF Execute00, Execute00Units, Order
  <1>7. Suits(1, us, vs, barrier)
    BY <1>4, <1>5 DEF Suits, Served, Ordered, Shaders, Order
  <1>8. barrier' = MemoryBarrier({"image"}, cmds')
    BY DEF Execute00, Execute00Barrier
  <1>9. cmds' \in Seq(CmdSet) /\ Len(cmds') = 1
    <2>1. Len(cmds) = 0 /\ cmds \in Seq(CmdSet)
      BY <1>1, IssuedIs DEF GpuInv, CmdsInv, Ranges
    <2>2. PICK r : r = [run |-> "findBest", units |-> us, uavs |-> vs, after |-> barrier, state |-> "issued"]
      OBVIOUS
    <2>3. r \in CmdSet /\ cmds' = Append(cmds, r)
      BY <1>1, <1>4, <1>5, <1>6, <2>2 DEF Issue, Dispatch, CmdSet, Runs, Ranges, Order
    <2>4. QED
      BY <2>1, <2>3
  <1>10. barrier' \in [Kinds -> SUBSET Nat] /\ 1 \in barrier'["image"]
    <2>1. "image" \in {"image"} \cap Kinds
      BY DEF Kinds
    <2>2. QED
      BY <1>1, <1>8, <1>9, <2>1, BarrierSet
  <1>11. /\ barrier \in [Kinds -> SUBSET Nat] /\ "execute01" \in Working
         /\ Issued(pc) = 1 - 1 /\ Issued("execute01") = 1
    <2>1. Issued(pc) = 0 /\ Issued("execute01") = 1
      BY <1>1, IssuedIs, Zenon
    <2>2. QED
      BY <1>1, <2>1 DEF Ranges, Working
  <1>12. /\ Ranges' /\ MembersInv' /\ CmdsInv' /\ StagingInv' /\ RightTexture' /\ LoadsAreWritten'
         /\ pc' = "execute01"
    BY <1>1, <1>4, <1>5, <1>6, <1>7, <1>10, <1>11, IssueKeeps
  <1>13. LeftInv'
    BY <1>10, <1>12 DEF LeftInv
  <1>14. QED
    BY <1>12, <1>13 DEF GpuInv

LEMMA Execute01Etc1Keeps ==
    ASSUME GpuInv, Execute01Etc1
    PROVE  GpuInv'
  <1>1. Ranges /\ pc = "execute01" /\ pc \in Working /\ UNCHANGED barrier
    BY DEF Execute01Etc1, GpuInv, Working
  <1>2. PICK us : us = BindUnits(At(0, "src"))
    OBVIOUS
  <1>3. PICK f : f = [u \in {0, 2} |-> IF u = 0 THEN "compressTarget" ELSE "etc1Error"]
    OBVIOUS
  <1>4. PICK vs : vs = BindUavs(f, "write")
    OBVIOUS
  <1>5. us \in [0..4 -> Nat] /\ us[0] = member["src"]
    BY <1>1, <1>2, SourceBound
  <1>6. DOMAIN f = {0, 2} /\ f[0] = "compressTarget" /\ f[2] = "etc1Error"
    BY <1>3
  <1>7. /\ vs \in [0..2 -> Binding]
        /\ vs[0] = [tex |-> member["compressTarget"], access |-> "write"]
        /\ vs[2] = [tex |-> member["etc1Error"], access |-> "write"]
    <2>1. \A u \in DOMAIN f : f[u] \in MemberSet
      BY <1>6, NineMembers
    <2>2. vs \in [0..2 -> Binding]
      BY <1>1, <1>4, <2>1, BindingsAre
    <2>3. QED
      BY <1>4, <1>6, <2>2 DEF BindUavs
  <1>8. Issue(Order[2], us, vs, barrier, "execute01TH")
    BY <1>2, <1>3, <1>4 DEF Execute01Etc1, Order
  <1>9. Suits(2, us, vs, barrier)
    BY <1>5, <1>7 DEF Suits, Served, Ordered, Shaders, Order
  <1>10. /\ barrier \in [Kinds -> SUBSET Nat] /\ barrier' \in [Kinds -> SUBSET Nat]
         /\ "execute01TH" \in Working /\ Issued(pc) = 2 - 1 /\ Issued("execute01TH") = 2
    <2>1. Issued(pc) = 1 /\ Issued("execute01TH") = 2
      BY <1>1, IssuedIs, Zenon
    <2>2. barrier \in [Kinds -> SUBSET Nat] /\ barrier' \in [Kinds -> SUBSET Nat]
      BY <1>1 DEF Ranges
    <2>3. "execute01TH" \in Working
      BY DEF Working
    <2>4. QED
      BY <2>1, <2>2, <2>3
  <1>11. /\ Ranges' /\ MembersInv' /\ CmdsInv' /\ StagingInv' /\ RightTexture' /\ LoadsAreWritten'
         /\ pc' = "execute01TH"
    BY <1>1, <1>5, <1>7, <1>8, <1>9, <1>10, IssueKeeps
  <1>12. LeftInv'
    BY <1>1, <1>11 DEF GpuInv, LeftInv
  <1>13. QED
    BY <1>11, <1>12 DEF GpuInv

LEMMA Execute01THKeeps ==
    ASSUME GpuInv, Execute01TH
    PROVE  GpuInv'
  <1>1. Ranges /\ pc = "execute01TH" /\ pc \in Working /\ UNCHANGED barrier /\ 1 \in barrier["image"]
    BY DEF Execute01TH, GpuInv, Working, LeftInv
  <1>2. PICK us : us = BindUnits(At(0, "src"))
    OBVIOUS
  <1>3. PICK f : f = [u \in 0..2 |-> <<"thTarget", "thError", "thC0C1">>[u + 1]]
    OBVIOUS
  <1>4. PICK vs : vs = BindUavs(f, "write")
    OBVIOUS
  <1>5. us \in [0..4 -> Nat] /\ us[0] = member["src"]
    BY <1>1, <1>2, SourceBound
  <1>6. DOMAIN f = {0, 1, 2} /\ f[0] = "thTarget" /\ f[1] = "thError" /\ f[2] = "thC0C1"
    BY <1>3
  <1>7. /\ vs \in [0..2 -> Binding]
        /\ vs[0] = [tex |-> member["thTarget"], access |-> "write"]
        /\ vs[1] = [tex |-> member["thError"], access |-> "write"]
        /\ vs[2] = [tex |-> member["thC0C1"], access |-> "write"]
    <2>1. \A u \in DOMAIN f : f[u] \in MemberSet
      BY <1>6, NineMembers
    <2>2. vs \in [0..2 -> Binding]
      BY <1>1, <1>4, <2>1, BindingsAre
    <2>3. QED
      BY <1>4, <1>6, <2>2 DEF BindUavs
  <1>8. Issue(Order[3], us, vs, barrier, "execute01P")
    BY <1>2, <1>3, <1>4 DEF Execute01TH, Order
  <1>9. Suits(3, us, vs, barrier)
    BY <1>1, <1>5, <1>7 DEF Suits, Served, Ordered, Shaders, Order
  <1>10. /\ barrier \in [Kinds -> SUBSET Nat] /\ barrier' \in [Kinds -> SUBSET Nat]
         /\ "execute01P" \in Working /\ Issued(pc) = 3 - 1 /\ Issued("execute01P") = 3
    <2>1. Issued(pc) = 2 /\ Issued("execute01P") = 3
      BY <1>1, IssuedIs, Zenon
    <2>2. barrier \in [Kinds -> SUBSET Nat] /\ barrier' \in [Kinds -> SUBSET Nat]
      BY <1>1 DEF Ranges
    <2>3. "execute01P" \in Working
      BY DEF Working
    <2>4. QED
      BY <2>1, <2>2, <2>3
  <1>11. /\ Ranges' /\ MembersInv' /\ CmdsInv' /\ StagingInv' /\ RightTexture' /\ LoadsAreWritten'
         /\ pc' = "execute01P" /\ unit' = us /\ UNCHANGED member
    BY <1>1, <1>5, <1>7, <1>8, <1>9, <1>10, IssueKeeps
  <1>12. LeftInv'
    BY <1>5, <1>11 DEF LeftInv
  <1>13. QED
    BY <1>11, <1>12 DEF GpuInv

LEMMA Execute01PKeeps ==
    ASSUME GpuInv, Execute01P
    PROVE  GpuInv'
  <1>1. /\ Ranges /\ pc = "execute01P" /\ pc \in Working /\ UNCHANGED barrier
        /\ unit \in [0..4 -> Nat] /\ unit[0] = member["src"]
    BY DEF Execute01P, GpuInv, Working, LeftInv, Ranges
  <1>2. PICK f : f = [u \in {0, 1} |-> IF u = 0 THEN "pTarget" ELSE "pError"]
    OBVIOUS
  <1>3. PICK vs : vs = BindUavs(f, "write")
    OBVIOUS
  <1>4. DOMAIN f = {0, 1} /\ f[0] = "pTarget" /\ f[1] = "pError"
    BY <1>2
  <1>5. /\ vs \in [0..2 -> Binding]
        /\ vs[0] = [tex |-> member["pTarget"], access |-> "write"]
        /\ vs[1] = [tex |-> member["pError"], access |-> "write"]
    <2>1. \A u \in DOMAIN f : f[u] \in MemberSet
      BY <1>4, NineMembers
    <2>2. vs \in [0..2 -> Binding]
      BY <1>1, <1>3, <2>1, BindingsAre
    <2>3. QED
      BY <1>3, <1>4, <2>2 DEF BindUavs
  <1>6. Issue(Order[4], unit, vs, barrier, "execute02")
    BY <1>2, <1>3 DEF Execute01P, Order
  <1>7. Suits(4, unit, vs, barrier)
    BY <1>1, <1>5 DEF Suits, Served, Ordered, Shaders, Order
  <1>8. /\ barrier \in [Kinds -> SUBSET Nat] /\ barrier' \in [Kinds -> SUBSET Nat]
        /\ "execute02" \in Working /\ Issued(pc) = 4 - 1 /\ Issued("execute02") = 4
    <2>1. Issued(pc) = 3 /\ Issued("execute02") = 4
      BY <1>1, IssuedIs, Zenon
    <2>2. QED
      BY <1>1, <2>1 DEF Ranges, Working
  <1>9. /\ Ranges' /\ MembersInv' /\ CmdsInv' /\ StagingInv' /\ RightTexture' /\ LoadsAreWritten'
        /\ pc' = "execute02"
    BY <1>1, <1>5, <1>6, <1>7, <1>8, IssueKeeps
  <1>10. LeftInv'
    BY <1>9 DEF LeftInv
  <1>11. QED
    BY <1>9, <1>10 DEF GpuInv

LEMMA Execute02Keeps ==
    ASSUME GpuInv, Execute02
    PROVE  GpuInv'
  <1>1. Ranges /\ pc = "execute02" /\ pc \in Working /\ barrier' = MemoryBarrier({"update", "image"}, cmds)
    BY DEF Execute02, Execute02Kinds, GpuInv, Working
  <1>2. PICK g : g = [u \in 0..4 |->
                 <<"etc1Error", "thError", "pError", "compressTarget", "thTarget">>[u + 1]]
    OBVIOUS
  <1>3. /\ DOMAIN g = 0..4 /\ g[0] = "etc1Error" /\ g[1] = "thError" /\ g[2] = "pError"
        /\ g[3] = "compressTarget" /\ g[4] = "thTarget"
    BY <1>2
  <1>4. PICK us : us = BindUnits(g)
    OBVIOUS
  <1>5. PICK vs : vs = BindUavs(At(0, "pTarget"), "readwrite")
    OBVIOUS
  <1>6. /\ us \in [0..4 -> Nat]
        /\ us[0] = member["etc1Error"] /\ us[1] = member["thError"] /\ us[2] = member["pError"]
        /\ us[3] = member["compressTarget"] /\ us[4] = member["thTarget"]
    <2>1. \A u \in DOMAIN g : g[u] \in MemberSet
      BY <1>3, NineMembers
    <2>2. us \in [0..4 -> Nat]
      BY <1>1, <1>4, <2>1, BindingsAre
    <2>3. QED
      BY <1>3, <1>4, <2>2 DEF BindUnits
  <1>7. vs \in [0..2 -> Binding] /\ vs[0] = [tex |-> member["pTarget"], access |-> "readwrite"]
    <2>1. \A u \in DOMAIN At(0, "pTarget") : At(0, "pTarget")[u] \in MemberSet
      BY NineMembers DEF At
    <2>2. vs \in [0..2 -> Binding]
      BY <1>1, <1>5, <2>1, BindingsAre
    <2>3. QED
      BY <1>5, <2>2 DEF BindUavs, At
  <1>8. PICK b : b = barrier'
    OBVIOUS
  <1>9. Issue(Order[5], us, vs, b, "download")
    BY <1>2, <1>4, <1>5, <1>8 DEF Execute02, Order
  <1>10. Issued(pc) = 4 /\ Issued("download") = 5 /\ "download" \in Working
    <2>1. Issued(pc) = 4 /\ Issued("download") = 5
      BY <1>1, IssuedIs, Zenon
    <2>2. QED
      BY <2>1 DEF Working
  <1>11. b \in [Kinds -> SUBSET Nat] /\ 4 \in b["image"]
    <2>1. Len(cmds) = 4 /\ cmds \in Seq(CmdSet)
      BY <1>1, <1>10 DEF GpuInv, CmdsInv, Ranges
    <2>2. "image" \in {"update", "image"} \cap Kinds
      BY DEF Kinds
    <2>3. QED
      BY <1>1, <1>8, <2>1, <2>2, BarrierSet
  <1>12. Suits(5, us, vs, b)
    BY <1>6, <1>7, <1>11 DEF Suits, Served, Ordered, Shaders, Order
  <1>13. Issued(pc) = 5 - 1 /\ barrier' \in [Kinds -> SUBSET Nat]
    BY <1>8, <1>10, <1>11
  <1>14. /\ Ranges' /\ MembersInv' /\ CmdsInv' /\ StagingInv' /\ RightTexture' /\ LoadsAreWritten'
         /\ pc' = "download"
    BY <1>1, <1>6, <1>7, <1>9, <1>10, <1>11, <1>12, <1>13, IssueKeeps
  <1>15. LeftInv'
    BY <1>14 DEF LeftInv
  <1>16. QED
    BY <1>14, <1>15 DEF GpuInv

LEMMA GetDownloadDataKeeps ==
    ASSUME GpuInv, GetDownloadData
    PROVE  GpuInv'
  <1>1. /\ Ranges /\ pc = "download" /\ pc \in Working /\ pc' = "finish" /\ pc' \in Working
        /\ barrier' = MemoryBarrier({"update", "image"}, cmds)
        /\ unit' = [unit EXCEPT ![0] = member["pTarget"]]
        /\ UNCHANGED <<image, member, tex, live, uav, progs, seen, saved>>
    BY DEF GetDownloadData, GpuInv, Working
  <1>2. Len(cmds) = 5 /\ cmds \in Seq(CmdSet) /\ Issued(pc') = 6
    <2>1. Issued(pc) = 5 /\ Issued(pc') = 6
      BY <1>1, IssuedIs, Zenon
    <2>2. QED
      BY <1>1, <2>1 DEF GpuInv, CmdsInv, Ranges
  <1>3. PICK b : b = barrier'
    OBVIOUS
  <1>4. b \in [Kinds -> SUBSET Nat] /\ 5 \in b["update"]
    <2>1. "update" \in {"update", "image"} \cap Kinds
      BY DEF Kinds
    <2>2. QED
      BY <1>1, <1>2, <1>3, <2>1, BarrierSet
  <1>5. PICK us : us = unit'
    OBVIOUS
  <1>6. us \in [0..4 -> Nat] /\ us[0] = member["pTarget"]
    <2>1. "pTarget" \in MemberSet
      BY NineMembers
    <2>2. QED
      BY <1>1, <1>5, <2>1 DEF Ranges
  <1>7. PICK r : r = [run |-> "download", units |-> us, uavs |-> uav, after |-> b, state |-> "issued"]
    OBVIOUS
  <1>8. r \in CmdSet
    BY <1>1, <1>4, <1>6, <1>7 DEF CmdSet, Runs, Ranges
  <1>9. cmds' = Append(cmds, r)
    BY <1>3, <1>5, <1>7 DEF GetDownloadData, Dispatch
  <1>10. r.run = Order[6] /\ r.state = "issued" /\ Served(r) /\ Ordered(6, r)
    BY <1>4, <1>6, <1>7 DEF Order, Served, Ordered
  <1>11. cmds' \in Seq(CmdSet) /\ Len(cmds') = 6 /\ CmdsInv'
    BY <1>1, <1>2, <1>8, <1>9, <1>10, CommandAppended
  <1>12. cmds'[6].state = "issued"
    <2>1. Append(cmds, r)[Len(cmds) + 1] = r
      BY <1>2, <1>8, AppendProperties
    <2>2. cmds'[6] = r
      BY <1>2, <1>9, <2>1
    <2>3. QED
      BY <1>10, <2>2
  <1>13. Ranges' /\ LeftInv'
    BY <1>1, <1>3, <1>4, <1>5, <1>6, <1>11 DEF Ranges, LeftInv, Between, Working
  <1>14. MembersInv'
    BY <1>1 DEF GpuInv, MembersInv
  <1>15. StagingInv'
    <2>1. buffers' = (buffers \ {staging.name}) \union {image} /\ staging'.name = image
      BY DEF GetDownloadData
    <2>2. buffers' = {image}
      BY <2>1 DEF GpuInv, StagingInv
    <2>3. DOMAIN staging' = {"name", "from"}
      BY DEF GetDownloadData
    <2>4. QED
      BY <1>1, <1>12, <2>1, <2>2, <2>3 DEF StagingInv, SavedIsDownload
  <1>16. RightTexture' /\ LoadsAreWritten'
    BY <1>1 DEF GpuInv, RightTexture, LoadsAreWritten
  <1>17. QED
    BY <1>11, <1>13, <1>14, <1>15, <1>16 DEF GpuInv
-----------------------------------------------------------------------------
(* The steps of the GPU                                                    *)

LEMMA CommandPending ==
    ASSUME GpuInv, NEW c \in 1..Len(cmds), cmds[c].state # "done"
    PROVE  /\ pc \in Working /\ pc # "gone" /\ image \in Nat \ {0}
           /\ c \in 1..6 /\ cmds[c] \in CmdSet /\ Len(cmds) \in 1..6
           /\ cmds[c].run = Order[c] /\ Served(cmds[c]) /\ Ordered(c, cmds[c])
           /\ cmds[c].state = "sampled" => c # 6
  <1>1. pc \in Working
    BY DEF GpuInv, CmdsInv, Ranges
  <1>2. pc \notin Between /\ pc # "gone"
    BY <1>1 DEF Working, Between
  <1>3. image \in Nat \ {0}
    BY <1>2 DEF GpuInv, Ranges
  <1>4. cmds \in Seq(CmdSet) /\ Len(cmds) \in Nat
    BY DEF GpuInv, Ranges
  <1>5. Len(cmds) \in 0..6
    <2>1. Issued(pc) \in 0..6
      BY <1>1 DEF Working, Issued
    <2>2. QED
      BY <1>1, <2>1 DEF GpuInv, CmdsInv
  <1>6. cmds[c] \in CmdSet
    BY <1>4, ElementOfSeq
  <1>7. CmdOK(c)
    BY DEF GpuInv, CmdsInv
  <1>8. QED
    BY <1>1, <1>2, <1>3, <1>5, <1>6, <1>7 DEF CmdOK

LEMMA StateChanged ==
    ASSUME GpuInv, NEW c \in 1..Len(cmds), NEW s \in {"issued", "sampled", "done"},
           cmds' = [cmds EXCEPT ![c].state = s]
    PROVE  /\ cmds' \in Seq(CmdSet) /\ Len(cmds') = Len(cmds)
           /\ \A k \in 1..Len(cmds) :
                 /\ cmds'[k].run = cmds[k].run /\ cmds'[k].units = cmds[k].units
                 /\ cmds'[k].uavs = cmds[k].uavs /\ cmds'[k].after = cmds[k].after
                 /\ k # c => cmds'[k] = cmds[k]
           /\ cmds'[c].state = s
  <1>1. cmds \in Seq(CmdSet)
    BY DEF GpuInv, Ranges
  <1>2. PICK o : o = cmds[c]
    OBVIOUS
  <1>3. o \in CmdSet
    BY <1>1, <1>2, ElementOfSeq
  <1>4. PICK r : r = [o EXCEPT !.state = s]
    OBVIOUS
  <1>5. r \in CmdSet /\ r.run = o.run /\ r.units = o.units /\ r.uavs = o.uavs /\ r.after = o.after
        /\ r.state = s
    BY <1>3, <1>4 DEF CmdSet
  <1>6. cmds' = [cmds EXCEPT ![c] = r]
    BY <1>2, <1>4
  <1>7. /\ cmds' \in Seq(CmdSet) /\ Len(cmds') = Len(cmds)
        /\ \A j \in 1..Len(cmds) : cmds'[j] = IF j = c THEN r ELSE cmds[j]
    BY <1>1, <1>5, <1>6, ExceptSeq
  <1>8. QED
    BY <1>2, <1>5, <1>7

LEMMA MemberTextures ==
    ASSUME GpuInv, pc # "gone", image > 0, NEW m \in MemberSet
    PROVE  /\ member[m] \in live /\ member[m] \in 1..Len(tex)
           /\ Texture(member[m]) = tex[member[m]]
           /\ tex[member[m]].for = m /\ tex[member[m]].image = image
  <1>1. member[m] \in live /\ tex[member[m]].for = m /\ tex[member[m]].image = image
    BY DEF GpuInv, MembersInv
  <1>2. live \subseteq 1..Len(tex) /\ Len(tex) \in Nat
    BY DEF GpuInv, Ranges
  <1>3. member[m] \in 1..Len(tex) /\ member[m] # 0
    <2>1. \A k \in Nat : \A n \in 1..k : n # 0
      OBVIOUS
    <2>2. QED
      BY <1>1, <1>2, <2>1, Zenon
  <1>4. QED
    BY <1>1, <1>3 DEF Texture

LEMMA FetchKeeps ==
    ASSUME GpuInv, NEW c \in 1..Len(cmds), Fetch(c)
    PROVE  GpuInv'
  <1>1. /\ cmds[c].state = "issued" /\ cmds[c].run # "download"
        /\ cmds' = [cmds EXCEPT ![c].state = "sampled"]
        /\ UNCHANGED <<pc, image, member, live, unit, uav, progs, buffers, saved, tex, barrier, staging>>
    BY DEF Fetch, cpuVars
  <1>2. /\ pc \in Working /\ pc # "gone" /\ image \in Nat \ {0} /\ c \in 1..6
        /\ cmds[c].run = Order[c] /\ Served(cmds[c]) /\ Ordered(c, cmds[c])
    BY <1>1, CommandPending
  <1>3. /\ cmds' \in Seq(CmdSet) /\ Len(cmds') = Len(cmds)
        /\ \A k \in 1..Len(cmds) :
              /\ cmds'[k].run = cmds[k].run /\ cmds'[k].units = cmds[k].units
              /\ cmds'[k].uavs = cmds[k].uavs /\ cmds'[k].after = cmds[k].after
              /\ k # c => cmds'[k] = cmds[k]
        /\ cmds'[c].state = "sampled"
    BY <1>1, StateChanged
  <1>4. Ranges'
    BY <1>1, <1>3 DEF GpuInv, Ranges
  <1>5. MembersInv' /\ LeftInv'
    BY <1>1 DEF GpuInv, MembersInv, LeftInv
  <1>6. CmdsInv'
    <2>1. CmdOK(c)'
      BY <1>1, <1>2, <1>3, OrderIs DEF CmdOK, Served, Ordered
    <2>2. ASSUME NEW k \in 1..Len(cmds), k # c PROVE CmdOK(k)'
      <3>1. CmdOK(k) /\ cmds'[k] = cmds[k]
        BY <1>3, <2>2 DEF GpuInv, CmdsInv
      <3>2. QED
        BY <1>1, <3>1 DEF CmdOK, Served, Ordered
    <2>3. pc \notin Between
      BY <1>2 DEF Working, Between
    <2>4. QED
      BY <1>1, <1>3, <2>1, <2>2, <2>3 DEF GpuInv, CmdsInv
  <1>7. StagingInv'
    <2>1. pc = "finish" /\ cmds'[6].state = "done" => cmds[6].state = "done"
      <3>1. pc = "finish" => 6 \in 1..Len(cmds)
        BY IssuedIs DEF GpuInv, CmdsInv, Working
      <3>2. QED
        BY <1>3, <3>1
    <2>2. QED
      BY <1>1, <2>1 DEF GpuInv, StagingInv, SavedIsDownload
  <1>8. c \in 1..5 /\ Order[c] \in {"findBest", "compress", "th", "p", "stitch"}
    BY <1>1, <1>2, OrderIs
  <1>9. RightTexture' /\ LoadsAreWritten'
    <2>1. seen' = seen \union {Access(c, "fetch", cmds[c].units[f[1]], f[2], "read") :
                                 f \in Shaders[Order[c]].fetch}
      BY <1>2 DEF Fetch
    <2>2. ASSUME NEW f \in Shaders[Order[c]].fetch,
                 NEW a, a = Access(c, "fetch", cmds[c].units[f[1]], f[2], "read")
          PROVE  a.live /\ a.tex.for = a.want /\ a.tex.image = image /\ a.via = "fetch"
      <3>1. f[2] \in MemberSet
        BY <1>8, ShadersMeanMembers
      <3>2. cmds[c].units[f[1]] = member[f[2]]
        BY <1>1, <1>2 DEF Served
      <3>3. /\ member[f[2]] \in live /\ Texture(member[f[2]]) = tex[member[f[2]]]
            /\ tex[member[f[2]]].for = f[2] /\ tex[member[f[2]]].image = image
        BY <1>2, <3>1, MemberTextures
      <3>4. QED
        BY <2>2, <3>2, <3>3 DEF Access
    <2>3. QED
      BY <1>1, <2>1, <2>2 DEF GpuInv, RightTexture, LoadsAreWritten
  <1>10. QED
    BY <1>4, <1>5, <1>6, <1>7, <1>9 DEF GpuInv

\* The textures after a command's stores.
StoredInto(c) == {cmds[c].uavs[l[1]].tex : l \in Shaders[cmds[c].run].store}
AfterStores(c) ==
    [n \in DOMAIN tex |->
        IF n \in StoredInto(c)
          THEN [tex[n] EXCEPT !.stored = @ \union {cmds[c].run}] ELSE tex[n]]

LEMMA StoresGrow ==
    ASSUME Ranges, NEW c \in 1..Len(cmds), cmds[c].run \in Runs
    PROVE  /\ AfterStores(c) \in Seq(TexSet) /\ Len(AfterStores(c)) = Len(tex)
           /\ \A n \in 1..Len(tex) :
                 /\ AfterStores(c)[n].for = tex[n].for /\ AfterStores(c)[n].image = tex[n].image
                 /\ tex[n].stored \subseteq AfterStores(c)[n].stored
                 /\ n \in StoredInto(c) => cmds[c].run \in AfterStores(c)[n].stored
  <1>1. DOMAIN tex = 1..Len(tex) /\ Len(tex) \in Nat
    BY LenProperties DEF Ranges
  <1>2. ASSUME NEW n \in 1..Len(tex)
        PROVE  /\ AfterStores(c)[n] \in TexSet
               /\ AfterStores(c)[n].for = tex[n].for /\ AfterStores(c)[n].image = tex[n].image
               /\ tex[n].stored \subseteq AfterStores(c)[n].stored
               /\ n \in StoredInto(c) => cmds[c].run \in AfterStores(c)[n].stored
    <2>1. PICK t : t = tex[n]
      OBVIOUS
    <2>2. t \in TexSet /\ t.stored \subseteq Runs \union {"upload"}
      BY <2>1, TexturesAre
    <2>3. PICK st : st = t.stored \union {cmds[c].run}
      OBVIOUS
    <2>4. PICK u : u = [t EXCEPT !.stored = st]
      OBVIOUS
    <2>5. st \in SUBSET (Runs \union {"upload"})
      BY <2>2, <2>3
    <2>6. u \in TexSet /\ u.for = t.for /\ u.image = t.image /\ u.stored = st
      BY <2>2, <2>4, <2>5 DEF TexSet
    <2>7. AfterStores(c)[n] = IF n \in StoredInto(c) THEN u ELSE t
      BY <1>1, <2>1, <2>3, <2>4 DEF AfterStores
    <2>8. CASE n \in StoredInto(c)
      BY <2>1, <2>3, <2>6, <2>7, <2>8
    <2>9. CASE n \notin StoredInto(c)
      BY <2>1, <2>2, <2>7, <2>9
    <2>10. QED
      BY <2>8, <2>9
  <1>3. AfterStores(c) \in [1..Len(tex) -> TexSet]
    BY <1>1, <1>2 DEF AfterStores
  <1>4. AfterStores(c) \in Seq(TexSet) /\ Len(AfterStores(c)) = Len(tex)
    BY <1>1, <1>3, FunctionIsSequence
  <1>5. QED
    BY <1>2, <1>4

\* A command that loads what another stores comes after it.
LEMMA LoadsFollowStores ==
    ASSUME GpuInv, NEW c \in 1..Len(cmds), cmds[c].state # "done", c \in 1..5,
           Followed(c, "image"), NEW l \in Shaders[Order[c]].load
    PROVE  Writer(l[2]) \in tex[member[l[2]]].stored
  <1>1. pc # "gone" /\ Ordered(c, cmds[c]) /\ Len(cmds) \in 1..6
    BY CommandPending
  <1>2. CASE c = 3
    <2>1. l[2] = "thC0C1" /\ Writer(l[2]) = "findBest" /\ \E w \in Shaders[Order[1]].store : w[2] = l[2]
      BY <1>2, LoadersAre
    <2>2. 1 \in cmds[c].after["image"] /\ 1 \in 1..Len(cmds)
      BY <1>1, <1>2 DEF Ordered
    <2>3. cmds[1].state = "done" /\ CmdOK(1)
      BY <2>2 DEF Followed, GpuInv, CmdsInv
    <2>4. \A w \in Shaders[Order[1]].store : Order[1] \in tex[member[w[2]]].stored
      BY <1>1, <2>3 DEF CmdOK
    <2>5. Order[1] = "findBest"
      BY DEF Order
    <2>6. QED
      BY <2>1, <2>4, <2>5
  <1>3. CASE c = 5
    <2>1. l[2] = "pTarget" /\ Writer(l[2]) = "p" /\ \E w \in Shaders[Order[4]].store : w[2] = l[2]
      BY <1>3, LoadersAre
    <2>2. 4 \in cmds[c].after["image"] /\ 4 \in 1..Len(cmds)
      BY <1>1, <1>3 DEF Ordered
    <2>3. cmds[4].state = "done" /\ CmdOK(4)
      BY <2>2 DEF Followed, GpuInv, CmdsInv
    <2>4. \A w \in Shaders[Order[4]].store : Order[4] \in tex[member[w[2]]].stored
      BY <1>1, <2>3 DEF CmdOK
    <2>5. Order[4] = "p"
      BY DEF Order
    <2>6. QED
      BY <2>1, <2>4, <2>5
  <1>4. c = 3 \/ c = 5
    BY LoadersAre
  <1>5. QED
    BY <1>2, <1>3, <1>4

LEMMA LoadAndStoreKeeps ==
    ASSUME GpuInv, NEW c \in 1..Len(cmds), LoadAndStore(c)
    PROVE  GpuInv'
  <1>1. /\ cmds[c].state = "sampled" /\ Followed(c, "image")
        /\ cmds' = [cmds EXCEPT ![c].state = "done"]
        /\ UNCHANGED <<pc, image, member, live, unit, uav, progs, buffers, saved, barrier, staging>>
    BY DEF LoadAndStore, cpuVars
  <1>2. /\ pc \in Working /\ pc # "gone" /\ image \in Nat \ {0} /\ c \in 1..6
        /\ cmds[c].run = Order[c] /\ Served(cmds[c]) /\ Ordered(c, cmds[c]) /\ c # 6
    BY <1>1, CommandPending
  <1>3. /\ cmds' \in Seq(CmdSet) /\ Len(cmds') = Len(cmds)
        /\ \A k \in 1..Len(cmds) :
              /\ cmds'[k].run = cmds[k].run /\ cmds'[k].units = cmds[k].units
              /\ cmds'[k].uavs = cmds[k].uavs /\ cmds'[k].after = cmds[k].after
              /\ k # c => cmds'[k] = cmds[k]
        /\ cmds'[c].state = "done"
    BY <1>1, StateChanged
  <1>4. c \in 1..5 /\ Order[c] \in {"findBest", "compress", "th", "p", "stitch"} /\ cmds[c].run \in Runs
    BY <1>2, OrderIs DEF Runs
  <1>5. tex' = AfterStores(c)
    <2>1. \A n : n \in StoredInto(c) <=> \E l \in Shaders[cmds[c].run].store : cmds[c].uavs[l[1]].tex = n
      BY DEF StoredInto
    <2>2. QED
      BY <2>1 DEF LoadAndStore, AfterStores
  <1>6. /\ tex' \in Seq(TexSet) /\ Len(tex') = Len(tex)
        /\ \A n \in 1..Len(tex) : /\ tex'[n].for = tex[n].for /\ tex'[n].image = tex[n].image
                                  /\ tex[n].stored \subseteq tex'[n].stored
                                  /\ n \in StoredInto(c) => cmds[c].run \in tex'[n].stored
    BY <1>4, <1>5, StoresGrow DEF GpuInv
  <1>7. \A m \in MemberSet : member[m] \in 1..Len(tex) /\ member[m] \in live
    BY <1>2, MemberTextures
  <1>8. Ranges'
    BY <1>1, <1>3, <1>6 DEF GpuInv, Ranges
  <1>9. MembersInv'
    <2>1. live \subseteq 1..Len(tex)
      BY DEF GpuInv, Ranges
    <2>2. QED
      BY <1>1, <1>2, <1>6, <1>7, <2>1 DEF GpuInv, MembersInv
  <1>10. LeftInv'
    BY <1>1 DEF GpuInv, LeftInv
  <1>11. CmdsInv'
    <2>1. CmdOK(c)'
      <3>1. ASSUME NEW l \in Shaders[Order[c]].store
            PROVE  Order[c] \in tex'[member[l[2]]].stored
        <4>1. member[l[2]] \in StoredInto(c)
          BY <1>2, <1>4 DEF Served, StoredInto
        <4>2. l[2] \in MemberSet
          BY <1>4, ShadersMeanMembers
        <4>3. QED
          BY <1>2, <1>6, <1>7, <4>1, <4>2
      <3>2. QED
        BY <1>1, <1>2, <1>3, <3>1 DEF CmdOK, Ordered
    <2>2. ASSUME NEW k \in 1..Len(cmds), k # c PROVE CmdOK(k)'
      <3>1. CmdOK(k) /\ cmds'[k] = cmds[k]
        BY <1>3, <2>2 DEF GpuInv, CmdsInv
      <3>2. k \in 1..6
        <4>1. Len(cmds) \in 1..6
          BY <1>1, CommandPending
        <4>2. \A n \in 1..6 : \A j \in 1..n : j \in 1..6
          OBVIOUS
        <4>3. QED
          BY <4>1, <4>2, Zenon
      <3>3. ASSUME k # 6, NEW l \in Shaders[Order[k]].store
            PROVE  tex[member[l[2]]].stored \subseteq tex'[member[l[2]]].stored
        <4>1. k \in 1..5
          BY <3>2, <3>3
        <4>2. l[2] \in MemberSet
          BY <4>1, OrderIs, ShadersMeanMembers
        <4>3. QED
          BY <1>6, <1>7, <4>2
      <3>4. QED
        BY <1>1, <3>1, <3>3 DEF CmdOK, Served, Ordered
    <2>3. pc \notin Between
      BY <1>2 DEF Working, Between
    <2>4. QED
      BY <1>1, <1>3, <2>1, <2>2, <2>3 DEF GpuInv, CmdsInv
  <1>12. StagingInv'
    <2>1. pc = "finish" /\ cmds'[6].state = "done" => cmds[6].state = "done"
      <3>1. pc = "finish" => 6 \in 1..Len(cmds)
        BY IssuedIs DEF GpuInv, CmdsInv, Working
      <3>2. QED
        BY <1>3, <1>4, <3>1
    <2>2. QED
      BY <1>1, <2>1 DEF GpuInv, StagingInv, SavedIsDownload
  <1>13. RightTexture' /\ LoadsAreWritten'
    <2> DEFINE u == cmds[c].uavs
    <2>1. seen' = seen \union
              {Access(c, "image", u[l[1]].tex, l[2], u[l[1]].access) : l \in Shaders[Order[c]].load} \union
              {Access(c, "store", u[l[1]].tex, l[2], u[l[1]].access) : l \in Shaders[Order[c]].store}
      BY <1>2 DEF LoadAndStore
    <2>2. ASSUME NEW l \in Shaders[Order[c]].load, NEW a, a = Access(c, "image", u[l[1]].tex, l[2], u[l[1]].access)
          PROVE  /\ a.live /\ a.tex.for = a.want /\ a.tex.image = image /\ a.via = "image"
                 /\ a.access = "readwrite" \/ a.want = "thC0C1"
                 /\ Writer(a.want) \in a.tex.stored
      <3>1. l[2] \in MemberSet
        BY <1>4, ShadersMeanMembers
      <3>2. u[l[1]].tex = member[l[2]] /\ (u[l[1]].access = "readwrite" \/ l[2] = "thC0C1")
        BY <1>2, <1>4 DEF Served
      <3>3. /\ member[l[2]] \in live /\ Texture(member[l[2]]) = tex[member[l[2]]]
            /\ tex[member[l[2]]].for = l[2] /\ tex[member[l[2]]].image = image
        BY <1>2, <3>1, MemberTextures
      <3>4. Writer(l[2]) \in tex[member[l[2]]].stored
        BY <1>1, <1>4, LoadsFollowStores
      <3>5. QED
        BY <2>2, <3>2, <3>3, <3>4 DEF Access
    <2>3. ASSUME NEW l \in Shaders[Order[c]].store, NEW a, a = Access(c, "store", u[l[1]].tex, l[2], u[l[1]].access)
          PROVE  /\ a.live /\ a.tex.for = a.want /\ a.tex.image = image /\ a.via = "store"
                 /\ a.access # "read"
      <3>1. l[2] \in MemberSet
        BY <1>4, ShadersMeanMembers
      <3>2. u[l[1]].tex = member[l[2]] /\ u[l[1]].access # "read"
        BY <1>2, <1>4 DEF Served
      <3>3. /\ member[l[2]] \in live /\ Texture(member[l[2]]) = tex[member[l[2]]]
            /\ tex[member[l[2]]].for = l[2] /\ tex[member[l[2]]].image = image
        BY <1>2, <3>1, MemberTextures
      <3>4. QED
        BY <2>3, <3>2, <3>3 DEF Access
    <2> HIDE DEF u
    <2>4. \A a \in seen' :
             \/ a \in seen
             \/ \E l \in Shaders[Order[c]].load : a = Access(c, "image", u[l[1]].tex, l[2], u[l[1]].access)
             \/ \E l \in Shaders[Order[c]].store : a = Access(c, "store", u[l[1]].tex, l[2], u[l[1]].access)
      BY <2>1
    <2>5. QED
      BY <1>1, <2>2, <2>3, <2>4 DEF GpuInv, RightTexture, LoadsAreWritten
  <1>14. QED
    BY <1>8, <1>9, <1>10, <1>11, <1>12, <1>13 DEF GpuInv

LEMMA DownloadKeeps ==
    ASSUME GpuInv, NEW c \in 1..Len(cmds), Download(c)
    PROVE  GpuInv'
  <1>1. /\ cmds[c].state = "issued" /\ cmds[c].run = "download" /\ Followed(c, "update")
        /\ cmds' = [cmds EXCEPT ![c].state = "done"]
        /\ seen' = seen \union {Access(c, "update", cmds[c].units[0], "pTarget", "read")}
        /\ staging'.from = Texture(cmds[c].units[0]) /\ staging'.name = staging.name
        /\ UNCHANGED <<pc, image, member, live, unit, uav, progs, buffers, saved, tex, barrier>>
    <2>1. staging'.from = Texture(cmds[c].units[0]) /\ staging'.name = staging.name
      <3>1. "from" \in DOMAIN staging /\ "name" \in DOMAIN staging
        BY DEF GpuInv, StagingInv
      <3>2. QED
        BY <3>1 DEF Download
    <2>2. QED
      BY <2>1 DEF Download, cpuVars
  <1>2. /\ pc \in Working /\ pc # "gone" /\ image \in Nat \ {0} /\ c \in 1..6
        /\ cmds[c].run = Order[c] /\ Served(cmds[c]) /\ Ordered(c, cmds[c]) /\ Len(cmds) \in 1..6
    BY <1>1, CommandPending
  <1>3. c = 6 /\ Len(cmds) = 6
    <2>1. c = 6
      BY <1>1, <1>2, OrderIs
    <2>2. QED
      BY <1>2, <2>1
  <1>4. /\ cmds' \in Seq(CmdSet) /\ Len(cmds') = Len(cmds)
        /\ \A k \in 1..Len(cmds) :
              /\ cmds'[k].run = cmds[k].run /\ cmds'[k].units = cmds[k].units
              /\ cmds'[k].uavs = cmds[k].uavs /\ cmds'[k].after = cmds[k].after
              /\ k # c => cmds'[k] = cmds[k]
        /\ cmds'[c].state = "done"
    BY <1>1, StateChanged
  <1>5. Ranges'
    BY <1>1, <1>4 DEF GpuInv, Ranges
  <1>6. MembersInv' /\ LeftInv'
    BY <1>1 DEF GpuInv, MembersInv, LeftInv
  <1>7. CmdsInv'
    <2>1. CmdOK(c)'
      BY <1>2, <1>3, <1>4 DEF CmdOK, Ordered
    <2>2. ASSUME NEW k \in 1..Len(cmds), k # c PROVE CmdOK(k)'
      <3>1. CmdOK(k) /\ cmds'[k] = cmds[k]
        BY <1>4, <2>2 DEF GpuInv, CmdsInv
      <3>2. QED
        BY <1>1, <3>1, ZenonT(60) DEF CmdOK, Served, Ordered
    <2>3. pc \notin Between
      BY <1>2 DEF Working, Between
    <2>4. QED
      BY <1>1, <1>4, <2>1, <2>2, <2>3 DEF GpuInv, CmdsInv
  <1>8. PICK n : n = member["pTarget"]
    OBVIOUS
  <1>9. "pTarget" \in MemberSet
    BY NineMembers
  <1>10. /\ cmds[c].units[0] = n /\ n \in live /\ Texture(n) = tex[n]
         /\ tex[n].for = "pTarget" /\ tex[n].image = image
    BY <1>1, <1>2, <1>8, <1>9, MemberTextures DEF Served
  <1>11. "stitch" \in tex[n].stored
    <2>1. 5 \in cmds[c].after["update"] /\ 5 \in 1..Len(cmds)
      BY <1>2, <1>3 DEF Ordered
    <2>2. cmds[5].state = "done" /\ CmdOK(5)
      BY <1>1, <2>1 DEF Followed, GpuInv, CmdsInv
    <2>3. \A w \in Shaders[Order[5]].store : Order[5] \in tex[member[w[2]]].stored
      BY <1>2, <2>2 DEF CmdOK
    <2>4. Order[5] = "stitch"
      BY DEF Order
    <2>5. QED
      BY <1>8, <2>3, <2>4, SelectorStores
  <1>12. StagingInv'
    <2>1. DOMAIN staging' = {"name", "from"}
      BY DEF Download, GpuInv, StagingInv
    <2>2. QED
      BY <1>1, <1>2, <1>10, <2>1 DEF GpuInv, StagingInv, SavedIsDownload, Working
  <1>13. RightTexture' /\ LoadsAreWritten'
    <2>1. PICK a : a = Access(c, "update", n, "pTarget", "read")
      OBVIOUS
    <2>2. /\ a.live /\ a.tex.for = a.want /\ a.tex.image = image /\ a.via = "update"
          /\ "stitch" \in a.tex.stored
      BY <1>10, <1>11, <2>1 DEF Access
    <2>3. seen' = seen \union {a}
      BY <1>1, <1>10, <2>1
    <2>4. QED
      BY <1>1, <2>2, <2>3 DEF GpuInv, RightTexture, LoadsAreWritten
  <1>14. QED
    BY <1>5, <1>6, <1>7, <1>12, <1>13 DEF GpuInv
-----------------------------------------------------------------------------
(* The theorems: for any number of images                                  *)

LEMMA EncoderNext == GpuInv /\ [Next]_vars => GpuInv'
  <1> SUFFICES ASSUME GpuInv, [Next]_vars PROVE GpuInv'
    OBVIOUS
  <1>1. CASE EncoderShaderCompile
    BY <1>1, CompileKeeps
  <1>2. CASE InitResources
    BY <1>2, InitResourcesKeeps
  <1>3. CASE Execute00
    BY <1>3, Execute00Keeps
  <1>4. CASE Execute01Etc1
    BY <1>4, Execute01Etc1Keeps
  <1>5. CASE Execute01TH
    BY <1>5, Execute01THKeeps
  <1>6. CASE Execute01P
    BY <1>6, Execute01PKeeps
  <1>7. CASE Execute02
    BY <1>7, Execute02Keeps
  <1>8. CASE GetDownloadData
    BY <1>8, GetDownloadDataKeeps
  <1>9. CASE FinishAndSave
    BY <1>9, FinishKeeps
  <1>10. CASE DeinitResources
    BY <1>10, DeinitKeeps
  <1>11. CASE \E c \in 1..Len(cmds) : Fetch(c) \/ LoadAndStore(c) \/ Download(c)
    BY <1>11, FetchKeeps, LoadAndStoreKeeps, DownloadKeeps
  <1>12. CASE UNCHANGED vars
    BY <1>12, SMTT(60) DEF vars, GpuInv, Ranges, MembersInv, CmdsInv, CmdOK, Served, Ordered, LeftInv,
                 StagingInv, SavedIsDownload, RightTexture, LoadsAreWritten
  <1>13. QED
    BY <1>1, <1>2, <1>3, <1>4, <1>5, <1>6, <1>7, <1>8, <1>9, <1>10, <1>11, <1>12 DEF Next, Gone

LEMMA EncoderInvariance == Spec => []GpuInv
  BY EncoderInit, EncoderNext, PTL DEF Spec

\* Every sampler, image and download of every shader reaches the texture that
\* it means, of this image and not deleted, although bindings outlive the
\* dispatch they were made for and unit 0 changes hands six times an image.
THEOREM AccessesRight == Spec => []RightTexture
  <1>1. GpuInv => RightTexture
    BY DEF GpuInv
  <1>2. QED
    BY <1>1, EncoderInvariance, PTL

\* The barriers of Execute00, Execute02 and getDownloadData are enough for the
\* loads of the T/H and selector shaders and for the download: however far the
\* GPU lags behind, what they read has been stored.
THEOREM LoadsWritten == Spec => []LoadsAreWritten
  <1>1. GpuInv => LoadsAreWritten
    BY DEF GpuInv
  <1>2. QED
    BY <1>1, EncoderInvariance, PTL

\* What saveToOffset has written is the download of this image, byte for byte.
THEOREM SavedDownload == Spec => []SavedIsDownload
  <1>1. GpuInv => SavedIsDownload
    BY DEF GpuInv, StagingInv
  <1>2. QED
    BY <1>1, EncoderInvariance, PTL

\* From the compilation to the teardown every program is there, and the teardown
\* leaves one.
ProgsInv == pc \notin {"compile", "gone"} => progs = DOMAIN Shaders

LEMMA ProgsInvariance == Spec => []ProgsInv
  <1>1. Init => ProgsInv
    BY DEF Init, ProgsInv
  <1>2. ProgsInv /\ [Next]_vars => ProgsInv'
    <2> SUFFICES ASSUME ProgsInv, [Next]_vars PROVE ProgsInv'
      OBVIOUS
    <2>1. CASE EncoderShaderCompile
      BY <2>1 DEF EncoderShaderCompile, ProgsInv
    <2>2. CASE InitResources \/ FinishAndSave
      BY <2>2 DEF InitResources, FinishAndSave, ProgsInv
    <2>3. CASE Execute00 \/ Execute01Etc1 \/ Execute01TH \/ Execute01P \/ Execute02 \/ GetDownloadData
      <3>1. pc \notin {"compile", "gone"} /\ progs' = progs
        BY <2>3 DEF Execute00, Execute01Etc1, Execute01TH, Execute01P, Execute02, GetDownloadData, Issue
      <3>2. QED
        BY <3>1 DEF ProgsInv
    <2>4. CASE DeinitResources
      BY <2>4 DEF DeinitResources, ProgsInv
    <2>5. CASE \E c \in 1..Len(cmds) : Fetch(c) \/ LoadAndStore(c) \/ Download(c)
      <3>1. pc' = pc /\ progs' = progs
        BY <2>5 DEF Fetch, LoadAndStore, Download, cpuVars
      <3>2. QED
        BY <3>1 DEF ProgsInv
    <2>6. CASE UNCHANGED vars
      BY <2>6 DEF vars, ProgsInv
    <2>7. QED
      BY <2>1, <2>2, <2>3, <2>4, <2>5, <2>6 DEF Next, Gone
  <1>3. QED
    BY <1>1, <1>2, PTL DEF Spec

\* For any number of images: nothing is deleted twice, nor a texture, a program
\* or a buffer that a command not yet done is going to use; no member names a
\* deleted texture, and deinitResources leaves behind only the textures of
\* earlier images, m_thModesC0C1 and m_stitchPso.
THEOREM TeardownSafe == Spec => []TeardownIsSafe
  <1>1. ASSUME GpuInv, ProgsInv PROVE TeardownIsSafe
    <2>1. Ranges /\ MembersInv
      BY <1>1 DEF GpuInv
    <2>2. \A m \in MemberSet : m \in Released \/ m = "thC0C1"
      BY DEF Released
    <2>3. "src" \in Released /\ "thTarget" \in Released
      BY NineMembers DEF Released
    <2>4. NoDanglingMember
      <3>1. CASE pc = "gone"
        BY <2>1, <2>2, <2>3, <3>1 DEF MembersInv, NoDanglingMember
      <3>2. CASE pc # "gone" /\ image = 0
        BY <2>1, <3>2 DEF Ranges, NoDanglingMember
      <3>3. CASE pc # "gone" /\ image > 0
        <4>1. \A m \in MemberSet : member[m] \in live /\ tex[member[m]].for = m
          BY <2>1, <3>3 DEF MembersInv
        <4>2. \A m, o \in MemberSet : m # o => member[m] # member[o]
          BY <4>1
        <4>3. QED
          BY <3>3, <4>1, <4>2 DEF NoDanglingMember
      <3>4. QED
        BY <2>1, <3>1, <3>2, <3>3 DEF Ranges
    <2>5. NothingInUseDeleted
      <3> SUFFICES ASSUME NEW c \in 1..Len(cmds), cmds[c].state # "done"
                   PROVE  /\ InUse(cmds[c]) \subseteq live
                          /\ cmds[c].run = "download" => staging.name \in buffers
                          /\ cmds[c].run # "download" => cmds[c].run \in progs
        BY DEF NothingInUseDeleted
      <3>1. /\ pc \in Working /\ pc # "gone" /\ image \in Nat \ {0} /\ c \in 1..6
            /\ cmds[c].run = Order[c] /\ Served(cmds[c]) /\ Len(cmds) \in 1..6
        BY <1>1, CommandPending
      <3>2. \A m \in MemberSet : member[m] \in live
        BY <1>1, <3>1, MemberTextures
      <3>3. CASE cmds[c].run = "download"
        <4>1. InUse(cmds[c]) = {member["pTarget"]}
          BY <3>1, <3>3 DEF InUse, Served
        <4>2. c = 6
          BY <3>1, <3>3, OrderIs
        <4>3. pc = "finish"
          <5>1. Len(cmds) = 6 /\ Len(cmds) = Issued(pc)
            BY <1>1, <3>1, <4>2 DEF GpuInv, CmdsInv
          <5>2. Issued(pc) = 6
            BY <5>1
          <5>3. /\ Issued("execute00") # 6 /\ Issued("execute01") # 6 /\ Issued("execute01TH") # 6
                /\ Issued("execute01P") # 6 /\ Issued("execute02") # 6 /\ Issued("download") # 6
            BY IssuedIs
          <5>4. QED
            BY <3>1, <5>2, <5>3, Zenon DEF Working
        <4>4. staging.name \in buffers
          BY <1>1, <4>3 DEF GpuInv, StagingInv
        <4>5. QED
          BY <3>2, <3>3, <4>1, <4>4, NineMembers
      <3>4. CASE cmds[c].run # "download"
        <4>1. cmds[c].run \in {"findBest", "compress", "th", "p", "stitch"}
          BY <3>1, <3>4 DEF Order
        <4>2. \A n \in InUse(cmds[c]) : \E m \in MemberSet : n = member[m]
          <5>1. /\ \A f \in Shaders[cmds[c].run].fetch : cmds[c].units[f[1]] = member[f[2]] /\ f[2] \in MemberSet
                /\ \A l \in Shaders[cmds[c].run].load : cmds[c].uavs[l[1]].tex = member[l[2]] /\ l[2] \in MemberSet
                /\ \A l \in Shaders[cmds[c].run].store : cmds[c].uavs[l[1]].tex = member[l[2]] /\ l[2] \in MemberSet
            BY <3>1, <3>4, <4>1, ShadersMeanMembers DEF Served
          <5>2. QED
            BY <3>4, <5>1 DEF InUse
        <4>3. cmds[c].run \in progs
          <5>1. progs = DOMAIN Shaders
            BY <1>1, <3>1 DEF ProgsInv, Working
          <5>2. QED
            BY <4>1, <5>1 DEF Shaders
        <4>4. QED
          BY <3>2, <3>4, <4>2, <4>3
      <3>5. QED
        BY <3>3, <3>4
    <2>6. OnlyTheseLeft
      BY <2>1 DEF MembersInv, OnlyTheseLeft
    <2>7. QED
      BY <2>4, <2>5, <2>6 DEF TeardownIsSafe
  <1>2. QED
    BY <1>1, EncoderInvariance, ProgsInvariance, PTL
=============================================================================
