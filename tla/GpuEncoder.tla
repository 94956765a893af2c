----------------------------- MODULE GpuEncoder -----------------------------
(***************************************************************************)
(* betsy's EncoderETC2 as BlockDataGPU uses it: no alpha, no dithering, the *)
(* shaders compiled once, then one texture set per GPU image.              *)
(*                                                                         *)
(* The CPU binds textures and issues commands; the GPU runs them later.  A *)
(* dispatch samples its textures and then accesses its images.  GL orders  *)
(* what shaders store before a later access only through glMemoryBarrier,  *)
(* and only for the kinds of access that the barrier names:                *)
(*   "fetch"   GL_TEXTURE_FETCH_BARRIER_BIT         sampling a texture     *)
(*   "image"   GL_SHADER_IMAGE_ACCESS_BARRIER_BIT   imageLoad, imageStore  *)
(*   "update"  GL_TEXTURE_UPDATE_BARRIER_BIT        glGetTexImage          *)
(* Bindings outlive the dispatch they were made for.                       *)
(***************************************************************************)
EXTENDS Naturals, Sequences, FiniteSets

CONSTANT MaxImages      \* GPU images in the life of one encoder

ASSUME GpuAssumption == MaxImages \in Nat

\* The textures of a set; m_ditheredTexture is m_srcTexture.
Members ==
    << "src", "compressTarget", "etc1Error", "dst", "thTarget", "thError", "thC0C1",
       "pTarget", "pError" >>
MemberSet == {Members[i] : i \in 1..Len(Members)}
Count == Len(Members)

VARIABLES
    pc,         \* the next call of the CPU
    image,      \* GPU images so far
    member,     \* MemberSet -> name of a texture, 0 for none
    tex,        \* sequence: per name [for, image, stored], stored: shaders that wrote to it
    live,       \* names that are not deleted
    unit,       \* texture units 0..4 -> name
    uav,        \* image units 0..2 -> [tex, access]
    progs,      \* live programs
    cmds,       \* commands for this image: [run, units, uavs, after, state]
    seen,       \* the accesses to textures so far for this image
    barrier,    \* kind -> commands that accesses of the kind have to follow
    buffers,    \* live download buffers
    staging,    \* [name, from]: m_downloadStaging and the texture in it
    saved       \* what saveToOffset wrote last: the bytes of a word and their texture

vars == <<pc, image, member, tex, live, unit, uav, progs, cmds, seen, barrier, buffers, staging, saved>>
cpuVars == <<pc, image, member, live, unit, uav, progs, buffers, saved>>

NoTex == [for |-> "none", image |-> 0, stored |-> {}]
NoStaging == [name |-> 0, from |-> NoTex]
NoWord == [bytes |-> <<>>, from |-> NoTex]
Texture(n) == IF n = 0 THEN NoTex ELSE tex[n]

\* Samplers and images that the shaders declare: <<unit, the member meant>>.
Shaders ==
    [ findBest |-> [ fetch |-> {<<0, "src">>}, load |-> {}, store |-> {<<0, "thC0C1">>} ],
      compress |-> [ fetch |-> {<<0, "src">>}, load |-> {},
                     store |-> {<<0, "compressTarget">>, <<2, "etc1Error">>} ],
      th       |-> [ fetch |-> {<<0, "src">>}, load |-> {<<2, "thC0C1">>},
                     store |-> {<<0, "thTarget">>, <<1, "thError">>} ],
      p        |-> [ fetch |-> {<<0, "src">>}, load |-> {},
                     store |-> {<<0, "pTarget">>, <<1, "pError">>} ],
      stitch   |-> [ fetch |-> {<<0, "etc1Error">>, <<1, "thError">>, <<2, "pError">>,
                                <<3, "compressTarget">>, <<4, "thTarget">>},
                     load |-> {<<0, "pTarget">>}, store |-> {<<0, "pTarget">>} ] ]

\* The shader whose result an access has to see.
Writer(m) ==
    CASE m = "compressTarget" -> "compress" [] m = "etc1Error" -> "compress"
      [] m = "thTarget" -> "th" [] m = "thError" -> "th" [] m = "thC0C1" -> "findBest"
      [] m = "pTarget" -> "p" [] m = "pError" -> "p" [] OTHER -> "upload"

Init ==
    /\ pc = "compile" /\ image = 0
    /\ member = [m \in MemberSet |-> 0]
    /\ tex = <<>> /\ live = {}
    /\ unit = [u \in 0..4 |-> 0]
    /\ uav = [u \in 0..2 |-> [tex |-> 0, access |-> "none"]]
    /\ progs = {} /\ cmds = <<>> /\ seen = {}
    /\ barrier = [k \in {"fetch", "image", "update"} |-> {}]
    /\ buffers = {} /\ staging = NoStaging /\ saved = NoWord
-----------------------------------------------------------------------------
(* The CPU                                                                 *)

\* BlockDataGPU::setEncodingEnv
EncoderShaderCompile ==
    /\ pc = "compile"
    /\ progs' = DOMAIN Shaders
    /\ pc' = "idle"
    /\ UNCHANGED <<image, member, tex, live, unit, uav, cmds, seen, barrier, buffers, staging, saved>>

\* The textures are created again for every image, whatever the members name.
\* createTexture leaves its texture bound to unit 0.
InitResources ==
    LET base == Len(tex)
    IN  /\ pc = "idle" /\ image < MaxImages
        /\ image' = image + 1
        /\ tex' = tex \o [i \in 1..Count |->
                            [for |-> Members[i], image |-> image',
                             stored |-> IF Members[i] = "src" THEN {"upload"} ELSE {}]]
        /\ member' = [m \in MemberSet |-> base + (CHOOSE i \in 1..Count : Members[i] = m)]
        /\ live' = live \union (base + 1)..(base + Count)
        /\ unit' = [unit EXCEPT ![0] = member'["pError"]]
        /\ cmds' = <<>> /\ seen' = {}
        /\ barrier' = [k \in DOMAIN barrier |-> {}]
        /\ pc' = "execute00"
        /\ UNCHANGED <<uav, progs, buffers, staging, saved>>

\* glDispatchCompute with the bindings of this moment
Dispatch(s, units, uavs, after) ==
    Append(cmds, [run |-> s, units |-> units, uavs |-> uavs, after |-> after, state |-> "issued"])

\* glMemoryBarrier after the commands in c
MemoryBarrier(kinds, c) ==
    [k \in DOMAIN barrier |-> IF k \in kinds THEN 1..Len(c) ELSE barrier[k]]

BindUnits(map) == [u \in 0..4 |-> IF u \in DOMAIN map THEN member[map[u]] ELSE unit[u]]
BindUavs(map, access) ==
    [u \in 0..2 |-> IF u \in DOMAIN map THEN [tex |-> member[map[u]], access |-> access] ELSE uav[u]]

\* One bind-and-dispatch of an execute function.
Issue(s, units, uavs, before, next) ==
    /\ s \in progs
    /\ unit' = units /\ uav' = uavs
    /\ cmds' = Dispatch(s, units, uavs, before)
    /\ pc' = next
    /\ UNCHANGED <<image, member, tex, live, progs, seen, buffers, staging, saved>>

At(u, m) == [x \in {u} |-> m]

Execute00Units_Kept == unit
Execute00Units == BindUnits(At(0, "src"))
Execute00Barrier_None == {}
Execute00Barrier == {"image"}
Execute00 ==
    /\ pc = "execute00"
    /\ Issue("findBest", Execute00Units, BindUavs(At(0, "thC0C1"), "write"), barrier, "execute01")
    /\ barrier' = MemoryBarrier(Execute00Barrier, cmds')

Execute01Etc1 ==
    /\ pc = "execute01"
    /\ Issue("compress", BindUnits(At(0, "src")),
             BindUavs([u \in {0, 2} |-> IF u = 0 THEN "compressTarget" ELSE "etc1Error"], "write"),
             barrier, "execute01TH")
    /\ UNCHANGED barrier

Execute01TH ==
    /\ pc = "execute01TH"
    /\ Issue("th", BindUnits(At(0, "src")),
             BindUavs([u \in 0..2 |-> <<"thTarget", "thError", "thC0C1">>[u + 1]], "write"), barrier, "execute01P")
    /\ UNCHANGED barrier

\* unit 0 is still bound to the pixels
Execute01P ==
    /\ pc = "execute01P"
    /\ Issue("p", unit,
             BindUavs([u \in {0, 1} |-> IF u = 0 THEN "pTarget" ELSE "pError"], "write"),
             barrier, "execute02")
    /\ UNCHANGED barrier

Execute02Kinds == {"update", "image"}
Execute02 ==
    /\ pc = "execute02"
    /\ barrier' = MemoryBarrier(Execute02Kinds, cmds)
    /\ Issue("stitch",
             BindUnits([u \in 0..4 |->
                 <<"etc1Error", "thError", "pError", "compressTarget", "thTarget">>[u + 1]]),
             BindUavs(At(0, "pTarget"), "readwrite"), barrier', "download")

\* getDownloadData: the buffer of the image before is replaced.
GetDownloadData ==
    /\ pc = "download"
    /\ barrier' = MemoryBarrier({"update", "image"}, cmds)
    /\ unit' = [unit EXCEPT ![0] = member["pTarget"]]
    /\ cmds' = Dispatch("download", unit', uav, barrier')
    /\ buffers' = (buffers \ {staging.name}) \union {image}
    /\ staging' = [name |-> image, from |-> NoTex]
    /\ pc' = "finish"
    /\ UNCHANGED <<image, member, tex, live, uav, progs, seen, saved>>

\* saveToOffset puts the bytes of a result together in the order
\* 0 1 2 3 7 6 5 4, and FixByteOrder turns the upper four around.
FixByteOrder_AsIs(d) == d
FixByteOrder(d) == SubSeq(d, 1, 4) \o <<d[8], d[7], d[6], d[5]>>
PackedWord(r) == <<r[1], r[2], r[3], r[4], r[8], r[7], r[6], r[5]>>

\* glFinish returns, and the words are written to their addresses.
Finished_NotAwaited == TRUE
Finished == \A c \in 1..Len(cmds) : cmds[c].state = "done"
FinishAndSave ==
    /\ pc = "finish" /\ Finished
    /\ saved' = [bytes |-> FixByteOrder(PackedWord(<<0, 1, 2, 3, 4, 5, 6, 7>>)), from |-> staging.from]
    /\ pc' = "idle"
    /\ UNCHANGED <<image, member, tex, live, unit, uav, progs, cmds, seen, barrier, buffers, staging>>

\* Members whose textures EncoderETC2::deinitResources and then
\* EncoderETC1::deinitResources delete and set to 0.
Released_NotThError == MemberSet \ {"thC0C1", "thError"}
Released == MemberSet \ {"thC0C1"}
Reset_NotTh == Released \ {"thTarget"}
Reset == Released

\* ~BlockDataGPU, then the destructors of the encoders
DeinitResources ==
    /\ pc = "idle"
    /\ live' = live \ {member[m] : m \in Released}
    /\ member' = [m \in MemberSet |-> IF m \in Reset THEN 0 ELSE member[m]]
    /\ progs' = {"stitch"}
    /\ buffers' = buffers \ {staging.name}
    /\ pc' = "gone"
    /\ UNCHANGED <<image, tex, unit, uav, cmds, seen, barrier, staging, saved>>
-----------------------------------------------------------------------------
(* The GPU                                                                 *)

Followed(c, kind) == \A d \in cmds[c].after[kind] : cmds[d].state = "done"

Access(c, via, n, m, access) ==
    [by |-> cmds[c].run, via |-> via, want |-> m, tex |-> Texture(n), live |-> n \in live, access |-> access]

\* A dispatch samples its textures.
Fetch(c) ==
    /\ cmds[c].state = "issued" /\ cmds[c].run # "download"
    /\ Followed(c, "fetch")
    /\ seen' = seen \union
          {Access(c, "fetch", cmds[c].units[f[1]], f[2], "read") : f \in Shaders[cmds[c].run].fetch}
    /\ cmds' = [cmds EXCEPT ![c].state = "sampled"]
    /\ UNCHANGED <<cpuVars, tex, barrier, staging>>

\* It then loads and stores its images.
LoadAndStore(c) ==
    LET u == cmds[c].uavs
    IN  /\ cmds[c].state = "sampled" /\ Followed(c, "image")
        /\ LET s == Shaders[cmds[c].run]
           IN  /\ seen' = seen \union
                     {Access(c, "image", u[l[1]].tex, l[2], u[l[1]].access) : l \in s.load} \union
                     {Access(c, "store", u[l[1]].tex, l[2], u[l[1]].access) : l \in s.store}
               /\ tex' = [n \in DOMAIN tex |->
                            IF \E l \in s.store : u[l[1]].tex = n
                              THEN [tex[n] EXCEPT !.stored = @ \union {cmds[c].run}] ELSE tex[n]]
        /\ cmds' = [cmds EXCEPT ![c].state = "done"]
        /\ UNCHANGED <<cpuVars, barrier, staging>>

\* glGetTexImage into the download buffer
Download(c) ==
    /\ cmds[c].state = "issued" /\ cmds[c].run = "download"
    /\ Followed(c, "update")
    /\ seen' = seen \union {Access(c, "update", cmds[c].units[0], "pTarget", "read")}
    /\ staging' = [staging EXCEPT !.from = Texture(cmds[c].units[0])]
    /\ cmds' = [cmds EXCEPT ![c].state = "done"]
    /\ UNCHANGED <<cpuVars, tex, barrier>>

Gone == pc = "gone" /\ UNCHANGED vars

Next ==
    \/ EncoderShaderCompile \/ InitResources \/ Execute00 \/ Execute01Etc1 \/ Execute01TH
    \/ Execute01P \/ Execute02 \/ GetDownloadData \/ FinishAndSave \/ DeinitResources
    \/ \E c \in 1..Len(cmds) : Fetch(c) \/ LoadAndStore(c) \/ Download(c)
    \/ Gone

Spec == Init /\ [][Next]_vars
-----------------------------------------------------------------------------
(* Properties                                                              *)

\* Whatever the units were bound to before, every access of every shader goes
\* to the texture it means, of this image, and not to a deleted one.  Unit 0
\* changes hands six times an image, and the shader of the P mode relies on the
\* binding that the one of the T and H modes left.  Stores find their image
\* bound for writing, and the selector, which also loads its target, for both;
\* the load of the T and H modes finds c0c1Texture bound for writing only.
RightTexture ==
    \A a \in seen :
        /\ a.live /\ a.tex.for = a.want /\ a.tex.image = image
        /\ a.via = "store" => a.access # "read"
        /\ a.via = "image" => a.access = "readwrite" \/ a.want = "thC0C1"

\* What a shader loads from an image, and what is downloaded, is complete: the
\* colours of the T and H modes are found before they are tried, the selector
\* has the word of the P mode, and only the selector's result leaves the GPU.
LoadsAreWritten ==
    \A a \in seen :
        /\ a.via = "image"  => Writer(a.want) \in a.tex.stored
        /\ a.via = "update" => "stitch" \in a.tex.stored

\* The words that are written to the output are the download of this image,
\* byte for byte.
SavedIsDownload ==
    (pc = "idle" /\ image > 0) =>
        /\ saved.bytes = <<0, 1, 2, 3, 4, 5, 6, 7>>
        /\ saved.from.for = "pTarget" /\ saved.from.image = image
        /\ staging.name \in buffers

\* The encoder's members name live textures, each another one, and so nothing
\* can be deleted twice; the assertions in the two destructors hold.
NoDanglingMember ==
    /\ \A m \in MemberSet : member[m] # 0 => member[m] \in live
    /\ \A m, o \in MemberSet : (m # o /\ member[m] # 0) => member[m] # member[o]
    /\ pc = "gone" => member["src"] = 0 /\ member["thTarget"] = 0

\* The textures that a command is still going to access
InUse(r) ==
    IF r.run = "download" THEN {r.units[0]}
    ELSE {r.units[f[1]] : f \in Shaders[r.run].fetch} \union
         {r.uavs[l[1]].tex : l \in Shaders[r.run].load \union Shaders[r.run].store}

\* Nothing that the GPU still has to run is deleted, nor what it accesses.
NothingInUseDeleted ==
    \A c \in 1..Len(cmds) :
        cmds[c].state # "done" =>
            /\ InUse(cmds[c]) \subseteq live
            /\ IF cmds[c].run = "download" THEN staging.name \in buffers ELSE cmds[c].run \in progs

\* The destructors do not delete everything.  m_thModesC0C1 and m_stitchPso are
\* left although members still name them (the base class deletes m_stitchPso only
\* together with m_eacPso), and so are the textures of all images but the last,
\* which no member names any more.  This is all that is left.
OnlyTheseLeft ==
    pc = "gone" =>
        /\ \A n \in live : tex[n].image < image \/ n = member["thC0C1"]
        /\ buffers = {} /\ progs = {"stitch"}

\* Teardown, after any number of images: nothing is deleted twice or while a
\* command of the GPU is going to use it, no member is left to name something
\* deleted, and no more is leaked than the textures of earlier images,
\* m_thModesC0C1 and m_stitchPso.
TeardownIsSafe == NoDanglingMember /\ NothingInUseDeleted /\ OnlyTheseLeft

\* What the selector samples has been written by the shaders of this image.
FetchesAreWritten ==
    \A a \in seen : a.via = "fetch" => Writer(a.want) \in a.tex.stored
=============================================================================
