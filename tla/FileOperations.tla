---------------------------- MODULE FileOperations -----------------------------
(***************************************************************************)
(* The filesystem operations of filesystem.cpp as sequences of system      *)
(* calls, with other programs changing the file system between any two of  *)
(* them and any call failing.  Two names lead to objects; a link leads to  *)
(* the other name.                                                         *)
(***************************************************************************)
EXTENDS Integers, FiniteSets

CONSTANTS
    MaxOthers,      \* changes other programs make
    MaxPath         \* characters of a canonical path

VARIABLES
    dir,        \* name -> object, 0 when there is none
    obj,        \* object -> what it is
    old,        \* a system without the newer calls
    others,     \* changes made by other programs
    pc, call,   \* the operation under way
    held,       \* object and exclusiveness of the handles it has open
    stats, todo,    \* __std_fs_stats, and the flags still to be filled in
    room,       \* _Buf_count
    ret,        \* what it returned
    did,        \* ghost: changes made by this operation
    late,       \* ghost: others have changed something since it began to look
    seen        \* ghost: objects its path led to during the operation

vars == <<dir, obj, old, others, pc, call, held, stats, todo, room, ret, did, late, seen>>

Names == {"a", "b"}
Other(n) == IF n = "a" THEN "b" ELSE "a"
Objects == 0 .. 2 + MaxOthers + 1
Nothing == [kind |-> "none", ro |-> FALSE, time |-> 0]
Things ==
    [kind : {"file"}, ro : BOOLEAN, time : 0 .. 1]
    \cup [kind : {"dir", "link"}, ro : BOOLEAN, time : {0}]

Plain == {t \in Things : ~t.ro}
Common == {t \in Things : t.ro => t.kind = "file" /\ t.time = 0}     \* what other programs make

Fresh == CHOOSE i \in Objects \ {0} : obj[i] = Nothing
Bare(n) == dir[n]
Followed(n) ==
    IF obj[dir[n]].kind # "link" THEN dir[n]
    ELSE IF obj[dir[Other(n)]].kind = "link" THEN 0 ELSE dir[Other(n)]
At(n, follow) == IF follow THEN Followed(n) ELSE Bare(n)

Flags == {{"attributes", "tag"}, {"size", "time"}, {"attributes", "size", "time", "links"}}
Calls ==
    [op : {"copy"}, n : {"a"}, how : {"none", "skip", "update", "overwrite"}]
    \cup [op : {"remove", "rename", "create_directory", "template", "file_id", "set_time",
                "resize", "space", "temp_path", "symlink", "hard_link"}, n : {"a"}]
    \cup [op : {"permissions"}, n : {"a"}, follow : BOOLEAN, ro : BOOLEAN]
    \cup [op : {"stats"}, n : {"a"}, follow : BOOLEAN, flags : Flags, hinted : BOOLEAN]

Init ==
    /\ \E t \in [Names -> Things \cup {Nothing}] :
          /\ t["b"] \in Plain \cup {Nothing}
          /\ obj = [i \in Objects |-> CASE i = 1 -> t["a"] [] i = 2 -> t["b"] [] OTHER -> Nothing]
          /\ dir = [n \in Names |-> IF t[n] = Nothing THEN 0 ELSE IF n = "a" THEN 1 ELSE 2]
    /\ old \in BOOLEAN /\ others = 0 /\ pc = "idle" /\ call = [op |-> "none", n |-> "a"]
    /\ held = {} /\ stats = [f \in {} |-> 0] /\ todo = {} /\ room = 0
    /\ ret = [flag |-> FALSE, err |-> "none"] /\ did = 0 /\ late = FALSE /\ seen = {}

-----------------------------------------------------------------------------
(* What the path leads to, and what is open, is noted at every step, and   *)
(* changes by others after its first call; copy_file begins to look again  *)
(* when it opens the source.                                               *)
Follow == IF call.op = "stats" THEN call.follow ELSE TRUE
Designated == {obj[At(call.n, Follow)]} \cup {obj[h.id] : h \in held}
Note ==
    /\ seen' = Designated' \cup IF pc = "idle" THEN {} ELSE seen \cup Designated
    /\ late' = IF others' # others THEN pc # "begin" ELSE late /\ pc # "source"

(* Every way out closes the handles (~_Fs_file). *)
Leave(flag, err) ==
    /\ pc' = "done" /\ held' = {} /\ ret' = [flag |-> flag, err |-> err]
    /\ UNCHANGED <<old, others, call, room>>

Return(flag, err) == Leave(flag, err) /\ UNCHANGED <<stats, todo>>

Fails(err) == Return(FALSE, err) /\ UNCHANGED <<dir, obj, did>>

Goto(l) == pc' = l /\ UNCHANGED <<old, others, call, ret>>
Same == UNCHANGED <<dir, obj, did>>
SameStats == UNCHANGED <<stats, todo, room>>

(* A system call that changes an object, or what a name leads to. *)
Change(d, o) == dir' = d /\ obj' = o /\ did' = did + 1
Put(n, thing) == Change([dir EXCEPT ![n] = Fresh], [obj EXCEPT ![Fresh] = thing])
Over(n, thing) ==
    IF dir[n] = 0 THEN Put(n, thing) ELSE Change(dir, [obj EXCEPT ![dir[n]] = thing])

(* CreateFile: sharing fails when the object is open exclusively, and a    *)
(* directory is opened only with backup semantics.                         *)
CanOpen(n, follow) ==
    /\ At(n, follow) # 0
    /\ \A h \in held : h.id = At(n, follow) => ~h.exclusive
Open(n, follow, exclusive) ==
    /\ CanOpen(n, follow) /\ (exclusive => obj[At(n, follow)].kind = "file")
    /\ held' = held \cup {[n |-> n, id |-> At(n, follow), exclusive |-> exclusive]}
OpenError(n, follow) ==
    IF At(n, follow) = 0 THEN {"not_found", "denied"}
    ELSE IF ~CanOpen(n, follow) THEN {"sharing", "denied"} ELSE {"denied"}
Id(n) == (CHOOSE h \in held : h.n = n).id

Invoke ==
    /\ pc = "idle"
    /\ \E c \in Calls :
          /\ call' = c
          /\ stats' = IF c.op = "stats" /\ c.hinted THEN [hint |-> obj[Bare(c.n)]] ELSE stats
    /\ pc' = "begin"
    /\ UNCHANGED <<dir, obj, old, others, held, todo, room, ret, did>>

(* Another program creates, replaces, deletes or changes something it can  *)
(* open.                                                                   *)
Others_change ==
    /\ others < MaxOthers /\ pc \notin {"idle", "done"}
    /\ others' = others + 1
    /\ \E n \in Names :
          /\ \A h \in held : h.id = dir[n] => ~h.exclusive
          /\ \/ dir' = [dir EXCEPT ![n] = 0] /\ UNCHANGED obj
             \/ \E t \in Common : /\ dir' = [dir EXCEPT ![n] = Fresh]
                                  /\ obj' = [obj EXCEPT ![Fresh] = t]
             \/ /\ dir[n] # 0 /\ UNCHANGED dir
                /\ \E t \in Common : t.kind = obj[dir[n]].kind /\ obj' = [obj EXCEPT ![dir[n]] = t]
    /\ UNCHANGED <<old, pc, call, held, stats, todo, room, ret, did>>

Begin(op) == pc = "begin" /\ call.op = op

-----------------------------------------------------------------------------
(* CopyFile reads through links and writes through them. *)
Copies(fail_if_exists) ==
    LET ok == /\ obj[Followed("a")].kind = "file" /\ Followed("a") # Followed("b")
              /\ obj[Followed("b")].kind \in {"none", "file"} /\ ~obj[Followed("b")].ro
              /\ fail_if_exists => dir["b"] = 0
    IN  \/ ok /\ Return(TRUE, "success") /\ Over("b", obj[Followed("a")])
        \/ fail_if_exists /\ dir["b"] # 0 /\ obj[Followed("a")].kind = "file" /\ pc = "begin"
           /\ (IF call.how = "none" THEN Fails("exists")
               ELSE Goto("source") /\ Same /\ SameStats /\ UNCHANGED held)
        \/ \E e \in {"denied", "sharing"} : Fails(e)

Copy_first == Begin("copy") /\ Copies(call.how # "overwrite")

(* Opening both exclusively tells that they are not the same file. *)
Copy_open_source ==
    /\ pc = "source"
    /\ \/ Open("a", TRUE, TRUE) /\ Goto("target") /\ Same /\ SameStats
       \/ \E e \in OpenError("a", TRUE) : Fails(e)

Copy_open_target ==
    /\ pc = "target"
    /\ \/ /\ Open("b", TRUE, TRUE) /\ call.how = "update"
          /\ Goto("times") /\ Same /\ SameStats
       \/ /\ CanOpen("b", TRUE) /\ obj[Followed("b")].kind = "file"
          /\ call.how = "skip" /\ Fails("success")
       \/ \E e \in OpenError("b", TRUE) : Fails(e)

(* The handles are closed before the file is overwritten. *)
Copy_compare ==
    /\ pc = "times"
    /\ \/ obj[Id("a")].time <= obj[Id("b")].time /\ Fails("success")
       \/ /\ obj[Id("a")].time > obj[Id("b")].time
          /\ held' = {} /\ Goto("overwrite") /\ Same /\ SameStats
       \/ Fails("denied")

Copy_over == pc = "overwrite" /\ Copies(FALSE)

-----------------------------------------------------------------------------
(* Operations on a handle: op opens its path, following links or not. *)
Opened(op) == CASE op = "file_id" -> "id" [] op = "set_time" -> "time" [] op = "resize" -> "size"
                [] op = "remove" -> "delete"

Translate_not_found_to_success(e) == IF e = "not_found" THEN "success" ELSE e

Open_path ==
    /\ pc = "begin" /\ call.op \in {"file_id", "set_time", "resize", "remove"}
    /\ LET follow == call.op # "remove"
       IN  \/ /\ Open(call.n, follow, FALSE)
              /\ call.op = "resize" => obj[Followed(call.n)].kind = "file"
              /\ Goto(Opened(call.op)) /\ Same /\ SameStats
           \/ \E e \in OpenError(call.n, follow) :
                 Fails(IF call.op = "remove" THEN Translate_not_found_to_success(e) ELSE e)

Set_by_handle ==
    /\ pc \in {"time", "size"}
    /\ \/ /\ Return(TRUE, "success")
          /\ Change(dir, [obj EXCEPT ![Id(call.n)].time = 1 - @])
       \/ Fails("denied")

(* FileIdInfo, or the older identifier. *)
Get_file_id ==
    /\ pc = "id"
    /\ \/ Fails("success")
       \/ Fails("denied")

(* Deleting by handle fails once somebody else has deleted the object. *)
Deletes ==
    /\ \E n \in Names : dir[n] = Id(call.n)
    /\ Return(TRUE, "success")
    /\ Change([n \in Names |-> IF dir[n] = Id(call.n) THEN 0 ELSE dir[n]], obj)

(* Mutant of Remove_plain: the second try is not looked at. *)
Remove_plain_blind ==
    /\ pc = "plain"
    /\ \/ Deletes
       \/ Return(TRUE, "success") /\ Same

(* The POSIX way and, where it is not known, the other one. *)
Remove_posix ==
    /\ pc = "delete"
    /\ \/ ~old /\ Deletes
       \/ old /\ Goto("plain") /\ Same /\ SameStats /\ UNCHANGED held
       \/ \E e \in {"denied", "not_empty"} : Fails(e)

Remove_plain ==
    /\ pc = "plain"
    /\ \/ Deletes
       \/ \E e \in {"denied", "not_empty"} : Fails(e)

-----------------------------------------------------------------------------
(* __std_fs_change_permissions: the attributes are read by name, and       *)
(* changed by name or, behind a link, by handle.                           *)
Attributes(i) == [kind |-> obj[i].kind, ro |-> obj[i].ro]

Permissions ==
    /\ Begin("permissions")
    /\ LET link == obj[dir[call.n]].kind = "link"
       IN  \/ /\ dir[call.n] # 0 /\ ~(link /\ call.follow)
              /\ \/ obj[dir[call.n]].ro = call.ro /\ Fails("success")
                 \/ /\ obj[dir[call.n]].ro # call.ro
                    /\ stats' = [attributes |-> Attributes(dir[call.n])]
                    /\ Goto("set") /\ Same /\ UNCHANGED <<held, todo, room>>
           \/ /\ link /\ call.follow
              /\ Goto("through") /\ Same /\ SameStats /\ UNCHANGED held
           \/ \E e \in OpenError(call.n, FALSE) : Fails(e)

(* SetFileAttributes with the old attributes, the bit flipped. *)
Permissions_set ==
    /\ pc = "set"
    /\ \/ /\ dir[call.n] # 0 /\ Return(TRUE, "success")
          /\ Change(dir, [obj EXCEPT ![dir[call.n]].ro = ~stats.attributes.ro])
       \/ \E e \in OpenError(call.n, FALSE) : Fails(e)

Permissions_open ==
    /\ pc = "through"
    /\ \/ Open(call.n, TRUE, FALSE) /\ Goto("read") /\ Same /\ SameStats
       \/ \E e \in OpenError(call.n, TRUE) : Fails(e)

Permissions_read ==
    /\ pc = "read"
    /\ \/ obj[Id(call.n)].ro = call.ro /\ Fails("success")
       \/ /\ obj[Id(call.n)].ro # call.ro
          /\ stats' = [attributes |-> Attributes(Id(call.n))]
          /\ Goto("write") /\ Same /\ UNCHANGED <<held, todo, room>>
       \/ Fails("denied")

Permissions_write ==
    /\ pc = "write"
    /\ \/ /\ Return(TRUE, "success")
          /\ Change(dir, [obj EXCEPT ![Id(call.n)].ro = ~stats.attributes.ro])
       \/ Fails("denied")

-----------------------------------------------------------------------------
(* Operations that are one system call. *)
Rename ==
    /\ Begin("rename")
    /\ \/ /\ dir["a"] # 0 /\ Return(TRUE, "success")
          /\ Change([dir EXCEPT !["b"] = dir["a"], !["a"] = 0], obj)
       \/ \E e \in OpenError("a", FALSE) : Fails(e)

Hard_link ==
    /\ Begin("hard_link")
    /\ \/ /\ obj[dir["a"]].kind = "file" /\ dir["b"] = 0 /\ Return(TRUE, "success")
          /\ Change([dir EXCEPT !["b"] = dir["a"]], obj)
       \/ \E e \in {"exists", "denied"} : Fails(e)

(* _Create_symlink: an old system does not know the flag of the first try. *)
Create_symlink ==
    /\ Begin("symlink") \/ pc = "again"
    /\ \/ /\ dir["a"] = 0 /\ (pc = "begin" => ~old) /\ Return(TRUE, "success")
          /\ Put("a", [kind |-> "link", ro |-> FALSE, time |-> 0])
       \/ pc = "begin" /\ old /\ Goto("again") /\ Same /\ SameStats /\ UNCHANGED held
       \/ \E e \in {"exists", "denied"} : Fails(e)

Create_directory_template ==
    /\ Begin("template")
    /\ \/ /\ dir["a"] = 0 /\ Return(TRUE, "success")
          /\ Put("a", [kind |-> "dir", ro |-> FALSE, time |-> 0])
       \/ dir["a"] # 0 /\ Fails("success")
       \/ Fails("denied")

-----------------------------------------------------------------------------
(* __std_fs_get_stats.  A field is what the object has under that name.    *)
Field(f, o) ==
    CASE f = "attributes" -> [kind |-> o.kind, ro |-> o.ro]
      [] f \in {"time", "size"} -> o.time
      [] f = "links" -> 1
      [] f = "tag" -> o.kind = "link"

Filled(fs, o) ==
    [f \in DOMAIN stats \cup fs |-> IF f \in fs THEN Field(f, o) ELSE stats[f]]

Get_file_attributes_data == {"attributes", "size", "time"}

Basic_info_data == {"attributes", "time"}
Attribute_tag_info_data == {"attributes", "tag"}
Standard_info_data == {"size", "links"}

(* What a class of information holds. *)
Provides ==
    [name |-> {"attributes", "size", "time"}, basic |-> {"attributes", "time"},
     tag |-> {"attributes", "tag"}, standard |-> {"size", "links"}]

(* With nothing left to find out the operation returns; creating a         *)
(* directory wanted to know whether there is one already.                  *)
Continue(l) ==
    IF todo' # {} THEN Goto(l) /\ UNCHANGED <<held, room>>
    ELSE Leave(FALSE, IF call.op = "create_directory" /\ stats'.attributes.kind # "dir"
                      THEN "exists" ELSE "success")

(* The hint is what the caller has known the attributes of the name to be: *)
(* they may be those of a link, and of what is gone by now.                *)
Get_stats ==
    /\ Begin("stats")
    /\ \/ call.follow /\ "tag" \in call.flags /\ Fails("invalid_parameter")
       \/ /\ ~(call.follow /\ "tag" \in call.flags)
          /\ LET hint == IF call.hinted THEN stats.hint ELSE Nothing
                 plain == hint.kind # "link" \/ ~call.follow
                 given == hint # Nothing /\ plain /\ "attributes" \in call.flags
                IN  /\ stats' = [f \in IF given THEN {"attributes"} ELSE {} |-> Field(f, hint)]
                    /\ todo' = IF given THEN call.flags \ {"attributes"} ELSE call.flags
                    /\ Same
                    /\ Continue(IF todo' \cap Get_file_attributes_data # {} /\ plain
                                THEN "by_name" ELSE "open")

Stats_by_name ==
    /\ pc = "by_name"
    /\ \/ /\ dir[call.n] # 0 /\ (~Follow \/ obj[dir[call.n]].kind # "link")
          /\ stats' = Filled(Provides.name, obj[dir[call.n]])
          /\ todo' = todo \ Get_file_attributes_data
          /\ Same /\ Continue("open")
       \/ /\ Follow /\ obj[dir[call.n]].kind = "link"
          /\ Goto("open") /\ Same /\ SameStats /\ UNCHANGED held
       \/ \E e \in OpenError(call.n, FALSE) : Fails(e)

Stats_open ==
    /\ pc = "open"
    /\ \/ Open(call.n, Follow, FALSE) /\ Goto("info") /\ Same /\ SameStats
       \/ \E e \in OpenError(call.n, Follow) : Fails(e)

Stats_info ==
    /\ pc = "info"
    /\ LET Take(c, data) ==
              /\ stats' = Filled(Provides[c], obj[Id(call.n)])
              /\ todo' = todo \ data
              /\ Same /\ Continue("info")
           basic == todo # Attribute_tag_info_data /\ todo \cap Basic_info_data # {}
           tag == ~basic /\ todo \cap Attribute_tag_info_data # {}
       IN  \/ basic /\ Take("basic", Basic_info_data)
           \/ tag /\ Take("tag", Attribute_tag_info_data)
           \/ ~basic /\ ~tag /\ Take("standard", Standard_info_data)
           \/ Fails("denied")

Create_directory ==
    /\ Begin("create_directory")
    /\ \/ /\ dir["a"] = 0 /\ Return(TRUE, "success")
          /\ Put("a", [kind |-> "dir", ro |-> FALSE, time |-> 0])
       \/ /\ dir["a"] # 0 /\ todo' = {"attributes"} /\ UNCHANGED <<stats, held, room>>
          /\ Goto("by_name") /\ Same
       \/ Fails("denied")

-----------------------------------------------------------------------------
(* __std_fs_space: a file is replaced by the directory it is in, from its  *)
(* canonical path.                                                         *)
MAX_PATH == 3
Prefix == 1

Space ==
    /\ Begin("space")
    /\ \/ obj[Followed("a")].kind = "dir" /\ Fails("success")
       \/ /\ obj[Followed("a")].kind = "file"
          /\ Goto("canonical") /\ Same /\ SameStats /\ UNCHANGED held
       \/ \E e \in OpenError("a", TRUE) : Fails(e)

Space_open ==
    /\ pc = "canonical"
    /\ \/ /\ Open("a", TRUE, FALSE) /\ room' = MAX_PATH
          /\ Goto("grow") /\ Same /\ UNCHANGED <<stats, todo>>
       \/ \E e \in OpenError("a", TRUE) : Fails(e)

Fits(actual) == actual <= room

(* GetFinalPathNameByHandle returns the length, or the size to come back   *)
(* with; the object may have been moved meanwhile.                         *)
Space_grow ==
    /\ pc = "grow"
    /\ \/ \E len \in 1 .. MaxPath :
             LET actual == Prefix + IF len < room - Prefix THEN len ELSE len + 1
             IN  \/ /\ Fits(actual) /\ held' = {} /\ stats' = [length |-> len]
                    /\ Goto("strip") /\ Same /\ UNCHANGED <<todo, room>>
                 \/ /\ ~Fits(actual) /\ room' = actual
                    /\ Goto("grow") /\ Same /\ UNCHANGED <<held, stats, todo>>
       \/ \E e \in {"denied", "no_memory"} : Fails(e)

Space_strip ==
    /\ pc = "strip"
    /\ \E e \in {"success", "denied"} : Fails(e)

(* __std_fs_get_temp_path: "max" when there is no such directory. *)
Temp_path ==
    /\ Begin("temp_path")
    /\ \/ Fails("denied")
       \/ dir["a"] = 0 /\ Fails("max")
       \/ obj[dir["a"]].kind \in {"file", "link"} /\ Fails("max")     \* also a link to files
       \/ obj[dir["a"]].kind = "dir" /\ Fails("success")
       \/ /\ obj[dir["a"]].kind = "link"
          /\ Goto("resolve") /\ Same /\ SameStats /\ UNCHANGED held

Temp_path_resolve ==
    /\ pc = "resolve"
    /\ \/ Followed("a") # 0 /\ Fails("success")
       \/ Fails("max")

-----------------------------------------------------------------------------
Step ==
    \/ Invoke \/ Others_change
    \/ Copy_first \/ Copy_open_source \/ Copy_open_target \/ Copy_compare \/ Copy_over
    \/ Open_path \/ Set_by_handle \/ Get_file_id \/ Remove_posix \/ Remove_plain
    \/ Permissions \/ Permissions_set \/ Permissions_open \/ Permissions_read
    \/ Permissions_write
    \/ Rename \/ Hard_link \/ Create_symlink \/ Create_directory_template
    \/ Get_stats \/ Stats_by_name \/ Stats_open \/ Stats_info \/ Create_directory
    \/ Space \/ Space_open \/ Space_grow \/ Space_strip \/ Temp_path \/ Temp_path_resolve

Next == Step /\ Note

Spec == Init /\ [][Next]_vars

-----------------------------------------------------------------------------
(* What an operation leaves when nobody else has changed anything. *)
Effect ==
    CASE call.op = "remove" -> dir["a"] = 0
      [] call.op = "permissions" -> obj[At("a", call.follow)].ro = call.ro
      [] call.op = "create_directory" -> obj[Followed("a")].kind = "dir"
      [] call.op = "rename" -> dir["a"] = 0 /\ dir["b"] # 0
      [] call.op = "hard_link" -> dir["a"] = dir["b"]
      [] call.op = "copy" ->
            /\ obj[Followed("a")].kind = "file" /\ obj[Followed("b")].kind = "file"
            /\ ret.flag => obj[Followed("a")].time = obj[Followed("b")].time
            /\ call.how = "update" => obj[Followed("a")].time <= obj[Followed("b")].time
      [] OTHER -> TRUE

(* An operation that reports an error has changed nothing and one that     *)
(* reports a change has made exactly one, however many calls it fell back  *)
(* on; when it reports success and nobody has interfered since it began to *)
(* look, its effect is there.  An update overwrites only what is older     *)
(* than the source, unless others have changed one since it opened them.   *)
ResultsTrue ==
    /\ pc = "overwrite" /\ ~late => obj[Followed("a")].time > obj[Followed("b")].time
    /\ pc = "done" =>
        /\ did = (IF ret.flag THEN 1 ELSE 0)
        /\ ret.flag => ret.err = "success"
        /\ ret.err = "success" /\ ~late => Effect

(* Statistics that are reported are all those asked for, and each is one   *)
(* that the file had, behind links or not as was asked, during the call or *)
(* when the hint was learnt, whichever of the four sources it is from.     *)
StatsTrue ==
    pc = "done" /\ call.op = "stats" /\ ret.err = "success" =>
        \A f \in call.flags :
            /\ f \in DOMAIN stats
            /\ \E o \in seen \ {Nothing} : stats[f] = Field(f, o)

(* The canonical path and its terminator fit the buffer they are cut in. *)
PathFits == pc = "strip" => Prefix + stats.length < room

=============================================================================
