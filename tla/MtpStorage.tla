------------------------------ MODULE MtpStorage ------------------------------
(***************************************************************************)
(* The object database of Nuqe: what mtp::StorageManager and mtp::Storage  *)
(* keep (objects, known_paths, the handle counter) and how each MTP        *)
(* request that reaches it changes it and the file system underneath.      *)
(* Requests are served one at a time by one thread, so one action is one   *)
(* whole request: the Server method, the Storage method, the fs calls.     *)
(***************************************************************************)
EXTENDS Filesystem, Functions, FiniteSets

CONSTANTS
  Storages,      (* the registered storages (StorageId)                     *)
  InitFs,        (* [Storages -> file system], the contents at start        *)
  Names,         (* file names the host sends, each a sequence of tokens    *)
  Depths,        (* the depths the host asks property lists for             *)
  StrayHandles,  (* handles a host may name as a parent though no object of *)
                 (* the storage has them; {} for a host that keeps track    *)
  RootHandle,    (* mtp_storage.hpp: root_handle, 0xffffffff in the code    *)
  MaxHandle,     (* bound: handles the counter may give out                 *)
  MaxPath,       (* bound: tokens in a path                                 *)
  MaxChanges,    (* bound: requests other than listings that the host makes *)
  Null,          (* the null Object pointer, and a moved-from Storage       *)
  Dangling       (* a pointer to an Object that no longer exists            *)

(* What a path is made of: separators and pieces of names.                   *)
Tokens == {Sep} \cup STRING

(* A name, and a path below the root as the file system keeps it: not empty, *)
(* and without a separator at its end.                                       *)
IsName(n) == n \in Seq(Tokens) /\ n # <<>> /\ Last(n) # Sep

ASSUME PathAssumption ==
  \A s \in Storages : \A p \in DOMAIN InitFs[s] : p = RootPath \/ IsName(p)

ASSUME StorageAssumption ==
  /\ MaxHandle \in Nat /\ RootHandle \in Nat /\ MaxHandle < RootHandle
  /\ MaxPath \in Nat /\ MaxChanges \in Nat
  /\ Null \notin Nat /\ Dangling \notin Nat /\ Null # Dangling
  /\ StrayHandles \subseteq Nat
  /\ Depths \subseteq Nat
  /\ DOMAIN InitFs = Storages
  /\ \A s \in Storages : \A p \in DOMAIN InitFs[s] : InitFs[s][p] \in Kinds

VARIABLES
  fs,            (* [Storages -> file system]                               *)
  objects,       (* [Storages -> map from handles to Object records]        *)
  known_paths,   (* [Storages -> map from paths to handles]                 *)
  s_handle,      (* Object::s_handle, the last handle given out             *)
  last_sent,     (* Server::last_sent_storage and last_sent_object          *)
  response,      (* the code of the last response                           *)
  displaced,     (* history: <<storage, handle>> of every object whose path *)
                 (* was rewritten (moved, renamed) or made by a copy        *)
  changes        (* the requests counted against MaxChanges                 *)

vars == <<fs, objects, known_paths, s_handle, last_sent, response, displaced,
          changes>>

Codes == {"OK", "General_Error", "Invalid_ObjectHandle", "Store_Not_Available",
          "Object_WriteProtected", "Access_Denied", "Incomplete_Transfer"}

-------------------------------------------------------------------------------
(* Objects and the maps that hold them.                                      *)

NewObject(kind, name, path, handle, parent) ==
  [kind |-> kind, name |-> name, path |-> path, handle |-> handle,
   parent |-> parent]

RootObject == NewObject("dir", <<>>, RootPath, RootHandle, Null)

(* What operator[] of the objects map inserts for an absent key: a default   *)
(* Object, whose handle is whatever the counter holds.                       *)
DefaultObject == NewObject("file", <<>>, <<>>, s_handle, Null)

(* Object::new_handle.  The counter's wrap-around is out of MaxHandle's reach. *)
ReusedHandle == s_handle
NewHandle == s_handle + 1

(* map[key] = value                                                          *)
Assign(map, key, value) ==
  [k \in DOMAIN map \cup {key} |-> IF k = key THEN value ELSE map[k]]

(* Reading objects[h] through operator[].                                    *)
Touch(objs, h) == IF h \in DOMAIN objs THEN objs ELSE Assign(objs, h, DefaultObject)

(* Directories end in a slash once they are cached or sent.                  *)
Unterminated(path, kind) == path
Terminated(path, kind) == IF kind = "dir" THEN path \o RootPath ELSE path

(* StorageManager::find_handle, over the storages in no particular order.    *)
Holders(h) == {s \in Storages : h \in DOMAIN objects[s]}

Init ==
  /\ fs = InitFs
  /\ objects = [s \in Storages |-> [h \in {RootHandle} |-> RootObject]]
  /\ known_paths = [s \in Storages |-> [p \in {RootPath} |-> RootHandle]]
  /\ s_handle = 0
  /\ last_sent = Null
  /\ response = "OK"
  /\ displaced = {}
  /\ changes = 0

-------------------------------------------------------------------------------
(* Storage::cache_directory                                                  *)

(* The entries found when the directories dirs are listed, starting from the *)
(* one with handle h.  The path an entry is looked up by is its directory's  *)
(* recorded path followed by its name.  The recursive call gets the address  *)
(* of a copy of the object on the stack, so what it caches has a parent      *)
(* pointer that dangles when it returns: only h itself is live.              *)
FoundUnderRoot(s, h, dirs) ==
  UNION {{NewObject(fs[s][c], BaseName(c), d.path \o BaseName(c), 0, RootHandle) :
            c \in Entries(fs[s], d.path)} : d \in dirs}
Found(s, h, dirs) ==
  UNION {{NewObject(fs[s][c], BaseName(c), d.path \o BaseName(c), 0,
                    IF d.live THEN h ELSE Dangling) :
            c \in Entries(fs[s], d.path)} : d \in dirs}

(* The directories one level further down, by the path their object records. *)
Below(s, h, dirs) ==
  LET known(e) == e.path \in DOMAIN known_paths[s]
      Obj(e)   == objects[s][known_paths[s][e.path]]
      found    == Found(s, h, dirs)
  IN  {[path |-> Obj(e).path, live |-> FALSE] :
         e \in {x \in found : known(x) /\ Obj(x).kind = "dir"}}
      \cup
      {[path |-> Terminated(e.path, "dir"), live |-> FALSE] :
         e \in {x \in found : ~known(x) /\ x.kind = "dir"}}

(* Every directory that is listed when depth levels are asked for.           *)
ListedByCopy(s, h, depth) ==
  IF depth = 0 THEN {} ELSE {[path |-> objects[s][h].path, live |-> FALSE]}
Listed(s, h, depth) ==
  LET top == {[path |-> objects[s][h].path, live |-> TRUE]}
      level[k \in 1..depth] ==
        IF k = 1 THEN top ELSE Below(s, h, level[k - 1])
  IN  IF depth = 0 THEN {} ELSE top \cup UNION {level[k] : k \in 2..depth}

(* Each path met for the first time gets the next handle, in whatever order  *)
(* the file system lists the entries; it is registered without the slash the *)
(* object gets.  entry[i] is the entry that gets the handle i.                *)
CacheDirectory(s, h, depth) ==
  LET fresh == {e \in Found(s, h, Listed(s, h, depth)) :
                  e.path \notin DOMAIN known_paths[s]}
      paths == {e.path : e \in fresh}
      n     == Cardinality(paths)
      new   == (s_handle + 1)..(s_handle + n)
  IN  /\ n \in 0..(MaxHandle - s_handle)
      /\ s_handle' = s_handle + n
      /\ \E entry \in [new -> fresh] :
           LET Handle(p) == CHOOSE i \in new : entry[i].path = p
               Made(i)   == [entry[i] EXCEPT
                               !.path = Terminated(@, entry[i].kind),
                               !.handle = i]
           IN  /\ {entry[i].path : i \in new} = paths
               /\ known_paths' = [known_paths EXCEPT ![s] =
                    [p \in DOMAIN @ \cup paths |->
                       IF p \in paths THEN Handle(p) ELSE @[p]]]
               /\ objects' = [objects EXCEPT ![s] =
                    [i \in DOMAIN @ \cup new |->
                       IF i \in new THEN Made(i) ELSE @[i]]]

-------------------------------------------------------------------------------
(* The requests.                                                             *)

GetObjectHandles(s, h) ==
  /\ IF h \in DOMAIN objects[s]
     THEN /\ CacheDirectory(s, h, 1)
          /\ response' = "OK"
     ELSE /\ response' = "Invalid_ObjectHandle"
          /\ UNCHANGED <<objects, known_paths, s_handle>>
  /\ UNCHANGED <<fs, last_sent, displaced>>

(* Depth 0 asks for the object itself, and lists nothing.                    *)
GetObjectPropList(h, depth) ==
  /\ \E s \in Holders(h) : CacheDirectory(s, h, depth)
  /\ response' = "OK"
  /\ UNCHANGED <<fs, last_sent, displaced>>

(* A parent handle without an object makes a default one.  A failure to      *)
(* create the file is logged and the object is registered all the same.      *)
SendObjectInfo(s, parent_handle, name, kind) ==
  LET objs   == Touch(objects[s], parent_handle)
      dest   == objs[parent_handle].path \o name
      handle == NewHandle
      obj    == NewObject(kind, name, Terminated(dest, kind), handle,
                          parent_handle)
  IN  /\ handle <= MaxHandle /\ Len(dest) < MaxPath
      /\ s_handle' = handle
      /\ \/ /\ CanCreate(fs[s], dest)
            /\ fs' = [fs EXCEPT ![s] = Create(@, dest, kind)]
         \/ UNCHANGED fs
      /\ known_paths' = [known_paths EXCEPT ![s] = Assign(@, dest, handle)]
      /\ objects' = [objects EXCEPT ![s] = Assign(objs, handle, obj)]
      /\ last_sent' = <<s, handle>>
      /\ response' = "OK"
      /\ UNCHANGED displaced

(* Before the first SendObjectInfo the pointers are not initialized.         *)
SendObject ==
  /\ last_sent # Null
  /\ LET object == objects[last_sent[1]][last_sent[2]]
     IN  IF Exists(fs[last_sent[1]], object.path, "file")
         THEN response' \in {"OK", "Incomplete_Transfer", "Access_Denied"}
         ELSE response' = "Access_Denied"
  /\ UNCHANGED <<fs, objects, known_paths, s_handle, last_sent, displaced>>

(* Neither the object nor its path is forgotten.                             *)
ForgetObject(h) ==
  /\ \E s \in Holders(h) :
       /\ Exists(fs[s], objects[s][h].path, objects[s][h].kind)
       /\ fs' = [fs EXCEPT ![s] = Unlink(@, objects[s][h].path)]
       /\ objects' = [objects EXCEPT ![s] = Restrict(@, DOMAIN @ \ {h})]
  /\ response' = "OK"
  /\ UNCHANGED <<known_paths, s_handle, last_sent, displaced>>
DeleteObject(h) ==
  /\ \E s \in Holders(h) :
       \/ /\ Exists(fs[s], objects[s][h].path, objects[s][h].kind)
          /\ fs' = [fs EXCEPT ![s] = Unlink(@, objects[s][h].path)]
          /\ response' = "OK"
       \/ /\ response' = "Object_WriteProtected"
          /\ UNCHANGED fs
  /\ UNCHANGED <<objects, known_paths, s_handle, last_sent, displaced>>

(* The handle of the destination folder: 0 stands for the root.              *)
Destination(parent) == IF parent = 0 THEN RootHandle ELSE parent

(* The object's path is taken away before the parent is looked up and is     *)
(* rewritten before the file system is asked; neither is undone on failure.  *)
MoveObject(h, target, parent) ==
  \E s \in Holders(h) :
    LET object == objects[s][h]
        emptied == [objects[s] EXCEPT ![h].path = <<>>]
        dest    == Destination(parent)
        path    == emptied[dest].path \o object.name
    IN  /\ UNCHANGED <<known_paths, s_handle, last_sent>>
        /\ \/ /\ s # target
              /\ response' = "Store_Not_Available"
              /\ UNCHANGED <<fs, objects, displaced>>
           \/ /\ s = target /\ dest \notin DOMAIN objects[s]
              /\ objects' = [objects EXCEPT ![s] = emptied]
              /\ response' = "Invalid_ObjectHandle"
              /\ displaced' = displaced \cup {<<s, h>>}
              /\ UNCHANGED fs
           \/ /\ s = target /\ dest \in DOMAIN objects[s]
              /\ Len(path) < MaxPath
              /\ objects' = [objects EXCEPT ![s][h].path = path]
              /\ displaced' = displaced \cup {<<s, h>>}
              /\ \/ /\ CanRename(fs[s], object.path, path, object.kind)
                    /\ fs' = [fs EXCEPT ![s] = Rename(@, object.path, path)]
                    /\ response' = "OK"
                 \/ /\ response' = "General_Error"
                    /\ UNCHANGED fs

(* Filesystem::copy_file.  Both opens are joined by ||, whose Boolean result *)
(* becomes a Result: TRUE is the code 1, a failure, FALSE is success.  The   *)
(* copy loop is only reached when neither file could be opened.              *)
CopyFileSucceeds(f, source, destination) ==
  ~Exists(f, source, "file") /\ ~Exists(f, destination, "file")

(* The copy keeps the parent pointer of the original.                        *)
CopyObject(h, target, parent) ==
  \E s \in Holders(h) :
    LET object == objects[s][h]
        dest   == Destination(parent)
        path   == objects[s][dest].path \o object.name
        handle == NewHandle
        made   == [object EXCEPT !.handle = handle, !.path = path]
        Register ==
          /\ known_paths' = [known_paths EXCEPT ![s] = Assign(@, path, handle)]
          /\ objects' = [objects EXCEPT ![s] = Assign(@, handle, made)]
          /\ displaced' = displaced \cup {<<s, handle>>}
          /\ response' = "OK"
        Refuse(code) ==
          /\ response' = code
          /\ UNCHANGED <<objects, known_paths, displaced>>
    IN  /\ UNCHANGED last_sent
        /\ \/ /\ s # target
              /\ Refuse("Store_Not_Available")
              /\ UNCHANGED <<fs, s_handle>>
           \/ /\ s = target /\ dest \notin DOMAIN objects[s]
              /\ Refuse("Invalid_ObjectHandle")
              /\ UNCHANGED <<fs, s_handle>>
           \/ /\ s = target /\ dest \in DOMAIN objects[s]
              /\ handle <= MaxHandle /\ Len(path) < MaxPath
              /\ s_handle' = handle
              /\ \/ /\ CanCreate(fs[s], path)
                    /\ fs' = [fs EXCEPT ![s] = Create(@, path, object.kind)]
                 \/ UNCHANGED fs
              /\ IF object.kind = "dir" \/ CopyFileSucceeds(fs'[s], object.path, path)
                 THEN Register
                 ELSE Refuse("Store_Not_Available")

(* What object->parent->path reads: nothing better than some string when the *)
(* pointer dangles.                                                          *)
ParentPaths(s, object) ==
  IF object.parent = Dangling
  THEN {<<>>} \cup {objects[s][x].path : x \in DOMAIN objects[s]}
  ELSE {objects[s][object.parent].path}

(* Object_File_Name, the only property that can be set.  The outcome of the  *)
(* rename is ignored.                                                        *)
SetObjectPropValue(h, name) ==
  /\ \E s \in Holders(h) :
       LET object == objects[s][h]
       IN  /\ object.parent # Null
           /\ \E prefix \in ParentPaths(s, object) :
                LET path == prefix \o name
                IN  /\ Len(path) < MaxPath
                    /\ objects' = [objects EXCEPT ![s][h].name = name,
                                                  ![s][h].path = path]
                    /\ \/ /\ CanRename(fs[s], object.path, path, object.kind)
                          /\ fs' = [fs EXCEPT ![s] = Rename(@, object.path, path)]
                       \/ UNCHANGED fs
           /\ displaced' = displaced \cup {<<s, h>>}
  /\ response' = "OK"
  /\ UNCHANGED <<known_paths, s_handle, last_sent>>

-------------------------------------------------------------------------------
(* The host.  It names handles it was given; it sends into folders of the    *)
(* storage it names, or into a stray parent; it never moves, copies, renames *)
(* or deletes the root.                                                      *)

Handles == UNION {DOMAIN objects[s] : s \in Storages}
Items   == Handles \ {RootHandle}
Folders(s) == {h \in DOMAIN objects[s] : objects[s][h].kind = "dir"}
Targets == UNION {Folders(s) : s \in Storages} \cup {0} \cup StrayHandles

Count == changes < MaxChanges /\ changes' = changes + 1

List     == /\ \E s \in Storages, h \in Handles : GetObjectHandles(s, h)
            /\ UNCHANGED changes
PropList == /\ \E h \in Handles, depth \in Depths : GetObjectPropList(h, depth)
            /\ UNCHANGED changes
SendInfo == /\ \E s \in Storages, name \in Names, kind \in Kinds :
                 \E parent \in Folders(s) \cup StrayHandles :
                   SendObjectInfo(s, parent, name, kind)
            /\ Count
SendData == SendObject /\ UNCHANGED changes
Delete   == /\ \E h \in Items : DeleteObject(h)
            /\ Count
Move     == /\ \E h \in Items, s \in Storages, parent \in Targets :
                 MoveObject(h, s, parent)
            /\ Count
Copy     == /\ \E h \in Items, s \in Storages, parent \in Targets :
                 CopyObject(h, s, parent)
            /\ Count
SetName  == /\ \E h \in Items, name \in Names : SetObjectPropValue(h, name)
            /\ Count

Next == List \/ PropList \/ SendInfo \/ SendData \/ Delete \/ Move \/ Copy
        \/ SetName

Spec == Init /\ [][Next]_vars

-------------------------------------------------------------------------------
(* Properties.                                                               *)

Kinded(map) == [h \in DOMAIN map |-> map[h].kind]

IsObject(o) ==
  /\ DOMAIN o = {"kind", "name", "path", "handle", "parent"}
  /\ o.kind \in Kinds
  /\ o.handle \in Nat
  /\ o.parent \in Nat \cup {Null, Dangling}

(* The type invariant of everything mtp_storage.hpp and mtp_server.hpp       *)
(* declare.                                                                  *)
TypeOK ==
  /\ DOMAIN fs = Storages
  /\ DOMAIN objects = Storages /\ DOMAIN known_paths = Storages
  /\ \A s \in Storages :
       /\ \A p \in DOMAIN fs[s] : fs[s][p] \in Kinds
       /\ \A h \in DOMAIN objects[s] : h \in Nat /\ IsObject(objects[s][h])
       /\ \A p \in DOMAIN known_paths[s] : known_paths[s][p] \in Nat
  /\ s_handle \in 0..MaxHandle
  /\ last_sent = Null \/ last_sent \in Storages \X (1..MaxHandle)
  /\ response \in Codes
  /\ displaced \subseteq Storages \X Nat
  /\ changes \in 0..MaxChanges

(* cache_directory answers a path it has met with the handle it recorded and *)
(* then reads objects[handle]: the object must be there, under that handle.  *)
(* known_paths and objects are updated in five different places.             *)
KnownPathsResolve ==
  \A s \in Storages : \A p \in DOMAIN known_paths[s] :
    LET h == known_paths[s][p]
    IN  h \in DOMAIN objects[s] /\ objects[s][h].handle = h

(* No listing ever shows two entries under one handle, in one storage or in  *)
(* two: find_handle looks a handle up in all storages and takes any hit.     *)
(* Only the root folders share theirs.                                       *)
HandlesUnique ==
  \A s, t \in Storages :
    \A p \in DOMAIN known_paths[s], q \in DOMAIN known_paths[t] :
      known_paths[s][p] = known_paths[t][q]
        => <<s, p>> = <<t, q>> \/ known_paths[s][p] = RootHandle

(* find_handle searches the storages in hash order: whatever the order, a    *)
(* handle below the root must lead to one object, so no two storages hold    *)
(* it.  Only a handle the host made up as a parent may be in two: it has a   *)
(* default object where the host named it, and the counter may come to it.   *)
OneStoragePerHandle ==
  \A s, t \in Storages :
    s # t => DOMAIN objects[s] \cap DOMAIN objects[t]
               \subseteq {RootHandle} \cup StrayHandles

(* As long as an object was neither moved, renamed nor made by a copy, the   *)
(* path it is known by is its own, up to the slash that ends a directory's.  *)
RegisteredPathAgrees ==
  \A s \in Storages : \A p \in DOMAIN known_paths[s] :
    LET h == known_paths[s][p]
    IN  <<s, h>> \notin displaced
          => /\ Canon(objects[s][h].path) = p
             /\ objects[s][h].kind = "dir" <=> Last(objects[s][h].path) = Sep

(* Until a request displaces it or its folder, an object's path is its       *)
(* folder's path followed by its own name, in the form its kind asks for:    *)
(* what set_object_prop_value and the listing of a folder count on.          *)
PathsFollowParents ==
  \A s \in Storages : \A h \in DOMAIN objects[s] :
    LET o == objects[s][h]
    IN  /\ o.parent \in DOMAIN objects[s]
        /\ {<<s, h>>, <<s, o.parent>>} \cap displaced = {}
        => o.path = Terminated(objects[s][o.parent].path \o o.name, o.kind)

(* Every object but the root has a live parent, in its own storage, that was *)
(* known before it did: following parent pointers, which the replies    *)
(* do unchecked, stays within the storage and ends at the root.  (For a host *)
(* that lists one level at a time and names folders it was given.)           *)
ParentsLeadToRoot ==
  \A s \in Storages : \A h \in DOMAIN objects[s] \ {RootHandle} :
    LET parent == objects[s][h].parent
    IN  /\ parent \in DOMAIN objects[s]
        /\ parent = RootHandle \/ parent < h

(* The two pointers the server keeps between SendObjectInfo and SendObject   *)
(* refer to an object that still exists and was sent last: a later listing   *)
(* or copy never takes its place.                                            *)
LastSentLives ==
  last_sent # Null =>
    LET o == objects[last_sent[1]][last_sent[2]]
    IN  last_sent[2] \in DOMAIN objects[last_sent[1]] /\ o.handle = last_sent[2]

(* The database implements the registry of handles: the kinds and names it   *)
(* records, forgetting everything about an object but its kind.              *)
Registry == INSTANCE HandleRegistry WITH
  last <- s_handle, names <- known_paths, Root <- RootHandle,
  RootName <- RootPath, kinds <- [s \in Storages |-> Kinded(objects[s])]

RegistrySpec == Registry!Spec

(* What comments of the code say and the code does not keep.                 *)

(* "Copying objects between stores is not supported": Store_Not_Available    *)
(* is the answer to that, not to a copy the storage has begun to make.       *)
CopiesWithinStoreSucceed ==
  [][fs' # fs => response' # "Store_Not_Available"]_vars

(* Parent_Object is among the properties every object is said to support:    *)
(* the pointer its value is read through leads to an object.                 *)
ParentsReadable ==
  \A s \in Storages : \A h \in DOMAIN objects[s] : objects[s][h].parent # Dangling
==============================================================================
