--------------------------- MODULE MtpStorageProofs ---------------------------
(***************************************************************************)
(* Theorems about the object database for every value of its constants.    *)
(* Every request that touches objects or known_paths does so within one    *)
(* storage and only in the way Grows(s) says; the invariants of handles    *)
(* and the refinement of HandleRegistry follow from Grows(s) alone.        *)
(* Parents and paths, at the end, have shapes of their own: Adopts(s) and  *)
(* Records(s).                                                             *)
(***************************************************************************)
EXTENDS MtpStorage, NumberProofs, SequenceTheorems, TLAPS

(* The handles a request gives out.                                        *)
NewHandles == (s_handle + 1)..s_handle'

(* The part of the state the handle invariants are about.                  *)
database == <<objects, known_paths, s_handle>>

IsMap(f) == f = [x \in DOMAIN f |-> f[x]]

Grows(s) ==
  /\ IsMap(known_paths') /\ IsMap(known_paths'[s])
  /\ s_handle' \in s_handle..MaxHandle
  /\ DOMAIN objects' = Storages /\ DOMAIN known_paths' = Storages
  /\ \A t \in Storages \ {s} : /\ objects'[t] = objects[t]
                               /\ known_paths'[t] = known_paths[t]
  /\ DOMAIN objects[s] \subseteq DOMAIN objects'[s]
  /\ DOMAIN objects'[s] \subseteq DOMAIN objects[s] \cup NewHandles \cup StrayHandles
  /\ \A h \in DOMAIN objects'[s] : IsObject(objects'[s][h])
  /\ \A h \in DOMAIN objects[s] \ NewHandles :
       /\ objects'[s][h].handle = objects[s][h].handle
       /\ objects'[s][h].kind = objects[s][h].kind
  /\ DOMAIN known_paths[s] \subseteq DOMAIN known_paths'[s]
  /\ \A p \in DOMAIN known_paths'[s] :
       \/ p \in DOMAIN known_paths[s] /\ known_paths'[s][p] = known_paths[s][p]
       \/ LET h == known_paths'[s][p]
          IN  /\ h \in NewHandles
              /\ h \in DOMAIN objects'[s]
              /\ objects'[s][h].handle = h
  /\ \A p, q \in DOMAIN known_paths'[s] :
       /\ known_paths'[s][p] = known_paths'[s][q]
       /\ known_paths'[s][p] \in NewHandles
       => p = q

(* KnownPathsResolve and HandlesUnique are not inductive: a handle given   *)
(* out next must be one nobody has, so the counter bounds what is known.   *)
HandleInv ==
  /\ IsMap(known_paths) /\ \A s \in Storages : IsMap(known_paths[s])
  /\ s_handle \in 0..MaxHandle
  /\ DOMAIN objects = Storages /\ DOMAIN known_paths = Storages
  /\ \A s \in Storages :
       /\ RootHandle \in DOMAIN objects[s]
       /\ objects[s][RootHandle].kind = "dir"
       /\ DOMAIN objects[s] \subseteq 1..s_handle \cup {RootHandle} \cup StrayHandles
       /\ \A h \in DOMAIN objects[s] : IsObject(objects[s][h])
       /\ \A p \in DOMAIN known_paths[s] :
            known_paths[s][p] \in 1..s_handle \cup {RootHandle}
  /\ KnownPathsResolve
  /\ HandlesUnique

-------------------------------------------------------------------------------
(* The database starts with the root folder of each storage and no more.   *)
LEMMA InitHandleInv == Init => HandleInv
  BY StorageAssumption
     DEF Init, HandleInv, StorageAssumption, KnownPathsResolve, HandlesUnique,
         IsObject, RootObject, NewObject, Kinds, RootPath, IsMap

(* A step that grows one storage keeps the handles of all of them in order. *)
LEMMA GrowsKeepsHandleInv ==
  ASSUME HandleInv, NEW s \in Storages, Grows(s)
  PROVE  HandleInv'
<1> USE StorageAssumption DEF StorageAssumption
<1>1. s_handle \in Nat /\ s_handle' \in Nat /\ s_handle <= s_handle' /\ s_handle' <= MaxHandle
  BY DEF HandleInv, Grows
<1>2. ASSUME NEW t \in Storages, t # s
      PROVE  objects'[t] = objects[t] /\ known_paths'[t] = known_paths[t]
  BY <1>2 DEF Grows
<1>3. \A t \in Storages :
        /\ RootHandle \in DOMAIN objects'[t]
        /\ objects'[t][RootHandle].kind = "dir"
        /\ DOMAIN objects'[t] \subseteq 1..s_handle' \cup {RootHandle} \cup StrayHandles
        /\ \A h \in DOMAIN objects'[t] : IsObject(objects'[t][h])
  <2> SUFFICES ASSUME NEW t \in Storages
               PROVE  /\ RootHandle \in DOMAIN objects'[t]
                      /\ objects'[t][RootHandle].kind = "dir"
                      /\ DOMAIN objects'[t] \subseteq 1..s_handle' \cup {RootHandle} \cup StrayHandles
                      /\ \A h \in DOMAIN objects'[t] : IsObject(objects'[t][h])
    OBVIOUS
  <2>1. CASE t = s
    <3>1. RootHandle \in DOMAIN objects[s] \ NewHandles
      BY <1>1 DEF HandleInv, NewHandles
    <3>2. QED
      BY <2>1, <3>1, <1>1 DEF HandleInv, Grows, NewHandles
  <2>2. CASE t # s
    BY <2>2, <1>1, <1>2 DEF HandleInv
  <2>3. QED
    BY <2>1, <2>2
<1>4. \A t \in Storages : \A p \in DOMAIN known_paths'[t] :
        LET h == known_paths'[t][p]
        IN  /\ h \in 1..s_handle' \cup {RootHandle}
            /\ h \in DOMAIN objects'[t] /\ objects'[t][h].handle = h
  <2> SUFFICES ASSUME NEW t \in Storages, NEW p \in DOMAIN known_paths'[t]
               PROVE  LET h == known_paths'[t][p]
                      IN  /\ h \in 1..s_handle' \cup {RootHandle}
                          /\ h \in DOMAIN objects'[t] /\ objects'[t][h].handle = h
    OBVIOUS
  <2> DEFINE h == known_paths'[t][p]
  <2>1. CASE t # s
    BY <2>1, <1>1, <1>2 DEF HandleInv, KnownPathsResolve
  <2>2. CASE t = s /\ p \in DOMAIN known_paths[s] /\ h = known_paths[s][p]
    <3>1. h \in 1..s_handle \cup {RootHandle} /\ h \in DOMAIN objects[s]
          /\ objects[s][h].handle = h
      BY <2>2 DEF HandleInv, KnownPathsResolve
    <3>2. h \notin NewHandles
      BY <3>1, <1>1 DEF NewHandles
    <3>3. h \in DOMAIN objects'[s] /\ objects'[s][h].handle = h
      BY <3>1, <3>2 DEF Grows
    <3>4. QED
      BY <2>2, <3>1, <3>3, <1>1
  <2>3. CASE /\ t = s
             /\ h \in NewHandles
             /\ h \in DOMAIN objects'[s]
             /\ objects'[s][h].handle = h
    BY <2>3, <1>1 DEF NewHandles
  <2>4. QED
    BY <2>1, <2>2, <2>3 DEF Grows
<1>5. HandlesUnique'
  <2> SUFFICES ASSUME NEW t \in Storages, NEW u \in Storages,
                      NEW p \in DOMAIN known_paths'[t],
                      NEW q \in DOMAIN known_paths'[u],
                      known_paths'[t][p] = known_paths'[u][q],
                      known_paths'[t][p] # RootHandle
               PROVE  <<t, p>> = <<u, q>>
    BY DEF HandlesUnique
  <2> DEFINE h == known_paths'[t][p]
             Old(x, r) == /\ r \in DOMAIN known_paths[x]
                          /\ known_paths'[x][r] = known_paths[x][r]
                          /\ known_paths[x][r] \notin NewHandles
             Fresh(x, r) == x = s /\ known_paths'[x][r] \in NewHandles
  <2>1. ASSUME NEW x \in Storages, NEW r \in DOMAIN known_paths'[x]
        PROVE  Old(x, r) \/ Fresh(x, r)
    <3>1. \A y \in DOMAIN known_paths[x] : known_paths[x][y] \notin NewHandles
      BY <1>1 DEF HandleInv, NewHandles
    <3>2. CASE x # s
      BY <3>1, <3>2, <1>2
    <3>3. CASE x = s
      BY <3>1, <3>3 DEF Grows
    <3>4. QED
      BY <3>2, <3>3
  <2>2. CASE Old(t, p) /\ Old(u, q)
    <3>1. /\ p \in DOMAIN known_paths[t] /\ q \in DOMAIN known_paths[u]
          /\ known_paths[t][p] = known_paths[u][q]
          /\ known_paths[t][p] # RootHandle
      BY <2>2
    <3>2. HandlesUnique
      BY DEF HandleInv
    <3>3. QED
      BY <3>1, <3>2 DEF HandlesUnique
  <2>3. CASE Fresh(t, p) /\ Fresh(u, q)
    BY <2>3 DEF Grows
  <2>4. ~(Old(t, p) /\ Fresh(u, q)) /\ ~(Fresh(t, p) /\ Old(u, q))
    OBVIOUS
  <2>5. QED
    BY <2>1, <2>2, <2>3, <2>4
<1>6. IsMap(known_paths') /\ \A t \in Storages : IsMap(known_paths'[t])
  <2>1. IsMap(known_paths') /\ IsMap(known_paths'[s])
    BY DEF Grows
  <2>2. ASSUME NEW t \in Storages \ {s}
        PROVE  IsMap(known_paths'[t])
    BY <1>2 DEF HandleInv
  <2>3. QED
    BY <2>1, <2>2
<1>7. QED
  BY <1>1, <1>3, <1>4, <1>5, <1>6 DEF HandleInv, KnownPathsResolve, Grows

-------------------------------------------------------------------------------
(* What the file systems hold is a file or a directory.                    *)
FilesInv ==
  /\ DOMAIN fs = Storages
  /\ \A s \in Storages : \A p \in DOMAIN fs[s] : fs[s][p] \in Kinds

(* Every handle that has an object is a number.                            *)
LEMMA HandlesAreNat ==
  ASSUME HandleInv, NEW s \in Storages, NEW h \in DOMAIN objects[s]
  PROVE  h \in Nat
<1>1. s_handle \in 0..MaxHandle
      /\ DOMAIN objects[s] \subseteq 1..s_handle \cup {RootHandle} \cup StrayHandles
  BY DEF HandleInv
<1>2. h \in 1..s_handle \/ h = RootHandle \/ h \in StrayHandles
  BY <1>1
<1>3. MaxHandle \in Nat /\ RootHandle \in Nat /\ StrayHandles \subseteq Nat
  BY StorageAssumption DEF StorageAssumption
<1>4. CASE h \in 1..s_handle
  BY <1>4
<1>5. CASE h = RootHandle
  BY <1>3, <1>5
<1>6. CASE h \in StrayHandles
  BY <1>3, <1>6
<1>7. QED
  BY <1>2, <1>4, <1>5, <1>6

(* What a listing finds makes a well-formed object, dangling parent or not. *)
LEMMA FoundIsObject ==
  ASSUME HandleInv, FilesInv, NEW s \in Storages, NEW h \in DOMAIN objects[s],
         NEW dirs, NEW e \in Found(s, h, dirs)
  PROVE  IsObject(e)
<1>1. PICK d \in dirs : \E c \in Entries(fs[s], d.path) :
        e = NewObject(fs[s][c], BaseName(c), d.path \o BaseName(c), 0,
                      IF d.live THEN h ELSE Dangling)
  BY DEF Found
<1>2. PICK c \in DOMAIN fs[s] :
        e = NewObject(fs[s][c], BaseName(c), d.path \o BaseName(c), 0,
                      IF d.live THEN h ELSE Dangling)
  BY <1>1 DEF Entries
<1>3. h \in Nat
  BY HandlesAreNat
<1> DEFINE parent == IF d.live THEN h ELSE Dangling
<1>4. parent = h \/ parent = Dangling
  OBVIOUS
<1>5. fs[s][c] \in Kinds
  BY <1>2 DEF FilesInv
<1>6. e = NewObject(fs[s][c], BaseName(c), d.path \o BaseName(c), 0, parent)
  BY <1>2
<1>7. QED
  <2> HIDE DEF parent
  <2>1. QED
    BY <1>3, <1>4, <1>5, <1>6 DEF NewObject, IsObject

(* Each path cache_directory meets gets a handle of its own, an object with *)
(* it, and nothing that was known changes.                                 *)
LEMMA CacheDirectoryGrows ==
  ASSUME HandleInv, FilesInv, NEW s \in Storages, NEW h \in DOMAIN objects[s],
         NEW depth, CacheDirectory(s, h, depth)
  PROVE  Grows(s)
<1> USE StorageAssumption DEF StorageAssumption
<1> DEFINE fresh == {e \in Found(s, h, Listed(s, h, depth)) :
                       e.path \notin DOMAIN known_paths[s]}
           paths == {e.path : e \in fresh}
           n     == Cardinality(paths)
           new   == (s_handle + 1)..(s_handle + n)
<1>1. /\ n \in 0..(MaxHandle - s_handle)
      /\ s_handle' = s_handle + n
  BY DEF CacheDirectory
<1>2. PICK entry \in [new -> fresh] :
        LET Handle(p) == CHOOSE i \in new : entry[i].path = p
            Made(i)   == [entry[i] EXCEPT
                            !.path = Terminated(@, entry[i].kind),
                            !.handle = i]
        IN  /\ {entry[i].path : i \in new} = paths
            /\ known_paths' = [known_paths EXCEPT ![s] =
                 [p \in DOMAIN @ \cup paths |->
                    IF p \in paths THEN Handle(p) ELSE @[p]]]
            /\ objects' = [objects EXCEPT ![s] =
                 [i \in DOMAIN @ \cup new |->
                    IF i \in new THEN Made(i) ELSE @[i]]]
  BY DEF CacheDirectory
<1> DEFINE Handle(p) == CHOOSE i \in new : entry[i].path = p
           Made(i)   == [entry[i] EXCEPT
                           !.path = Terminated(@, entry[i].kind),
                           !.handle = i]
<1>3. s_handle \in Nat /\ n \in Nat /\ new = NewHandles
      /\ s_handle' \in s_handle..MaxHandle
  BY <1>1 DEF HandleInv, NewHandles
<1>4. /\ DOMAIN objects' = Storages /\ DOMAIN known_paths' = Storages
      /\ \A t \in Storages \ {s} : /\ objects'[t] = objects[t]
                                   /\ known_paths'[t] = known_paths[t]
  BY <1>2 DEF HandleInv
<1>5. known_paths'[s] = [p \in DOMAIN known_paths[s] \cup paths |->
                           IF p \in paths THEN Handle(p) ELSE known_paths[s][p]]
  BY <1>2 DEF HandleInv
<1>6. objects'[s] = [i \in DOMAIN objects[s] \cup new |->
                       IF i \in new THEN Made(i) ELSE objects[s][i]]
  BY <1>2 DEF HandleInv
<1>7. ASSUME NEW i \in new
      PROVE  IsObject(Made(i)) /\ Made(i).handle = i
  <2>1. IsObject(entry[i])
    BY FoundIsObject
  <2>2. i \in Nat
    BY <1>3
  <2>3. QED
    BY <2>1, <2>2 DEF IsObject
<1>8. ASSUME NEW p \in paths
      PROVE  Handle(p) \in new /\ entry[Handle(p)].path = p
  BY <1>2
<1>9. \A i \in DOMAIN objects'[s] : IsObject(objects'[s][i])
  <2> HIDE DEF new, Made
  <2>1. QED
    BY <1>6, <1>7 DEF HandleInv
<1>10. \A i \in DOMAIN objects[s] \ NewHandles : objects'[s][i] = objects[s][i]
  BY <1>3, <1>6
<1>11. \A i \in new : i \in DOMAIN objects'[s] /\ objects'[s][i].handle = i
  <2> HIDE DEF new, Made
  <2>1. QED
    BY <1>6, <1>7
<1>12. \A p \in DOMAIN known_paths'[s] :
         \/ p \in DOMAIN known_paths[s] /\ known_paths'[s][p] = known_paths[s][p]
         \/ p \in paths /\ known_paths'[s][p] = Handle(p)
  <2> HIDE DEF new, paths, Handle
  <2>1. QED
    BY <1>5
<1>13. \A p, q \in DOMAIN known_paths'[s] :
         /\ known_paths'[s][p] = known_paths'[s][q]
         /\ known_paths'[s][p] \in NewHandles
         => p = q
  <2> SUFFICES ASSUME NEW p \in DOMAIN known_paths'[s],
                      NEW q \in DOMAIN known_paths'[s],
                      known_paths'[s][p] = known_paths'[s][q],
                      known_paths'[s][p] \in NewHandles
               PROVE  p = q
    OBVIOUS
  <2>1. \A r \in DOMAIN known_paths[s] : known_paths[s][r] \notin NewHandles
    BY <1>3 DEF HandleInv, NewHandles
  <2>2. /\ p \in paths /\ known_paths'[s][p] = Handle(p)
        /\ q \in paths /\ known_paths'[s][q] = Handle(q)
    <3> HIDE DEF paths, Handle
    <3>1. QED
      BY <1>12, <2>1
  <2>3. entry[Handle(p)].path = p /\ entry[Handle(q)].path = q
    BY <1>8, <2>2
  <2>4. QED
    BY <2>2, <2>3
<1>14. \A p \in DOMAIN known_paths'[s] :
         \/ p \in DOMAIN known_paths[s] /\ known_paths'[s][p] = known_paths[s][p]
         \/ LET i == known_paths'[s][p]
            IN  i \in NewHandles /\ i \in DOMAIN objects'[s] /\ objects'[s][i].handle = i
  <2> HIDE DEF new, paths, Handle
  <2>1. QED
    BY <1>3, <1>8, <1>11, <1>12
<1>15. /\ DOMAIN objects'[s] = DOMAIN objects[s] \cup NewHandles
       /\ DOMAIN known_paths[s] \subseteq DOMAIN known_paths'[s]
  <2> HIDE DEF new, paths, Handle, Made
  <2>1. QED
    BY <1>3, <1>5, <1>6
<1>16. IsMap(known_paths') /\ IsMap(known_paths'[s])
  <2> HIDE DEF new, paths, Handle
  <2>1. QED
    BY <1>2, <1>5 DEF IsMap
<1>17. QED
  BY <1>16, <1>3, <1>4, <1>9, <1>10, <1>13, <1>14, <1>15 DEF Grows

-------------------------------------------------------------------------------
(* A request that writes one handle of one storage, and possibly one path, *)
(* grows the database if it takes the next handle for both.                *)
LEMMA SendObjectInfoGrows ==
  ASSUME HandleInv, NEW s \in Storages, NEW parent_handle \in Nat, NEW name,
         NEW kind \in Kinds,
         parent_handle \in DOMAIN objects[s] \cup StrayHandles,
         SendObjectInfo(s, parent_handle, name, kind)
  PROVE  Grows(s)
<1> DEFINE objs   == Touch(objects[s], parent_handle)
           dest   == objs[parent_handle].path \o name
           handle == NewHandle
           obj    == NewObject(kind, name, Terminated(dest, kind), handle,
                               parent_handle)
<1>1. /\ s_handle \in Nat /\ handle = s_handle + 1 /\ handle <= MaxHandle
      /\ s_handle' = handle /\ MaxHandle \in Nat
  BY StorageAssumption DEF HandleInv, SendObjectInfo, NewHandle, StorageAssumption
<1>2. NewHandles = {handle} /\ s_handle' \in s_handle..MaxHandle
  BY <1>1 DEF NewHandles
<1>3. /\ known_paths' = [known_paths EXCEPT ![s] = Assign(@, dest, handle)]
      /\ objects' = [objects EXCEPT ![s] = Assign(objs, handle, obj)]
  BY DEF SendObjectInfo
<1>4. /\ DOMAIN objs \subseteq DOMAIN objects[s] \cup StrayHandles
      /\ DOMAIN objects[s] \subseteq DOMAIN objs
      /\ \A h \in DOMAIN objects[s] : objs[h] = objects[s][h]
      /\ \A h \in DOMAIN objs : IsObject(objs[h])
  <2>1. IsObject(DefaultObject)
    BY <1>1 DEF DefaultObject, NewObject, IsObject, Kinds
  <2>2. \A h \in DOMAIN objects[s] : IsObject(objects[s][h])
    BY DEF HandleInv
  <2>3. QED
    BY <2>1, <2>2 DEF Touch, Assign
<1>5. IsObject(obj) /\ obj.handle = handle
  BY <1>1 DEF NewObject, IsObject
<1>6. /\ known_paths'[s] = Assign(known_paths[s], dest, handle)
      /\ objects'[s] = Assign(objs, handle, obj)
      /\ DOMAIN objects' = Storages /\ DOMAIN known_paths' = Storages
      /\ \A t \in Storages \ {s} : /\ objects'[t] = objects[t]
                                   /\ known_paths'[t] = known_paths[t]
  <2> HIDE DEF objs, dest, handle, obj
  <2>1. QED
    BY <1>3 DEF HandleInv
<1> HIDE DEF objs, dest, handle, obj
<1>7. /\ DOMAIN objects'[s] = DOMAIN objs \cup {handle}
      /\ \A h \in DOMAIN objects'[s] :
           objects'[s][h] = IF h = handle THEN obj ELSE objs[h]
  BY <1>6 DEF Assign
<1>8. /\ DOMAIN known_paths'[s] = DOMAIN known_paths[s] \cup {dest}
      /\ \A p \in DOMAIN known_paths'[s] :
           known_paths'[s][p] = IF p = dest THEN handle ELSE known_paths[s][p]
  BY <1>6 DEF Assign
<1>9. \A p \in DOMAIN known_paths[s] : known_paths[s][p] # handle
  BY <1>1, StorageAssumption DEF HandleInv, StorageAssumption
<1>10. \A h \in DOMAIN objects'[s] : IsObject(objects'[s][h])
  BY <1>4, <1>5, <1>7
<1>11. \A h \in DOMAIN objects[s] \ NewHandles : objects'[s][h] = objects[s][h]
  BY <1>2, <1>4, <1>7
<1>12. IsMap(known_paths') /\ IsMap(known_paths'[s])
  <2>1. IsMap(known_paths')
    BY <1>3 DEF IsMap
  <2>2. IsMap(known_paths'[s])
    BY <1>6 DEF IsMap, Assign
  <2>3. QED
    BY <2>1, <2>2
<1>13. QED
  BY <1>2, <1>4, <1>5, <1>6, <1>7, <1>8, <1>9, <1>10, <1>11, <1>12 DEF Grows

(* Rewriting an object's path or name leaves all that Grows is about.      *)
LEMMA RewriteGrows ==
  ASSUME HandleInv, NEW s \in Storages, NEW h \in DOMAIN objects[s],
         NEW o, IsObject(o), o.handle = objects[s][h].handle,
         o.kind = objects[s][h].kind,
         objects' = [objects EXCEPT ![s][h] = o],
         UNCHANGED <<known_paths, s_handle>>
  PROVE  Grows(s)
<1>1. s_handle \in Nat /\ MaxHandle \in Nat /\ s_handle' \in s_handle..MaxHandle
  BY StorageAssumption DEF HandleInv, StorageAssumption
<1>2. NewHandles = {}
  BY <1>1 DEF NewHandles
<1>3. /\ DOMAIN objects' = Storages /\ DOMAIN objects'[s] = DOMAIN objects[s]
      /\ objects'[s][h] = o
      /\ \A g \in DOMAIN objects[s] \ {h} : objects'[s][g] = objects[s][g]
      /\ \A t \in Storages \ {s} : objects'[t] = objects[t]
  BY DEF HandleInv
<1>4. \A g \in DOMAIN objects'[s] : IsObject(objects'[s][g])
  BY <1>3 DEF HandleInv
<1>5. /\ DOMAIN known_paths' = Storages
      /\ IsMap(known_paths') /\ IsMap(known_paths'[s])
  <2>1. IsMap(known_paths) /\ IsMap(known_paths[s]) /\ known_paths' = known_paths
    BY DEF HandleInv
  <2>2. QED
    BY <2>1 DEF HandleInv, IsMap
<1>6. QED
  BY <1>1, <1>2, <1>3, <1>4, <1>5 DEF Grows

(* A move, done, failed or refused, only rewrites the path of one object.  *)
LEMMA MoveObjectGrows ==
  ASSUME HandleInv, NEW h, NEW target, NEW parent, MoveObject(h, target, parent)
  PROVE  (\E s \in Storages : Grows(s)) \/ UNCHANGED database
<1>1. PICK s \in Holders(h) :
        /\ UNCHANGED <<known_paths, s_handle>>
        /\ \/ UNCHANGED objects
           \/ \E path : objects' = [objects EXCEPT ![s] = [@ EXCEPT ![h].path = path]]
           \/ \E path : objects' = [objects EXCEPT ![s][h].path = path]
  BY DEF MoveObject
<1>2. s \in Storages /\ h \in DOMAIN objects[s] /\ IsObject(objects[s][h])
  BY DEF Holders, HandleInv
<1>3. CASE UNCHANGED objects
  BY <1>1, <1>3 DEF database
<1>4. ASSUME NEW path,
             \/ objects' = [objects EXCEPT ![s] = [@ EXCEPT ![h].path = path]]
             \/ objects' = [objects EXCEPT ![s][h].path = path]
      PROVE  Grows(s)
  <2> DEFINE o == [objects[s][h] EXCEPT !.path = path]
  <2>1. /\ IsObject(o) /\ o.handle = objects[s][h].handle
        /\ o.kind = objects[s][h].kind
    BY <1>2 DEF IsObject
  <2>2. objects' = [objects EXCEPT ![s][h] = o]
    BY <1>4
  <2>3. QED
    BY <1>1, <1>2, <2>1, <2>2, RewriteGrows
<1>5. QED
  BY <1>1, <1>2, <1>3, <1>4

(* A rename only rewrites the name and the path of one object.             *)
LEMMA SetObjectPropValueGrows ==
  ASSUME HandleInv, NEW h, NEW name, SetObjectPropValue(h, name)
  PROVE  \E s \in Storages : Grows(s)
<1>1. PICK s \in Holders(h) :
        \E path : objects' = [objects EXCEPT ![s][h].name = name, ![s][h].path = path]
  BY DEF SetObjectPropValue
<1>2. PICK path :
        objects' = [objects EXCEPT ![s][h].name = name, ![s][h].path = path]
  BY <1>1
<1>3. s \in Storages /\ h \in DOMAIN objects[s] /\ IsObject(objects[s][h])
  BY DEF Holders, HandleInv
<1> DEFINE o == [objects[s][h] EXCEPT !.name = name, !.path = path]
<1>4. /\ IsObject(o) /\ o.handle = objects[s][h].handle
      /\ o.kind = objects[s][h].kind
  BY <1>3 DEF IsObject
<1>5. objects' = [objects EXCEPT ![s][h] = o]
  BY <1>2, <1>3 DEF HandleInv
<1>6. UNCHANGED <<known_paths, s_handle>>
  BY DEF SetObjectPropValue
<1>7. QED
  BY <1>3, <1>4, <1>5, <1>6, RewriteGrows

(* A copy that fails half-way still uses up a handle, without an object.   *)
LEMMA CopyObjectGrows ==
  ASSUME HandleInv, NEW h, NEW target, NEW parent, CopyObject(h, target, parent)
  PROVE  (\E s \in Storages : Grows(s)) \/ UNCHANGED database
<1>1. PICK s \in Holders(h) :
        \/ UNCHANGED <<objects, known_paths, s_handle>>
        \/ /\ NewHandle <= MaxHandle /\ s_handle' = NewHandle
           /\ UNCHANGED <<objects, known_paths>>
        \/ /\ NewHandle <= MaxHandle /\ s_handle' = NewHandle
           /\ \E path :
                /\ known_paths' = [known_paths EXCEPT ![s] = Assign(@, path, NewHandle)]
                /\ objects' = [objects EXCEPT ![s] = Assign(@, NewHandle,
                     [objects[s][h] EXCEPT !.handle = NewHandle, !.path = path])]
  BY DEF CopyObject
<1>2. s \in Storages /\ h \in DOMAIN objects[s] /\ IsObject(objects[s][h])
  BY DEF Holders, HandleInv
<1> DEFINE handle == NewHandle
<1>3. CASE UNCHANGED <<objects, known_paths, s_handle>>
  BY <1>3 DEF database
<1>4. ASSUME handle <= MaxHandle, s_handle' = handle
      PROVE  /\ NewHandles = {handle} /\ s_handle' \in s_handle..MaxHandle
             /\ handle \in Nat
             /\ \A p \in DOMAIN known_paths[s] : known_paths[s][p] # handle
  <2>1. s_handle \in Nat /\ handle = s_handle + 1 /\ MaxHandle \in Nat
        /\ RootHandle \in Nat /\ MaxHandle < RootHandle
    BY StorageAssumption DEF HandleInv, NewHandle, StorageAssumption
  <2>2. \A p \in DOMAIN known_paths[s] : known_paths[s][p] \in 1..s_handle \cup {RootHandle}
    BY <1>2 DEF HandleInv
  <2>3. QED
    BY <1>4, <2>1, <2>2 DEF NewHandles
<1>5. CASE /\ handle <= MaxHandle /\ s_handle' = handle
           /\ UNCHANGED <<objects, known_paths>>
  <2>1. Grows(s)
    BY <1>2, <1>4, <1>5 DEF HandleInv, Grows
  <2>2. QED
    BY <1>2, <2>1
<1>6. ASSUME handle <= MaxHandle, s_handle' = handle, NEW path,
             known_paths' = [known_paths EXCEPT ![s] = Assign(@, path, handle)],
             objects' = [objects EXCEPT ![s] = Assign(@, handle,
                  [objects[s][h] EXCEPT !.handle = handle, !.path = path])]
      PROVE  Grows(s)
  <2> DEFINE made == [objects[s][h] EXCEPT !.handle = handle, !.path = path]
  <2>1. IsObject(made) /\ made.handle = handle
    BY <1>2, <1>4, <1>6 DEF IsObject
  <2> HIDE DEF made, handle
  <2>2. /\ known_paths'[s] = Assign(known_paths[s], path, handle)
        /\ objects'[s] = Assign(objects[s], handle, made)
        /\ DOMAIN objects' = Storages /\ DOMAIN known_paths' = Storages
        /\ \A t \in Storages \ {s} : /\ objects'[t] = objects[t]
                                     /\ known_paths'[t] = known_paths[t]
    BY <1>2, <1>6 DEF HandleInv, made
  <2>3. /\ DOMAIN objects'[s] = DOMAIN objects[s] \cup {handle}
        /\ \A i \in DOMAIN objects'[s] :
             objects'[s][i] = IF i = handle THEN made ELSE objects[s][i]
    BY <2>2 DEF Assign
  <2>4. /\ DOMAIN known_paths'[s] = DOMAIN known_paths[s] \cup {path}
        /\ \A p \in DOMAIN known_paths'[s] :
             known_paths'[s][p] = IF p = path THEN handle ELSE known_paths[s][p]
    BY <2>2 DEF Assign
  <2>5. \A i \in DOMAIN objects'[s] : IsObject(objects'[s][i])
    BY <1>2, <2>1, <2>3 DEF HandleInv
  <2>6. \A i \in DOMAIN objects[s] \ NewHandles : objects'[s][i] = objects[s][i]
    BY <1>4, <1>6, <2>3
  <2>7. IsMap(known_paths') /\ IsMap(known_paths'[s])
    BY <1>6, <2>2 DEF IsMap, Assign
  <2>8. QED
    BY <1>4, <1>6, <2>1, <2>2, <2>3, <2>4, <2>5, <2>6, <2>7 DEF Grows
<1>7. QED
  BY <1>1, <1>2, <1>3, <1>5, <1>6

-------------------------------------------------------------------------------
(* Every step grows the database of one storage or leaves it alone.        *)
LEMMA NextGrows ==
  ASSUME HandleInv, FilesInv, [Next]_vars
  PROVE  (\E s \in Storages : Grows(s)) \/ UNCHANGED database
<1>1. CASE List
  <2>1. PICK s \in Storages, h \in Handles : GetObjectHandles(s, h)
    BY <1>1 DEF List
  <2>2. CASE h \in DOMAIN objects[s]
    <3>1. CacheDirectory(s, h, 1)
      BY <2>1, <2>2 DEF GetObjectHandles
    <3>2. QED
      BY <2>2, <3>1, CacheDirectoryGrows
  <2>3. CASE h \notin DOMAIN objects[s]
    BY <2>1, <2>3 DEF GetObjectHandles, database
  <2>4. QED
    BY <2>2, <2>3
<1>2. CASE PropList
  <2>1. PICK h \in Handles, depth \in Depths : GetObjectPropList(h, depth)
    BY <1>2 DEF PropList
  <2>2. PICK s \in Holders(h) : CacheDirectory(s, h, depth)
    BY <2>1 DEF GetObjectPropList
  <2>3. QED
    BY <2>2, CacheDirectoryGrows DEF Holders
<1>3. CASE SendInfo
  <2>1. PICK s \in Storages, name \in Names, kind \in Kinds :
          \E parent \in Folders(s) \cup StrayHandles :
            SendObjectInfo(s, parent, name, kind)
    BY <1>3 DEF SendInfo
  <2>2. PICK parent \in Folders(s) \cup StrayHandles :
          SendObjectInfo(s, parent, name, kind)
    BY <2>1
  <2>3. parent \in DOMAIN objects[s] \cup StrayHandles
    BY DEF Folders
  <2>4. parent \in Nat
    BY <2>3, HandlesAreNat, StorageAssumption DEF StorageAssumption
  <2>5. QED
    BY <2>2, <2>3, <2>4, SendObjectInfoGrows
<1>4. CASE Move
  BY <1>4, MoveObjectGrows DEF Move
<1>5. CASE Copy
  BY <1>5, CopyObjectGrows DEF Copy
<1>6. CASE SetName
  BY <1>6, SetObjectPropValueGrows DEF SetName
<1>7. CASE SendData \/ Delete \/ UNCHANGED vars
  BY <1>7 DEF SendData, SendObject, Delete, DeleteObject, vars, database
<1>8. QED
  BY <1>1, <1>2, <1>3, <1>4, <1>5, <1>6, <1>7 DEF Next

(* A step that leaves the database alone keeps its invariant.              *)
LEMMA StutterKeepsHandleInv ==
  ASSUME HandleInv, UNCHANGED database
  PROVE  HandleInv'
  BY DEF HandleInv, database, KnownPathsResolve, HandlesUnique

(* Every step does, as each grows one storage or leaves all alone.         *)
LEMMA NextKeepsHandleInv ==
  ASSUME HandleInv, FilesInv, [Next]_vars
  PROVE  HandleInv'
  BY NextGrows, GrowsKeepsHandleInv, StutterKeepsHandleInv

-------------------------------------------------------------------------------
(* The file systems keep their kinds through every operation of fs.hpp.    *)
IsFs(f) == \A p \in DOMAIN f : f[p] \in Kinds

(* The operations of fs.hpp leave files and directories, nothing else.     *)
LEMMA FileOperations ==
  ASSUME NEW f, IsFs(f)
  PROVE  /\ \A p, kind : kind \in Kinds => IsFs(Create(f, p, kind))
         /\ \A p : IsFs(Unlink(f, p))
         /\ \A p, q : IsFs(Rename(f, p, q))
<1>1. ASSUME NEW p, NEW kind \in Kinds
      PROVE  IsFs(Create(f, p, kind))
  BY DEF IsFs, Create
<1>2. ASSUME NEW p
      PROVE  IsFs(Unlink(f, p))
  BY DEF IsFs, Unlink, Restrict
<1>3. ASSUME NEW p, NEW q
      PROVE  IsFs(Rename(f, p, q))
  <2> DEFINE moved  == Subtree(f, p)
             kept   == DOMAIN f \ moved
             New(x) == Canon(q) \o SubSeq(x, Len(Canon(p)) + 1, Len(x))
             r      == Rename(f, p, q)
  <2>1. moved \subseteq DOMAIN f
    BY DEF Subtree
  <2>2. r = [x \in kept \cup {New(y) : y \in moved} |->
               IF x \in kept THEN f[x] ELSE f[CHOOSE y \in moved : New(y) = x]]
    BY DEF Rename
  <2>3. ASSUME NEW x \in DOMAIN r
        PROVE  r[x] \in Kinds
    <3> HIDE DEF New, moved, r
    <3>1. CASE x \in kept
      BY <2>2, <3>1 DEF IsFs
    <3>2. CASE x \notin kept
      <4>1. \E y \in moved : New(y) = x
        BY <2>2, <3>2
      <4>2. (CHOOSE y \in moved : New(y) = x) \in moved
        BY <4>1
      <4>3. QED
        BY <2>1, <2>2, <3>2, <4>2 DEF IsFs
    <3>3. QED
      BY <3>1, <3>2
  <2>4. QED
    BY <2>3 DEF IsFs
<1>4. QED
  BY <1>1, <1>2, <1>3

(* A request changes the files of one storage by one of those operations.  *)
LEMMA NextKeepsFilesInv ==
  ASSUME HandleInv, FilesInv, [Next]_vars
  PROVE  FilesInv'
<1>1. \A s \in Storages : IsFs(fs[s])
  BY DEF FilesInv, IsFs
<1>2. ASSUME NEW s \in Storages, NEW f, IsFs(f), fs' = [fs EXCEPT ![s] = f]
      PROVE  FilesInv'
  BY <1>2 DEF FilesInv, IsFs
<1>3. ASSUME NEW s, NEW h, s \in Holders(h)
      PROVE  s \in Storages /\ h \in DOMAIN objects[s] /\ objects[s][h].kind \in Kinds
  BY <1>3 DEF Holders, HandleInv, IsObject
<1>4. CASE UNCHANGED fs
  BY <1>4 DEF FilesInv
<1>5. CASE SendInfo
  <2>1. PICK s \in Storages, name \in Names, kind \in Kinds :
          \E parent \in Folders(s) \cup StrayHandles :
            SendObjectInfo(s, parent, name, kind)
    BY <1>5 DEF SendInfo
  <2>2. UNCHANGED fs \/ \E dest : fs' = [fs EXCEPT ![s] = Create(@, dest, kind)]
    BY <2>1 DEF SendObjectInfo
  <2>3. QED
    BY <1>1, <1>2, <1>4, <2>2, FileOperations
<1>6. CASE Delete
  <2>1. PICK h \in Items : DeleteObject(h)
    BY <1>6 DEF Delete
  <2>2. PICK s \in Holders(h) :
          UNCHANGED fs \/ \E p : fs' = [fs EXCEPT ![s] = Unlink(@, p)]
    BY <2>1 DEF DeleteObject
  <2>3. QED
    BY <1>1, <1>2, <1>3, <1>4, <2>2, FileOperations
<1>7. CASE Move
  <2>1. PICK h \in Items, t \in Storages, parent \in Targets :
          MoveObject(h, t, parent)
    BY <1>7 DEF Move
  <2>2. PICK s \in Holders(h) :
          \/ UNCHANGED fs
          \/ \E q : fs' = [fs EXCEPT ![s] = Rename(@, objects[s][h].path, q)]
    BY <2>1 DEF MoveObject
  <2>3. QED
    BY <1>1, <1>2, <1>3, <1>4, <2>2, FileOperations
<1>8. CASE Copy
  <2>1. PICK h \in Items, t \in Storages, parent \in Targets :
          CopyObject(h, t, parent)
    BY <1>8 DEF Copy
  <2>2. PICK s \in Holders(h) :
          \/ UNCHANGED fs
          \/ \E p : fs' = [fs EXCEPT ![s] = Create(@, p, objects[s][h].kind)]
    BY <2>1 DEF CopyObject
  <2>3. QED
    BY <1>1, <1>2, <1>3, <1>4, <2>2, FileOperations
<1>9. CASE SetName
  <2>1. PICK h \in Items, name \in Names : SetObjectPropValue(h, name)
    BY <1>9 DEF SetName
  <2>2. PICK s \in Holders(h) :
          \/ UNCHANGED fs
          \/ \E q : fs' = [fs EXCEPT ![s] = Rename(@, objects[s][h].path, q)]
    BY <2>1 DEF SetObjectPropValue
  <2>3. QED
    BY <1>1, <1>2, <1>3, <1>4, <2>2, FileOperations
<1>10. CASE List \/ PropList \/ SendData \/ UNCHANGED vars
  BY <1>4, <1>10 DEF List, PropList, SendData, GetObjectHandles,
     GetObjectPropList, SendObject, vars
<1>11. QED
  BY <1>5, <1>6, <1>7, <1>8, <1>9, <1>10 DEF Next

-------------------------------------------------------------------------------
(* The rest of the type invariant: what the server and the histories keep. *)
ServerInv ==
  /\ last_sent = Null \/ last_sent \in Storages \X (1..MaxHandle)
  /\ response \in Codes
  /\ displaced \subseteq Storages \X Nat
  /\ changes \in 0..MaxChanges

(* The server's pointers, response and counters keep their types.          *)
LEMMA NextKeepsServerInv ==
  ASSUME HandleInv, ServerInv, [Next]_vars
  PROVE  ServerInv'
<1>1. s_handle \in Nat /\ MaxHandle \in Nat
  BY StorageAssumption DEF HandleInv, StorageAssumption
<1>2. changes' \in 0..MaxChanges
  <2>1. UNCHANGED changes \/ Count
    BY DEF Next, List, PropList, SendInfo, SendData, Delete, Move, Copy, SetName, vars
  <2>2. QED
    BY <2>1, StorageAssumption DEF ServerInv, Count, StorageAssumption
<1>3. last_sent' = Null \/ last_sent' \in Storages \X (1..MaxHandle)
  <2>1. CASE SendInfo
    <3>1. PICK s \in Storages : last_sent' = <<s, NewHandle>> /\ NewHandle <= MaxHandle
      BY <2>1 DEF SendInfo, SendObjectInfo
    <3>2. NewHandle \in 1..MaxHandle
      BY <1>1, <3>1 DEF NewHandle
    <3>3. QED
      BY <3>1, <3>2
  <2>2. CASE ~SendInfo
    <3>1. CASE List \/ PropList \/ SendData \/ Delete \/ SetName \/ UNCHANGED vars
      BY <3>1 DEF List, PropList, SendData, Delete, SetName, GetObjectHandles,
         GetObjectPropList, SendObject, DeleteObject, SetObjectPropValue, vars,
         ServerInv
    <3>2. CASE Move
      BY <3>2 DEF Move, MoveObject, ServerInv
    <3>3. CASE Copy
      BY <3>3 DEF Copy, CopyObject, ServerInv
    <3>4. QED
      BY <2>2, <3>1, <3>2, <3>3 DEF Next
  <2>3. QED
    BY <2>1, <2>2
<1>4. response' \in Codes
  <2>1. CASE List \/ PropList \/ SendInfo \/ SendData
    BY <2>1 DEF List, PropList, SendInfo, SendData, GetObjectHandles,
       GetObjectPropList, SendObjectInfo, SendObject, Codes
  <2>2. CASE Delete \/ SetName
    BY <2>2 DEF Delete, SetName, DeleteObject, SetObjectPropValue, Codes
  <2>3. CASE Move
    <3>1. response' \in {"Store_Not_Available", "Invalid_ObjectHandle", "OK",
                         "General_Error"}
      <4>1. PICK h \in Items, t \in Storages, parent \in Targets :
              MoveObject(h, t, parent)
        BY <2>3 DEF Move
      <4>2. QED
        BY <4>1, Zenon DEF MoveObject
    <3>2. QED
      BY <3>1 DEF Codes
  <2>4. CASE Copy
    <3>1. response' \in {"Store_Not_Available", "Invalid_ObjectHandle", "OK"}
      <4>1. PICK h \in Items, t \in Storages, parent \in Targets :
              CopyObject(h, t, parent)
        BY <2>4 DEF Copy
      <4>2. QED
        BY <4>1, Zenon DEF CopyObject
    <3>2. QED
      BY <3>1 DEF Codes
  <2>5. CASE UNCHANGED vars
    BY <2>5 DEF vars, ServerInv
  <2>6. QED
    BY <2>1, <2>2, <2>3, <2>4, <2>5 DEF Next
<1>5. displaced' \subseteq Storages \X Nat
  <2>1. ASSUME NEW s, NEW h, s \in Holders(h)
        PROVE  s \in Storages /\ h \in Nat
    BY <2>1, HandlesAreNat DEF Holders
  <2>2. NewHandle \in Nat
    BY <1>1 DEF NewHandle
  <2>3. CASE Move
    <3>1. PICK h \in Items, t \in Storages, parent \in Targets :
            MoveObject(h, t, parent)
      BY <2>3 DEF Move
    <3>2. PICK s \in Holders(h) :
            displaced' = displaced \/ displaced' = displaced \cup {<<s, h>>}
      BY <3>1 DEF MoveObject
    <3>3. QED
      BY <2>1, <3>2 DEF ServerInv
  <2>4. CASE Copy
    <3>1. PICK h \in Items, t \in Storages, parent \in Targets :
            CopyObject(h, t, parent)
      BY <2>4 DEF Copy
    <3>2. PICK s \in Holders(h) :
            displaced' = displaced \/ displaced' = displaced \cup {<<s, NewHandle>>}
      BY <3>1 DEF CopyObject
    <3>3. QED
      BY <2>1, <2>2, <3>2 DEF ServerInv
  <2>5. CASE SetName
    <3>1. PICK h \in Items, name \in Names : SetObjectPropValue(h, name)
      BY <2>5 DEF SetName
    <3>2. PICK s \in Holders(h) : displaced' = displaced \cup {<<s, h>>}
      BY <3>1 DEF SetObjectPropValue
    <3>3. QED
      BY <2>1, <3>2 DEF ServerInv
  <2>6. CASE List \/ PropList \/ SendInfo \/ SendData \/ Delete \/ UNCHANGED vars
    BY <2>6 DEF List, PropList, SendInfo, SendData, Delete, GetObjectHandles,
       GetObjectPropList, SendObjectInfo, SendObject, DeleteObject, vars, ServerInv
  <2>7. QED
    BY <2>3, <2>4, <2>5, <2>6 DEF Next
<1>6. QED
  BY <1>2, <1>3, <1>4, <1>5 DEF ServerInv

-------------------------------------------------------------------------------
(* The inductive invariant.                                                *)
IInv == HandleInv /\ FilesInv /\ ServerInv

(* The invariant holds at the start,                                       *)
LEMMA InitIInv == Init => IInv
<1>1. ASSUME Init PROVE FilesInv /\ ServerInv
  BY <1>1, StorageAssumption DEF Init, FilesInv, ServerInv, Codes, StorageAssumption
<1>2. QED
  BY <1>1, InitHandleInv DEF IInv

(* is kept by every step,                                                  *)
LEMMA NextIInv == IInv /\ [Next]_vars => IInv'
  BY NextKeepsHandleInv, NextKeepsFilesInv, NextKeepsServerInv DEF IInv

(* and implies the properties.                                             *)
LEMMA IInvImplies == IInv => TypeOK /\ KnownPathsResolve /\ HandlesUnique
<1> SUFFICES ASSUME IInv
             PROVE  TypeOK /\ KnownPathsResolve /\ HandlesUnique
  OBVIOUS
<1>1. \A s \in Storages : \A h \in DOMAIN objects[s] : h \in Nat /\ IsObject(objects[s][h])
  BY HandlesAreNat DEF IInv, HandleInv
<1>2. \A s \in Storages : \A p \in DOMAIN known_paths[s] : known_paths[s][p] \in Nat
  <2>1. \A s \in Storages : \A p \in DOMAIN known_paths[s] :
          known_paths[s][p] \in DOMAIN objects[s]
    BY DEF IInv, HandleInv, KnownPathsResolve
  <2>2. QED
    BY <1>1, <2>1
<1>3. QED
  BY <1>1, <1>2 DEF IInv, HandleInv, FilesInv, ServerInv, TypeOK

(* In every execution, for any storages, contents, names and host.         *)
THEOREM Invariance == Spec => []IInv
<1>1. QED
  BY InitIInv, NextIInv, PTL DEF Spec

(* The types mtp_storage.hpp and mtp_server.hpp declare are kept.          *)
THEOREM TypeCorrect == Spec => []TypeOK
<1>1. IInv => TypeOK
  BY IInvImplies
<1>2. QED
  BY <1>1, Invariance, PTL

(* Whatever a host asks for, even below parents that do not exist, the     *)
(* handle cache_directory finds for a path has an object.                  *)
THEOREM KnownPathsAlwaysResolve == Spec => []KnownPathsResolve
<1>1. IInv => KnownPathsResolve
  BY IInvImplies
<1>2. QED
  BY <1>1, Invariance, PTL

(* Whatever a host asks for, no handle but the root's is listed twice.     *)
THEOREM HandlesAlwaysUnique == Spec => []HandlesUnique
<1>1. IInv => HandlesUnique
  BY IInvImplies
<1>2. QED
  BY <1>1, Invariance, PTL

-------------------------------------------------------------------------------
(* LastSentLives is inductive together with where its handle comes from:   *)
(* one already given out is not given out to another object.               *)
SentInv ==
  /\ LastSentLives
  /\ last_sent # Null => last_sent \in Storages \X (1..s_handle)

(* A request that does not move the pointers leaves their object alone.    *)
LEMMA KeptPointersLive ==
  ASSUME HandleInv, SentInv, UNCHANGED last_sent,
         (\E s \in Storages : Grows(s)) \/ UNCHANGED database
  PROVE  SentInv'
<1>1. s_handle \in Nat
  BY StorageAssumption DEF HandleInv, StorageAssumption
<1>2. CASE UNCHANGED database
  BY <1>2 DEF SentInv, LastSentLives, database
<1>3. CASE \E s \in Storages : Grows(s)
  <2>1. PICK s \in Storages : Grows(s)
    BY <1>3
  <2>2. s_handle' \in Nat /\ s_handle <= s_handle'
    BY <1>1, <2>1, StorageAssumption DEF Grows, StorageAssumption
  <2> SUFFICES ASSUME last_sent # Null
               PROVE  /\ last_sent \in Storages \X (1..s_handle')
                      /\ last_sent[2] \in DOMAIN objects'[last_sent[1]]
                      /\ objects'[last_sent[1]][last_sent[2]].handle = last_sent[2]
    BY DEF SentInv, LastSentLives
  <2>3. PICK t \in Storages, h \in 1..s_handle : last_sent = <<t, h>>
    BY DEF SentInv
  <2>4. h \in DOMAIN objects[t] /\ objects[t][h].handle = h
    BY <2>3 DEF SentInv, LastSentLives
  <2>5. h \notin NewHandles
    BY <1>1, <2>2 DEF NewHandles
  <2>6. h \in DOMAIN objects'[t] /\ objects'[t][h].handle = h
    <3>1. CASE t = s
      BY <2>1, <2>4, <2>5, <3>1 DEF Grows
    <3>2. CASE t # s
      BY <2>1, <2>4, <3>2 DEF Grows
    <3>3. QED
      BY <3>1, <3>2
  <2>7. h \in 1..s_handle'
    BY <1>1, <2>2
  <2>8. QED
    BY <2>3, <2>6, <2>7
<1>4. QED
  BY <1>2, <1>3

(* SendObjectInfo moves them to the object it makes.                       *)
LEMMA NextKeepsSentInv ==
  ASSUME HandleInv, FilesInv, SentInv, [Next]_vars
  PROVE  SentInv'
<1>1. CASE SendInfo
  <2>1. PICK s \in Storages, name \in Names, kind \in Kinds :
          \E parent \in Folders(s) \cup StrayHandles :
            SendObjectInfo(s, parent, name, kind)
    BY <1>1 DEF SendInfo
  <2>2. PICK parent : SendObjectInfo(s, parent, name, kind)
    BY <2>1
  <2> DEFINE objs == Touch(objects[s], parent)
             dest == objs[parent].path \o name
             obj  == NewObject(kind, name, Terminated(dest, kind), NewHandle, parent)
  <2>3. /\ last_sent' = <<s, NewHandle>> /\ s_handle' = NewHandle
        /\ objects' = [objects EXCEPT ![s] = Assign(objs, NewHandle, obj)]
    BY <2>2 DEF SendObjectInfo
  <2>4. NewHandle \in 1..s_handle'
    <3>1. s_handle \in Nat
      BY StorageAssumption DEF HandleInv, StorageAssumption
    <3>2. QED
      BY <2>3, <3>1 DEF NewHandle
  <2>5. obj.handle = NewHandle
    BY DEF NewObject
  <2>6. objects'[s] = Assign(objs, NewHandle, obj)
    <3> HIDE DEF objs, obj
    <3>1. QED
      BY <2>3 DEF HandleInv
  <2>7. NewHandle \in DOMAIN objects'[s] /\ objects'[s][NewHandle] = obj
    <3> HIDE DEF objs, obj
    <3>1. QED
      BY <2>6 DEF Assign
  <2> HIDE DEF obj
  <2>8. QED
    BY <2>3, <2>4, <2>5, <2>7 DEF SentInv, LastSentLives
<1>2. CASE ~SendInfo
  <2>1. UNCHANGED last_sent
    <3>1. CASE List \/ PropList \/ SendData \/ Delete \/ SetName \/ UNCHANGED vars
      BY <3>1 DEF List, PropList, SendData, Delete, SetName, GetObjectHandles,
         GetObjectPropList, SendObject, DeleteObject, SetObjectPropValue, vars
    <3>2. CASE Move
      BY <3>2 DEF Move, MoveObject
    <3>3. CASE Copy
      BY <3>3 DEF Copy, CopyObject
    <3>4. QED
      BY <1>2, <3>1, <3>2, <3>3 DEF Next
  <2>2. (\E s \in Storages : Grows(s)) \/ UNCHANGED database
    BY NextGrows
  <2>3. QED
    BY <2>1, <2>2, KeptPointersLive
<1>3. QED
  BY <1>1, <1>2

(* What SendObjectInfo leaves for SendObject is there however many         *)
(* requests, of whatever kind, come in between.                            *)
THEOREM LastSentAlwaysLives == Spec => []LastSentLives
<1>1. Init => SentInv
  BY DEF Init, SentInv, LastSentLives
<1>2. IInv /\ SentInv /\ [Next]_vars => SentInv'
  BY NextKeepsSentInv DEF IInv
<1>3. SentInv => LastSentLives
  BY DEF SentInv
<1>4. QED
  BY <1>1, <1>2, <1>3, Invariance, PTL DEF Spec

-------------------------------------------------------------------------------
(* An object only comes to be under a handle given out for it, in one      *)
(* storage, or under one the host made up.                                 *)

(* A new object is in the storage that made it, under a handle nobody has. *)
LEMMA GrowsKeepsOneStorage ==
  ASSUME HandleInv, OneStoragePerHandle, NEW s \in Storages, Grows(s)
  PROVE  OneStoragePerHandle'
<1> SUFFICES ASSUME NEW t \in Storages, NEW u \in Storages, t # u,
                    NEW h \in DOMAIN objects'[t], h \in DOMAIN objects'[u],
                    h \notin StrayHandles
             PROVE  h = RootHandle
  BY DEF OneStoragePerHandle
<1>1. s_handle \in Nat /\ s_handle' \in Nat /\ s_handle' <= MaxHandle
      /\ MaxHandle \in Nat /\ RootHandle \in Nat /\ MaxHandle < RootHandle
  BY StorageAssumption DEF HandleInv, Grows, StorageAssumption
<1>2. ASSUME NEW x \in Storages, h \in DOMAIN objects'[x]
      PROVE  h \in DOMAIN objects[x] \/ (x = s /\ h \in NewHandles)
  BY <1>2 DEF Grows
<1>3. ASSUME NEW x \in Storages, h \in DOMAIN objects[x], h \in NewHandles
      PROVE  FALSE
  <2>1. h \in 1..s_handle \/ h = RootHandle
    BY <1>3 DEF HandleInv
  <2>2. QED
    BY <1>1, <1>3, <2>1 DEF NewHandles
<1>4. CASE h \in DOMAIN objects[t] /\ h \in DOMAIN objects[u]
  BY <1>4 DEF OneStoragePerHandle
<1>5. QED
  BY <1>2, <1>3, <1>4

(* find_handle finds one object at most, whatever storage it asks first,   *)
(* under every handle but the root's and those a host made up as parents.  *)
THEOREM HandlesAlwaysInOneStorage == Spec => []OneStoragePerHandle
<1>1. Init => OneStoragePerHandle
  BY DEF Init, OneStoragePerHandle
<1>2. IInv /\ OneStoragePerHandle /\ [Next]_vars => OneStoragePerHandle'
  <2> SUFFICES ASSUME IInv, OneStoragePerHandle, [Next]_vars
               PROVE  OneStoragePerHandle'
    OBVIOUS
  <2>1. CASE \E s \in Storages : Grows(s)
    BY <2>1, GrowsKeepsOneStorage DEF IInv
  <2>2. CASE UNCHANGED database
    BY <2>2 DEF OneStoragePerHandle, database
  <2>3. QED
    BY <2>1, <2>2, NextGrows DEF IInv
<1>3. QED
  BY <1>1, <1>2, Invariance, PTL DEF Spec

-------------------------------------------------------------------------------
(* The refinement: a growing step issues handles, or is not seen.          *)
LEMMA GrowsIssues ==
  ASSUME StrayHandles = {}, HandleInv, NEW s \in Storages, Grows(s)
  PROVE  Registry!Issue(s) \/ UNCHANGED Registry!vars
<1> DEFINE kinds == [t \in Storages |-> Kinded(objects[t])]
<1>1. s_handle \in Nat /\ s_handle' \in s_handle..MaxHandle
      /\ MaxHandle \in Nat /\ RootHandle \in Nat /\ MaxHandle < RootHandle
  BY StorageAssumption DEF HandleInv, Grows, StorageAssumption
<1>2. \A h : h \in NewHandles <=> h \in Int /\ s_handle < h /\ h <= s_handle'
  BY <1>1 DEF NewHandles
<1>3. \A h \in DOMAIN objects[s] : h \notin NewHandles
  <2>1. \A h \in DOMAIN objects[s] : h \in 1..s_handle \/ h = RootHandle
    BY DEF HandleInv
  <2>2. QED
    BY <1>1, <2>1 DEF NewHandles
<1>4. \A h \in NewHandles : Registry!New(h)
  BY <1>2 DEF Registry!New
<1>5. Registry!NamesGrow(s)
  <2>1. \A p \in Registry!Rebound(s) :
          p \in DOMAIN known_paths'[s] /\ known_paths'[s][p] \in NewHandles
    BY DEF Grows, Registry!Rebound
  <2>2. DOMAIN known_paths[s] \subseteq DOMAIN known_paths'[s]
    BY DEF Grows
  <2>3. \A p, q \in Registry!Rebound(s) :
          known_paths'[s][p] = known_paths'[s][q] => p = q
    BY <2>1 DEF Grows
  <2>4. QED
    BY <1>4, <2>1, <2>2, <2>3 DEF Registry!NamesGrow
<1>6. Registry!KindsGrow(s)
  <2>1. /\ kinds[s] = [h \in DOMAIN objects[s] |-> objects[s][h].kind]
        /\ kinds'[s] = [h \in DOMAIN objects'[s] |-> objects'[s][h].kind]
    BY DEF Kinded
  <2>2. \A h \in DOMAIN objects[s] :
          h \in DOMAIN objects'[s] /\ objects'[s][h].kind = objects[s][h].kind
    BY <1>3 DEF Grows
  <2>3. \A h \in DOMAIN objects'[s] \ DOMAIN objects[s] : h \in NewHandles
    BY DEF Grows
  <2>4. /\ \A h \in DOMAIN kinds[s] : h \in DOMAIN kinds'[s] /\ kinds'[s][h] = kinds[s][h]
        /\ \A h \in DOMAIN kinds'[s] \ DOMAIN kinds[s] : Registry!New(h)
    BY <1>4, <2>1, <2>2, <2>3
  <2>5. QED
    BY <2>4 DEF Registry!KindsGrow
<1>7. ASSUME NEW t \in Storages \ {s}
      PROVE  known_paths'[t] = known_paths[t] /\ kinds'[t] = kinds[t]
  BY DEF Grows, Kinded
<1>8. CASE s_handle' > s_handle
  BY <1>5, <1>6, <1>7, <1>8 DEF Registry!Issue
<1>9. CASE s_handle' = s_handle
  <2>1. NewHandles = {}
    BY <1>1, <1>9 DEF NewHandles
  <2>2. /\ DOMAIN known_paths'[s] = DOMAIN known_paths[s]
        /\ \A p \in DOMAIN known_paths[s] : known_paths'[s][p] = known_paths[s][p]
    BY <2>1 DEF Grows
  <2>3. /\ DOMAIN objects'[s] = DOMAIN objects[s]
        /\ \A h \in DOMAIN objects[s] : objects'[s][h].kind = objects[s][h].kind
    BY <2>1 DEF Grows
  <2>4. kinds' = kinds
    BY <1>7, <2>3 DEF Kinded
  <2>5. known_paths' = known_paths
    <3>1. known_paths'[s] = known_paths[s]
      BY <2>2 DEF HandleInv, Grows, IsMap
    <3>2. \A t \in Storages : known_paths'[t] = known_paths[t]
      BY <1>7, <3>1
    <3>3. QED
      BY <3>2 DEF HandleInv, Grows, IsMap
  <2>6. QED
    BY <1>9, <2>4, <2>5 DEF Registry!vars
<1>10. QED
  BY <1>1, <1>8, <1>9

(* Every step of the database is a step of the registry or a stutter.      *)
LEMMA NextRefines ==
  StrayHandles = {} /\ IInv /\ [Next]_vars => [Registry!Next]_(Registry!vars)
<1> SUFFICES ASSUME StrayHandles = {}, IInv, [Next]_vars
             PROVE  Registry!Next \/ UNCHANGED Registry!vars
  OBVIOUS
<1>1. CASE \E s \in Storages : Grows(s)
  BY <1>1, GrowsIssues DEF IInv, Registry!Next
<1>2. CASE UNCHANGED database
  BY <1>2 DEF database, Registry!vars, Kinded
<1>3. QED
  BY <1>1, <1>2, NextGrows DEF IInv

(* For every host that names no parent it was not given, the database is a *)
(* registry: a handle is issued once, for one storage, and stays what it   *)
(* was; a path is only bound again to a handle issued for that.            *)
THEOREM ImplementsRegistry == StrayHandles = {} => (Spec => RegistrySpec)
<1> SUFFICES ASSUME StrayHandles = {}
             PROVE  Spec => RegistrySpec
  OBVIOUS
<1>1. Init => Registry!Init
  BY DEF Init, Registry!Init, Kinded, RootObject, NewObject
<1>2. IInv /\ [Next]_vars => [Registry!Next]_(Registry!vars)
  BY NextRefines
<1>3. QED
  BY <1>1, <1>2, Invariance, PTL DEF Spec, RegistrySpec, Registry!Spec

-------------------------------------------------------------------------------
(* Parents, for a host that lists one level at a time and names parents it *)
(* was given.  (What a deeper listing finds has parents that dangle.)  An  *)
(* object only gets its parent when it is made, from those there are, and  *)
(* loses the path it has from its parent only when it is displaced.        *)

CarefulHost == StrayHandles = {} /\ Depths \subseteq {0, 1}

Parents ==
  /\ ParentsLeadToRoot /\ PathsFollowParents
  /\ \A s \in Storages : objects[s][RootHandle].parent = Null

Adopted(s, h) ==
  LET o == objects'[s][h]
  IN  /\ h \in NewHandles
      /\ o.parent \in DOMAIN objects[s]
      /\ \/ <<s, h>> \in displaced'
         \/ o.path = Terminated(objects[s][o.parent].path \o o.name, o.kind)

Adopts(s) ==
  /\ displaced \subseteq displaced'
  /\ \A t \in Storages \ {s} : objects'[t] = objects[t]
  /\ DOMAIN objects[s] \subseteq DOMAIN objects'[s]
  /\ \A h \in DOMAIN objects[s] :
       /\ objects'[s][h].parent = objects[s][h].parent
       /\ objects'[s][h] = objects[s][h] \/ <<s, h>> \in displaced'
  /\ \A h \in DOMAIN objects'[s] \ DOMAIN objects[s] : Adopted(s, h)

-------------------------------------------------------------------------------
(* Handles of objects are the root's or were given out, so none is new.      *)
LEMMA GivenHandles ==
  ASSUME HandleInv, HandleInv', StrayHandles = {}, NEW s \in Storages, NEW h \in DOMAIN objects[s]
  PROVE  /\ h \in Nat /\ s_handle \in Nat
         /\ h = RootHandle \/ h <= s_handle
         /\ h \notin NewHandles
<1>1. /\ s_handle \in 0..MaxHandle /\ s_handle' \in 0..MaxHandle
      /\ DOMAIN objects[s] \subseteq 1..s_handle \cup {RootHandle} \cup StrayHandles
  BY DEF HandleInv
<1>2. MaxHandle \in Nat /\ RootHandle \in Nat /\ MaxHandle < RootHandle
  BY StorageAssumption DEF StorageAssumption
<1>3. h \in 1..s_handle \/ h = RootHandle
  BY <1>1
<1> QED
  BY <1>1, <1>2, <1>3 DEF NewHandles

(* So they are for a careful host.                                         *)
LEMMA HandlesGiven ==
  ASSUME HandleInv, HandleInv', CarefulHost, NEW s \in Storages, NEW h \in DOMAIN objects[s]
  PROVE  /\ h \in Nat /\ s_handle \in Nat
         /\ h = RootHandle \/ h <= s_handle
         /\ h \notin NewHandles
BY GivenHandles DEF CarefulHost

(* Adopting keeps what is said of parents.                                   *)
LEMMA AdoptsKeepsParents ==
  ASSUME HandleInv, HandleInv', CarefulHost, Parents, NEW s \in Storages, Adopts(s)
  PROVE  Parents'
<1>1. /\ RootHandle \in DOMAIN objects[s] /\ Null \notin Nat /\ RootHandle \in Nat
      /\ s_handle \in Nat
  BY StorageAssumption DEF HandleInv, StorageAssumption
<1>2. ASSUME NEW h \in DOMAIN objects'[s], h \notin DOMAIN objects[s]
      PROVE  /\ h # RootHandle
             /\ objects'[s][h].parent \in DOMAIN objects[s]
             /\ objects'[s][h].parent = RootHandle \/ objects'[s][h].parent < h
  <2>1. h \in NewHandles /\ objects'[s][h].parent \in DOMAIN objects[s]
    BY <1>2 DEF Adopts, Adopted
  <2>2. objects'[s][h].parent = RootHandle \/ objects'[s][h].parent <= s_handle
    BY <2>1, HandlesGiven
  <2>3. objects'[s][h].parent \in Nat
    BY <2>1, HandlesGiven
  <2>4. h \in Int /\ s_handle < h
    <3>1. s_handle' \in Nat
      BY StorageAssumption DEF HandleInv, StorageAssumption
    <3> QED
      BY <1>1, <2>1, <3>1 DEF NewHandles
  <2> QED
    BY <1>1, <1>2, <2>1, <2>2, <2>3, <2>4
<1>3. ParentsLeadToRoot'
  <2> SUFFICES ASSUME NEW t \in Storages, NEW h \in DOMAIN objects'[t] \ {RootHandle}
               PROVE  /\ objects'[t][h].parent \in DOMAIN objects'[t]
                      /\ objects'[t][h].parent = RootHandle \/ objects'[t][h].parent < h
    BY DEF ParentsLeadToRoot
  <2>1. CASE t # s
    BY <2>1 DEF Parents, ParentsLeadToRoot, Adopts
  <2>2. CASE t = s /\ h \in DOMAIN objects[s]
    BY <2>2 DEF Parents, ParentsLeadToRoot, Adopts
  <2>3. CASE t = s /\ h \notin DOMAIN objects[s]
    BY <1>2, <2>3 DEF Adopts
  <2> QED
    BY <2>1, <2>2, <2>3
<1>4. PathsFollowParents'
  <2> SUFFICES ASSUME NEW t \in Storages, NEW h \in DOMAIN objects'[t],
                      objects'[t][h].parent \in DOMAIN objects'[t],
                      <<t, h>> \notin displaced', <<t, objects'[t][h].parent>> \notin displaced'
               PROVE  objects'[t][h].path
                        = Terminated(objects'[t][objects'[t][h].parent].path \o objects'[t][h].name,
                                     objects'[t][h].kind)
    BY DEF PathsFollowParents
  <2>1. CASE t # s
    BY <2>1 DEF Parents, PathsFollowParents, Adopts
  <2>2. CASE t = s /\ h \in DOMAIN objects[s]
    <3> DEFINE parent == objects[s][h].parent
    <3>1. objects'[s][h] = objects[s][h] /\ <<s, h>> \notin displaced
      BY <2>2 DEF Adopts
    <3>2. h # RootHandle
      <4>1. parent \in Nat
        <5>1. \A x \in DOMAIN objects'[s] : x \in 1..s_handle' \cup {RootHandle}
          BY DEF HandleInv, CarefulHost
        <5> QED
          BY <1>1, <2>2, <3>1, <5>1
      <4> QED
        BY <1>1, <4>1 DEF Parents
    <3>3. parent \in DOMAIN objects[s]
      BY <2>2, <3>2 DEF Parents, ParentsLeadToRoot
    <3>4. objects'[s][parent] = objects[s][parent] /\ <<s, parent>> \notin displaced
      BY <2>2, <3>1, <3>3 DEF Adopts
    <3>5. objects[s][h].path = Terminated(objects[s][parent].path \o objects[s][h].name,
                                          objects[s][h].kind)
      BY <2>2, <3>1, <3>3, <3>4 DEF Parents, PathsFollowParents
    <3> QED
      BY <2>2, <3>1, <3>4, <3>5
  <2>3. CASE t = s /\ h \notin DOMAIN objects[s]
    <3> DEFINE parent == objects'[s][h].parent
    <3>1. Adopted(s, h)
      BY <2>3 DEF Adopts
    <3>2. parent \in DOMAIN objects[s]
      BY <3>1 DEF Adopted
    <3>3. objects'[s][parent] = objects[s][parent]
      BY <2>3, <3>2 DEF Adopts
    <3>4. objects'[s][h].path = Terminated(objects[s][parent].path \o objects'[s][h].name,
                                           objects'[s][h].kind)
      BY <2>3, <3>1 DEF Adopted
    <3> QED
      BY <2>3, <3>3, <3>4
  <2> QED
    BY <2>1, <2>2, <2>3
<1>5. \A t \in Storages : objects'[t][RootHandle].parent = Null
  BY <1>1 DEF Parents, Adopts
<1> QED
  BY <1>3, <1>4, <1>5 DEF Parents

(* A step that changes neither objects nor displaced does as well.           *)
LEMMA StutterKeepsParents ==
  ASSUME Parents, UNCHANGED <<objects, displaced>>
  PROVE  Parents'
BY DEF Parents, ParentsLeadToRoot, PathsFollowParents

-------------------------------------------------------------------------------
Itself(s, h) == [path |-> objects[s][h].path, live |-> TRUE]
IsChild(s, h, e) == e.parent = h /\ e.path = objects[s][h].path \o e.name

(* A listing of one level, or of none, reads the directory of the object     *)
(* itself.                                                                   *)
LEMMA OneLevelListed ==
  ASSUME NEW s, NEW h, NEW depth \in {0, 1}
  PROVE  Listed(s, h, depth) \subseteq {Itself(s, h)}
<1>1. 2..depth = {}
  OBVIOUS
<1> QED
  BY <1>1 DEF Listed, Itself

(* What it finds are children of the object, under the path the object has.  *)
LEMMA FoundIsChild ==
  ASSUME NEW s, NEW h, NEW depth \in {0, 1}, NEW e \in Found(s, h, Listed(s, h, depth))
  PROVE  IsChild(s, h, e)
<1>1. PICK d \in Listed(s, h, depth) : \E c \in Entries(fs[s], d.path) :
        e = NewObject(fs[s][c], BaseName(c), d.path \o BaseName(c), 0,
                      IF d.live THEN h ELSE Dangling)
  BY DEF Found
<1>2. d.live /\ d.path = objects[s][h].path
  BY OneLevelListed DEF Itself
<1> QED
  BY <1>1, <1>2 DEF NewObject, IsChild

(* So what it makes objects of are children.                                 *)
LEMMA CacheDirectoryAdopts ==
  ASSUME HandleInv, HandleInv', FilesInv, CarefulHost,
         NEW s \in Storages, NEW h \in DOMAIN objects[s], NEW depth \in {0, 1},
         CacheDirectory(s, h, depth), UNCHANGED displaced
  PROVE  Adopts(s)
<1> DEFINE fresh == {e \in Found(s, h, Listed(s, h, depth)) :
                       e.path \notin DOMAIN known_paths[s]}
           new   == (s_handle + 1)..(s_handle + Cardinality({e.path : e \in fresh}))
<1>1. PICK entry \in [new -> fresh] :
        objects' = [objects EXCEPT ![s] =
          [i \in DOMAIN @ \cup new |->
             IF i \in new THEN [entry[i] EXCEPT !.path = Terminated(@, entry[i].kind),
                                                !.handle = i]
                          ELSE @[i]]]
  BY DEF CacheDirectory
<1>2. new = NewHandles
  BY DEF CacheDirectory, NewHandles
<1> DEFINE Made(i) == [entry[i] EXCEPT !.path = Terminated(@, entry[i].kind), !.handle = i]
<1>3. objects'[s] = [i \in DOMAIN objects[s] \cup new |->
                       IF i \in new THEN Made(i) ELSE objects[s][i]]
  BY <1>1 DEF HandleInv
<1>4. \A t \in Storages \ {s} : objects'[t] = objects[t]
  BY <1>1 DEF HandleInv
<1>5. ASSUME NEW i \in new
      PROVE  /\ Made(i).parent = h
             /\ Made(i).path = Terminated(objects[s][h].path \o Made(i).name, Made(i).kind)
  <2>1. entry[i] \in Found(s, h, Listed(s, h, depth))
    OBVIOUS
  <2>2. IsObject(entry[i])
    BY <2>1, FoundIsObject
  <2>3. entry[i].parent = h /\ entry[i].path = objects[s][h].path \o entry[i].name
    <3>1. IsChild(s, h, entry[i])
      BY <2>1, FoundIsChild
    <3> QED
      BY <3>1 DEF IsChild
  <2>4. /\ Made(i).parent = entry[i].parent /\ Made(i).name = entry[i].name
        /\ Made(i).kind = entry[i].kind
        /\ Made(i).path = Terminated(entry[i].path, entry[i].kind)
    BY <2>2 DEF IsObject
  <2> HIDE DEF Made
  <2> QED
    BY <2>3, <2>4
<1> HIDE DEF Made, new
<1>6. \A i \in DOMAIN objects[s] : i \notin new /\ objects'[s][i] = objects[s][i]
  BY <1>2, <1>3, HandlesGiven
<1>7. \A i \in DOMAIN objects'[s] \ DOMAIN objects[s] : Adopted(s, i)
  <2> SUFFICES ASSUME NEW i \in DOMAIN objects'[s] \ DOMAIN objects[s]
               PROVE  Adopted(s, i)
    OBVIOUS
  <2>1. i \in new /\ objects'[s][i] = Made(i)
    BY <1>3
  <2> QED
    BY <1>2, <1>5, <2>1 DEF Adopted
<1> QED
  BY <1>3, <1>4, <1>6, <1>7 DEF Adopts

(* The object SendObjectInfo makes is below the folder the host names.       *)
LEMMA SendObjectInfoAdopts ==
  ASSUME HandleInv, HandleInv', CarefulHost,
         NEW s \in Storages, NEW parent \in DOMAIN objects[s], NEW name, NEW kind \in Kinds,
         SendObjectInfo(s, parent, name, kind)
  PROVE  Adopts(s)
<1> DEFINE path == Terminated(objects[s][parent].path \o name, kind)
           obj == NewObject(kind, name, path, NewHandle, parent)
<1>1. objects' = [objects EXCEPT ![s] = Assign(@, NewHandle, obj)]
  BY DEF SendObjectInfo, Touch
<1>2. obj.parent = parent /\ obj.path = path /\ obj.name = name /\ obj.kind = kind
  BY DEF NewObject
<1>3. NewHandle \in NewHandles
  <2>1. s_handle \in Nat /\ s_handle' = s_handle + 1
    BY StorageAssumption DEF HandleInv, StorageAssumption, SendObjectInfo, NewHandle
  <2> QED
    BY <2>1 DEF NewHandles, NewHandle
<1>4. NewHandle \notin DOMAIN objects[s]
  BY <1>3, HandlesGiven
<1> HIDE DEF obj
<1>5. /\ \A t \in Storages \ {s} : objects'[t] = objects[t]
      /\ objects'[s] = Assign(objects[s], NewHandle, obj)
  BY <1>1 DEF HandleInv
<1>6. /\ DOMAIN objects'[s] = DOMAIN objects[s] \cup {NewHandle}
      /\ objects'[s][NewHandle] = obj
      /\ \A h \in DOMAIN objects[s] : objects'[s][h] = objects[s][h]
  BY <1>4, <1>5 DEF Assign
<1>7. Adopted(s, NewHandle)
  BY <1>2, <1>3, <1>6 DEF Adopted
<1>8. displaced' = displaced
  BY DEF SendObjectInfo
<1> QED
  BY <1>5, <1>6, <1>7, <1>8 DEF Adopts

(* Moves and renames leave the parent, and displace what they rewrite.       *)
LEMMA RewriteAdopts ==
  ASSUME HandleInv, NEW s \in Storages, NEW h \in DOMAIN objects[s], NEW o,
         o.parent = objects[s][h].parent,
         objects' = [objects EXCEPT ![s][h] = o],
         displaced' = displaced \cup {<<s, h>>}
  PROVE  Adopts(s)
<1>1. /\ DOMAIN objects'[s] = DOMAIN objects[s]
      /\ objects'[s][h] = o
      /\ \A g \in DOMAIN objects[s] \ {h} : objects'[s][g] = objects[s][g]
      /\ \A t \in Storages \ {s} : objects'[t] = objects[t]
  BY DEF HandleInv
<1> QED
  BY <1>1 DEF Adopts

(* A move, done, failed or refused.                                          *)
LEMMA MoveObjectAdopts ==
  ASSUME HandleInv, NEW h, NEW target, NEW parent, MoveObject(h, target, parent)
  PROVE  (\E s \in Storages : Adopts(s)) \/ UNCHANGED <<objects, displaced>>
<1>1. PICK s \in Holders(h) :
        \/ UNCHANGED <<objects, displaced>>
        \/ /\ displaced' = displaced \cup {<<s, h>>}
           /\ \E path : \/ objects' = [objects EXCEPT ![s] = [@ EXCEPT ![h].path = path]]
                        \/ objects' = [objects EXCEPT ![s][h].path = path]
  BY DEF MoveObject
<1>2. s \in Storages /\ h \in DOMAIN objects[s] /\ IsObject(objects[s][h])
  BY DEF Holders, HandleInv
<1>3. ASSUME displaced' = displaced \cup {<<s, h>>}, NEW path,
             \/ objects' = [objects EXCEPT ![s] = [@ EXCEPT ![h].path = path]]
             \/ objects' = [objects EXCEPT ![s][h].path = path]
      PROVE  Adopts(s)
  <2> DEFINE o == [objects[s][h] EXCEPT !.path = path]
  <2>1. o.parent = objects[s][h].parent
    BY <1>2 DEF IsObject
  <2>2. objects' = [objects EXCEPT ![s][h] = o]
    BY <1>3
  <2> HIDE DEF o
  <2> QED
    BY <1>2, <1>3, <2>1, <2>2, RewriteAdopts
<1> QED
  BY <1>1, <1>2, <1>3

(* A rename.                                                                 *)
LEMMA SetObjectPropValueAdopts ==
  ASSUME HandleInv, NEW h, NEW name, SetObjectPropValue(h, name)
  PROVE  \E s \in Storages : Adopts(s)
<1>1. PICK s \in Holders(h) :
        /\ displaced' = displaced \cup {<<s, h>>}
        /\ \E path : objects' = [objects EXCEPT ![s][h].name = name, ![s][h].path = path]
  BY DEF SetObjectPropValue
<1>2. PICK path : objects' = [objects EXCEPT ![s][h].name = name, ![s][h].path = path]
  BY <1>1
<1>3. s \in Storages /\ h \in DOMAIN objects[s] /\ IsObject(objects[s][h])
  BY DEF Holders, HandleInv
<1> DEFINE o == [objects[s][h] EXCEPT !.name = name, !.path = path]
<1>4. o.parent = objects[s][h].parent
  BY <1>3 DEF IsObject
<1>5. objects' = [objects EXCEPT ![s][h] = o]
  BY <1>2, <1>3 DEF HandleInv
<1> HIDE DEF o
<1> QED
  BY <1>1, <1>3, <1>4, <1>5, RewriteAdopts

(* A copy has the parent of the original, and is displaced from the start.   *)
LEMMA CopyObjectAdopts ==
  ASSUME HandleInv, HandleInv', CarefulHost, Parents,
         NEW h \in Items, NEW target, NEW parent, CopyObject(h, target, parent)
  PROVE  (\E s \in Storages : Adopts(s)) \/ UNCHANGED <<objects, displaced>>
<1>1. PICK s \in Holders(h) :
        \/ UNCHANGED <<objects, displaced>>
        \/ /\ s_handle' = NewHandle
           /\ displaced' = displaced \cup {<<s, NewHandle>>}
           /\ \E path :
                objects' = [objects EXCEPT ![s] = Assign(@, NewHandle,
                  [objects[s][h] EXCEPT !.handle = NewHandle, !.path = path])]
  BY DEF CopyObject
<1>2. s \in Storages /\ h \in DOMAIN objects[s] /\ IsObject(objects[s][h]) /\ h # RootHandle
  BY DEF Holders, HandleInv, Items
<1>3. ASSUME s_handle' = NewHandle,
             displaced' = displaced \cup {<<s, NewHandle>>},
             NEW path,
             objects' = [objects EXCEPT ![s] = Assign(@, NewHandle,
               [objects[s][h] EXCEPT !.handle = NewHandle, !.path = path])]
      PROVE  Adopts(s)
  <2> DEFINE made == [objects[s][h] EXCEPT !.handle = NewHandle, !.path = path]
  <2>1. made.parent = objects[s][h].parent
    BY <1>2 DEF IsObject
  <2>2. made.parent \in DOMAIN objects[s]
    BY <1>2, <2>1 DEF Parents, ParentsLeadToRoot
  <2>3. NewHandle \in NewHandles
    <3>1. s_handle \in Nat /\ s_handle' = s_handle + 1
      BY <1>3, StorageAssumption DEF HandleInv, StorageAssumption, NewHandle
    <3> QED
      BY <3>1 DEF NewHandles, NewHandle
  <2>4. NewHandle \notin DOMAIN objects[s]
    BY <1>2, <2>3, HandlesGiven
  <2> HIDE DEF made
  <2>5. /\ \A t \in Storages \ {s} : objects'[t] = objects[t]
        /\ objects'[s] = Assign(objects[s], NewHandle, made)
    BY <1>2, <1>3 DEF HandleInv, made
  <2>6. /\ DOMAIN objects'[s] = DOMAIN objects[s] \cup {NewHandle}
        /\ objects'[s][NewHandle] = made
        /\ \A g \in DOMAIN objects[s] : objects'[s][g] = objects[s][g]
    BY <2>4, <2>5 DEF Assign
  <2>7. Adopted(s, NewHandle)
    BY <1>3, <2>2, <2>3, <2>6 DEF Adopted
  <2> QED
    BY <1>3, <2>5, <2>6, <2>7 DEF Adopts
<1> QED
  BY <1>1, <1>2, <1>3

-------------------------------------------------------------------------------
(* Every step adopts objects in one storage or leaves all alone.             *)
LEMMA NextAdopts ==
  ASSUME IInv, IInv', CarefulHost, Parents, [Next]_vars
  PROVE  (\E s \in Storages : Adopts(s)) \/ UNCHANGED <<objects, displaced>>
<1> USE DEF IInv
<1>1. CASE List
  <2>1. PICK s \in Storages, h \in Handles : GetObjectHandles(s, h)
    BY <1>1 DEF List
  <2>2. CASE h \in DOMAIN objects[s]
    <3>1. CacheDirectory(s, h, 1) /\ UNCHANGED displaced
      BY <2>1, <2>2 DEF GetObjectHandles
    <3> QED
      BY <2>2, <3>1, CacheDirectoryAdopts
  <2>3. CASE h \notin DOMAIN objects[s]
    BY <2>1, <2>3 DEF GetObjectHandles
  <2> QED
    BY <2>2, <2>3
<1>2. CASE PropList
  <2>1. PICK h \in Handles, depth \in Depths : GetObjectPropList(h, depth)
    BY <1>2 DEF PropList
  <2>2. PICK s \in Holders(h) : CacheDirectory(s, h, depth) /\ UNCHANGED displaced
    BY <2>1 DEF GetObjectPropList
  <2>3. depth \in {0, 1} /\ s \in Storages /\ h \in DOMAIN objects[s]
    BY DEF CarefulHost, Holders
  <2> QED
    BY <2>2, <2>3, CacheDirectoryAdopts
<1>3. CASE SendInfo
  <2>1. PICK s \in Storages, name \in Names, kind \in Kinds :
          \E parent \in Folders(s) \cup StrayHandles : SendObjectInfo(s, parent, name, kind)
    BY <1>3 DEF SendInfo
  <2>2. PICK parent \in DOMAIN objects[s] : SendObjectInfo(s, parent, name, kind)
    BY <2>1 DEF Folders, CarefulHost
  <2> QED
    BY <2>2, SendObjectInfoAdopts
<1>4. CASE Move
  BY <1>4, MoveObjectAdopts DEF Move
<1>5. CASE Copy
  BY <1>5, CopyObjectAdopts DEF Copy
<1>6. CASE SetName
  BY <1>6, SetObjectPropValueAdopts DEF SetName
<1>7. CASE SendData \/ Delete \/ UNCHANGED vars
  BY <1>7 DEF SendData, SendObject, Delete, DeleteObject, vars
<1> QED
  BY <1>1, <1>2, <1>3, <1>4, <1>5, <1>6, <1>7 DEF Next

(* So every step keeps what is said of parents,                              *)
LEMMA NextKeepsParents ==
  ASSUME IInv, IInv', CarefulHost, Parents, [Next]_vars
  PROVE  Parents'
BY NextAdopts, AdoptsKeepsParents, StutterKeepsParents DEF IInv

(* The root folder of each storage is alone at the start.                    *)
LEMMA InitParents == Init => Parents
<1> SUFFICES ASSUME Init PROVE Parents
  OBVIOUS
<1>1. \A s \in Storages : /\ DOMAIN objects[s] = {RootHandle}
                          /\ objects[s][RootHandle].parent = Null
  BY DEF Init, RootObject, NewObject
<1>2. Null # RootHandle
  BY StorageAssumption DEF StorageAssumption
<1> QED
  BY <1>1, <1>2 DEF Parents, ParentsLeadToRoot, PathsFollowParents

(* and it holds in every execution with a careful host: what find_handle     *)
(* leads to has a parent, made before it.                                    *)
THEOREM ParentsInvariance == CarefulHost => (Spec => []Parents)
<1> SUFFICES ASSUME CarefulHost PROVE Spec => []Parents
  OBVIOUS
<1>1. Init => Parents
  BY InitParents
<1>2. IInv /\ IInv' /\ Parents /\ [Next]_vars => Parents'
  BY NextKeepsParents
<1> QED
  BY <1>1, <1>2, Invariance, PTL DEF Spec

(* Following parent pointers stays within the storage and ends at the root,  *)
(* for a host that lists one level at a time and names parents it was given: *)
(* the reads through object->parent in set_object_prop_value and in the      *)
(* property lists, which check nothing, find an object.                      *)
THEOREM ParentsAlwaysLeadToRoot == CarefulHost => (Spec => []ParentsLeadToRoot)
<1> SUFFICES ASSUME CarefulHost PROVE Spec => []ParentsLeadToRoot
  OBVIOUS
<1>1. Parents => ParentsLeadToRoot
  BY DEF Parents
<1> QED
  BY <1>1, ParentsInvariance, PTL

(* Until one of the two is displaced, the path of an object is its folder's  *)
(* followed by its name, whichever of cache_directory and send_object_info   *)
(* made it, and whatever failed.                                             *)
THEOREM PathsAlwaysFollowParents == CarefulHost => (Spec => []PathsFollowParents)
<1> SUFFICES ASSUME CarefulHost PROVE Spec => []PathsFollowParents
  OBVIOUS
<1>1. Parents => PathsFollowParents
  BY DEF Parents
<1> QED
  BY <1>1, ParentsInvariance, PTL

-------------------------------------------------------------------------------
(* Paths, for a host that names parents it was given and gives names that  *)
(* are none only of separators.                                            *)

(* What follows a path with a name is a name.                              *)
LEMMA NameAfter ==
  ASSUME NEW p \in Seq(Tokens), NEW n, IsName(n)
  PROVE  IsName(p \o n)
<1>1. n \in Seq(Tokens) /\ Len(n) \in Nat /\ Len(n) > 0 /\ Len(p) \in Nat
  BY EmptySeq, LenProperties DEF IsName
<1>2. /\ p \o n \in Seq(Tokens) /\ Len(p \o n) = Len(p) + Len(n)
      /\ \A i \in 1..(Len(p) + Len(n)) :
           (p \o n)[i] = IF i <= Len(p) THEN p[i] ELSE n[i - Len(p)]
  BY <1>1, ConcatProperties
<1> DEFINE q == p \o n
<1>3. Len(q) \in 1..(Len(p) + Len(n)) /\ ~(Len(q) <= Len(p)) /\ Len(q) - Len(p) = Len(n)
  BY <1>1, <1>2
<1>4. q[Len(q)] = n[Len(n)]
  BY <1>2, <1>3
<1>5. q # <<>>
  BY <1>1, <1>2
<1> HIDE DEF q
<1> QED
  BY <1>2, <1>4, <1>5 DEF IsName, Last, q

(* The root's path is a path.                                              *)
LEMMA RootIsPath == RootPath \in Seq(Tokens) /\ Len(RootPath) = 1 /\ RootPath[1] = Sep
<1>1. Sep \in Tokens
  BY DEF Tokens
<1> QED
  BY <1>1 DEF RootPath

(* The path of an object leads to what the path it is known by leads to,   *)
(* and ends in a separator if it is that of a directory.                   *)
LEMMA TerminatedCanon ==
  ASSUME NEW p, IsName(p), NEW kind \in Kinds
  PROVE  LET path == Terminated(p, kind)
         IN  /\ path \in Seq(Tokens) /\ Canon(path) = p
             /\ kind = "dir" <=> Last(path) = Sep
<1>1. p \in Seq(Tokens) /\ Len(p) \in Nat /\ Len(p) > 0 /\ Last(p) # Sep
  BY EmptySeq, LenProperties DEF IsName
<1>2. CASE kind # "dir"
  BY <1>1, <1>2 DEF Terminated, Canon
<1>3. CASE kind = "dir"
  <2> DEFINE q == p \o RootPath
  <2>1. RootPath \in Seq(Tokens) /\ Len(RootPath) = 1 /\ RootPath[1] = Sep
    BY RootIsPath
  <2>2. /\ q \in Seq(Tokens) /\ Len(q) = Len(p) + 1
        /\ \A i \in 1..(Len(p) + 1) :
             q[i] = IF i <= Len(p) THEN p[i] ELSE RootPath[i - Len(p)]
    <3>1. /\ q \in Seq(Tokens) /\ Len(q) = Len(p) + Len(RootPath)
          /\ \A i \in 1..(Len(p) + Len(RootPath)) :
               q[i] = IF i <= Len(p) THEN p[i] ELSE RootPath[i - Len(p)]
      BY <1>1, <2>1, ConcatProperties
    <3> HIDE DEF q
    <3> QED
      BY <2>1, <3>1
  <2>3. Last(q) = Sep
    <3>1. Len(q) \in 1..(Len(p) + 1) /\ ~(Len(q) <= Len(p)) /\ Len(q) - Len(p) = 1
      BY <1>1, <2>2
    <3> HIDE DEF q
    <3> QED
      BY <2>1, <2>2, <3>1 DEF Last
  <2> HIDE DEF q
  <2>4. Front(q) = p
    <3> DEFINE f == SubSeq(q, 1, Len(p))
    <3>1. Len(q) - 1 = Len(p)
      BY <1>1, <2>2
    <3>2. \A i \in 1..Len(p) : q[i] = p[i] /\ q[i] \in Tokens
      BY <1>1, <2>2, ElementOfSeq
    <3>3. /\ f \in Seq(Tokens) /\ Len(f) = IF 1 <= Len(p) THEN Len(p) - 1 + 1 ELSE 0
          /\ \A i \in 1..(Len(p) - 1 + 1) : f[i] = q[1 + i - 1]
      BY <1>1, <3>2, SubSeqProperties
    <3> HIDE DEF f
    <3>4. Len(f) = Len(p)
      BY <1>1, <3>3
    <3>5. ASSUME NEW i \in 1..Len(p) PROVE f[i] = p[i]
      <4>1. 1 + i - 1 = i /\ i \in 1..(Len(p) - 1 + 1)
        BY <1>1
      <4> QED
        BY <3>2, <3>3, <4>1
    <3>6. f = p
      BY <1>1, <3>3, <3>4, <3>5, SeqEqual
    <3> QED
      BY <3>1, <3>6 DEF Front, f
  <2> QED
    BY <1>1, <1>3, <2>2, <2>3, <2>4 DEF Terminated, Canon, q
<1> QED
  BY <1>2, <1>3

(* The end of a name is one.                                               *)
LEMMA SuffixIsName ==
  ASSUME NEW c, IsName(c), NEW k \in 0..(Len(c) - 1)
  PROVE  IsName(SubSeq(c, k + 1, Len(c)))
<1> DEFINE n == Len(c)
           r == SubSeq(c, k + 1, n)
<1>1. c \in Seq(Tokens) /\ n \in Nat /\ n > 0 /\ Last(c) # Sep
  BY EmptySeq, LenProperties DEF IsName
<1>2. k \in Nat /\ k + 1 \in Int /\ k + 1 <= n /\ n - (k + 1) + 1 = n - k /\ n - k \in 1..n
  BY <1>1
<1>3. \A i \in (k + 1)..n : i \in 1..n /\ c[i] \in Tokens
  BY <1>1, <1>2, ElementOfSeq
<1>4. /\ r \in Seq(Tokens) /\ Len(r) = n - k
      /\ \A i \in 1..(n - k) : r[i] = c[(k + 1) + i - 1]
  <2> HIDE DEF n
  <2> QED
    BY <1>1, <1>2, <1>3, SubSeqProperties
<1> HIDE DEF r
<1>5. (k + 1) + (n - k) - 1 = n
  BY <1>1, <1>2
<1>6. r[Len(r)] = c[n]
  BY <1>2, <1>4, <1>5
<1>7. r # <<>>
  BY <1>2, <1>4
<1> QED
  BY <1>1, <1>4, <1>6, <1>7 DEF IsName, Last, r

(* What follows the last separator of a path is a name.                    *)
LEMMA BaseNameIsName ==
  ASSUME NEW c, IsName(c)
  PROVE  IsName(BaseName(c))
<1> DEFINE I == {i \in 1..Len(c) : c[i] = Sep}
<1>1. c \in Seq(Tokens) /\ Len(c) \in Nat /\ Len(c) > 0 /\ c[Len(c)] # Sep
  BY EmptySeq, LenProperties DEF IsName, Last
<1>2. LastSep(c) = IF I # {} THEN Max(I) ELSE 0
  BY DEF LastSep, SelectLastInSeq
<1>3. I # {} => Max(I) \in I
  <2> SUFFICES ASSUME I # {} PROVE Max(I) \in I
    OBVIOUS
  <2>1. I \subseteq 0..Len(c)
    BY <1>1
  <2> HIDE DEF I
  <2>2. \E m \in I : \A k \in I : m >= k
    BY <1>1, <2>1, GreatestNumber
  <2> QED
    BY <2>2 DEF Max
<1>4. LastSep(c) \in 0..(Len(c) - 1)
  BY <1>1, <1>2, <1>3
<1> QED
  BY <1>4, SuffixIsName DEF BaseName

-------------------------------------------------------------------------------
(* What the file system holds has a name, but for the root.                *)
FilesNamed(f) == \A p \in DOMAIN f : p = RootPath \/ IsName(p)

(* A name is in the form the file system keeps it in.                      *)
LEMMA NameIsCanon ==
  ASSUME NEW p, IsName(p)
  PROVE  Canon(p) = p
BY DEF Canon, IsName

(* Creating, deleting and renaming keep names.                             *)
LEMMA CreateNamed ==
  ASSUME NEW f, FilesNamed(f), NEW p, IsName(p), NEW kind
  PROVE  FilesNamed(Create(f, p, kind))
BY NameIsCanon DEF FilesNamed, Create

(* Deleting takes away.                                                    *)
LEMMA UnlinkNamed ==
  ASSUME NEW f, FilesNamed(f), NEW p
  PROVE  FilesNamed(Unlink(f, p))
BY DEF FilesNamed, Unlink, Restrict

(* What was below a directory keeps the end of its path.                   *)
LEMMA RenameNamed ==
  ASSUME NEW f, FilesNamed(f), NEW p \in Seq(Tokens), p # <<>>, NEW q, IsName(q)
  PROVE  FilesNamed(Rename(f, p, q))
<1> DEFINE n == Len(Canon(p))
           New(x) == q \o SubSeq(x, n + 1, Len(x))
<1>1. n \in Nat /\ n > 0
  <2>1. Len(p) \in Nat /\ Len(p) > 0 /\ \A i \in 1..Len(p) : p[i] \in Tokens
    BY EmptySeq, LenProperties, ElementOfSeq
  <2>2. CASE Len(p) > 1 /\ Last(p) = Sep
    <3>1. \A i \in 1..(Len(p) - 1) : p[i] \in Tokens
      BY <2>1
    <3>2. Len(SubSeq(p, 1, Len(p) - 1)) = Len(p) - 1
      BY <2>1, <2>2, <3>1, SubSeqProperties
    <3> QED
      BY <2>1, <2>2, <3>2 DEF Canon, Front
  <2>3. CASE ~(Len(p) > 1 /\ Last(p) = Sep)
    BY <2>1, <2>3 DEF Canon
  <2> QED
    BY <2>2, <2>3
<1> HIDE DEF n
<1>2. ASSUME NEW x, x = RootPath \/ IsName(x) PROVE IsName(New(x))
  <2>1. x \in Seq(Tokens) /\ Len(x) \in Nat /\ q \in Seq(Tokens)
    BY <1>2, RootIsPath, LenProperties DEF IsName
  <2>2. CASE Len(x) <= n
    <3>1. SubSeq(x, n + 1, Len(x)) = <<>>
      BY <1>1, <2>1, <2>2, SubSeqEmpty
    <3>2. q \o <<>> = q
      BY <2>1, ConcatEmptySeq
    <3> QED
      BY <3>1, <3>2
  <2>3. CASE Len(x) > n
    <3>1. n \in 0..(Len(x) - 1) /\ Len(x) > 1
      BY <1>1, <2>1, <2>3
    <3>2. x # RootPath
      <4> SUFFICES ASSUME x = RootPath PROVE FALSE
        OBVIOUS
      <4>1. Len(x) = 1
        BY RootIsPath
      <4> DEFINE length == Len(x)
      <4>2. length > 1 /\ length = 1
        BY <3>1, <4>1
      <4> HIDE DEF length
      <4> QED
        BY <4>2
    <3> QED
      BY <1>2, <2>1, <3>1, <3>2, SuffixIsName, NameAfter
  <2> QED
    BY <1>1, <2>1, <2>2, <2>3
<1>3. Canon(q) = q
  BY NameIsCanon
<1> DEFINE moved == Subtree(f, p)
           kept  == DOMAIN f \ moved
<1>4. DOMAIN Rename(f, p, q) = kept \cup {New(y) : y \in moved}
  BY <1>3 DEF Rename, n
<1>5. moved \subseteq DOMAIN f
  BY DEF Subtree
<1> HIDE DEF New, moved
<1> QED
  BY <1>2, <1>4, <1>5 DEF FilesNamed

-------------------------------------------------------------------------------
(* RegisteredPathAgrees is kept by what makes objects, which needs paths   *)
(* and names that end in no separator: those of files, which listings      *)
(* take, and those of objects, which copies take.  A rename reads the      *)
(* path of a parent: it is one of an object, or there is no telling.       *)
Written(s, o) ==
  /\ o.path \in Seq(Tokens)
  /\ IsName(o.name)
  /\ o.parent \in DOMAIN objects[s] \cup {Null, Dangling}

Pathed(s, h) ==
  LET o == objects[s][h]
  IN  /\ o.path \in Seq(Tokens)
      /\ h = RootHandle \/ IsName(o.name)
      /\ o.parent \in DOMAIN objects[s] \cup {Null, Dangling}

PathInv ==
  /\ \A s \in Storages : FilesNamed(fs[s])
  /\ \A s \in Storages : \A h \in DOMAIN objects[s] : Pathed(s, h)
  /\ RegisteredPathAgrees

NamingHost == StrayHandles = {} /\ \A name \in Names : IsName(name)

(* p leads to an object made for it.                                       *)
Recorded(s, p) ==
  LET h == known_paths'[s][p]
      o == objects'[s][h]
  IN  \/ <<s, h>> \in displaced'
      \/ IsName(p) /\ o.kind \in Kinds /\ o.path = Terminated(p, o.kind)

Records(s) ==
  /\ displaced \subseteq displaced'
  /\ \A t \in Storages \ {s} : objects'[t] = objects[t] /\ known_paths'[t] = known_paths[t]
  /\ DOMAIN objects[s] \subseteq DOMAIN objects'[s]
  /\ \A h \in DOMAIN objects[s] :
       \/ objects'[s][h] = objects[s][h]
       \/ <<s, h>> \in displaced' /\ Written(s, objects'[s][h])
  /\ \A h \in DOMAIN objects'[s] \ DOMAIN objects[s] : Written(s, objects'[s][h])
  /\ \A p \in DOMAIN known_paths'[s] :
       \/ p \in DOMAIN known_paths[s] /\ known_paths'[s][p] = known_paths[s][p]
       \/ Recorded(s, p)

(* The files aside, that is all PathInv takes.                             *)
LEMMA RecordsKeepsPaths ==
  ASSUME HandleInv, PathInv, NEW s \in Storages, Records(s)
  PROVE  /\ \A t \in Storages : \A h \in DOMAIN objects'[t] : Pathed(t, h)'
         /\ RegisteredPathAgrees'
<1>1. ASSUME NEW t \in Storages, NEW h \in DOMAIN objects'[t] PROVE Pathed(t, h)'
  <2>1. CASE t # s
    BY <1>1, <2>1 DEF Records, PathInv, Pathed
  <2>2. CASE t = s /\ Written(s, objects'[s][h])
    BY <2>2 DEF Records, Written, Pathed
  <2>3. CASE t = s /\ h \in DOMAIN objects[s] /\ objects'[s][h] = objects[s][h]
    BY <2>3 DEF Records, PathInv, Pathed
  <2> QED
    BY <1>1, <2>1, <2>2, <2>3 DEF Records
<1>2. RegisteredPathAgrees'
  <2> SUFFICES ASSUME NEW t \in Storages, NEW p \in DOMAIN known_paths'[t],
                      <<t, known_paths'[t][p]>> \notin displaced'
               PROVE  LET o == objects'[t][known_paths'[t][p]]
                      IN  Canon(o.path) = p /\ (o.kind = "dir" <=> Last(o.path) = Sep)
    BY DEF RegisteredPathAgrees
  <2> DEFINE h == known_paths'[t][p]
  <2>1. CASE t # s
    BY <2>1 DEF Records, PathInv, RegisteredPathAgrees
  <2>2. CASE t = s /\ p \in DOMAIN known_paths[s] /\ h = known_paths[s][p]
    <3>1. h \in DOMAIN objects[s] /\ <<s, h>> \notin displaced
      BY <2>2 DEF HandleInv, KnownPathsResolve, Records
    <3>2. objects'[s][h] = objects[s][h]
      BY <2>2, <3>1 DEF Records
    <3> QED
      BY <2>2, <3>1, <3>2 DEF PathInv, RegisteredPathAgrees
  <2>3. CASE t = s /\ Recorded(s, p)
    <3>1. LET o == objects'[s][h]
          IN  IsName(p) /\ o.kind \in Kinds /\ o.path = Terminated(p, o.kind)
      BY <2>3 DEF Recorded
    <3> QED
      BY <2>3, <3>1, TerminatedCanon
  <2> QED
    BY <2>1, <2>2, <2>3 DEF Records
<1> QED
  BY <1>1, <1>2

(* A step that changes none of the three keeps them as well.               *)
LEMMA StutterKeepsPaths ==
  ASSUME PathInv, UNCHANGED <<objects, known_paths, displaced>>
  PROVE  /\ \A t \in Storages : \A h \in DOMAIN objects'[t] : Pathed(t, h)'
         /\ RegisteredPathAgrees'
BY DEF PathInv, Pathed, RegisteredPathAgrees

-------------------------------------------------------------------------------
Directories == [path : Seq(Tokens), live : BOOLEAN]

(* What a listing finds has a name, and its path is known to end in it.    *)
LEMMA FoundIsNamed ==
  ASSUME PathInv, NEW s \in Storages, NEW h, NEW dirs, dirs \subseteq Directories,
         NEW e \in Found(s, h, dirs)
  PROVE  /\ IsName(e.path) /\ IsName(e.name)
         /\ e.parent = h \/ e.parent = Dangling
<1>1. PICK d \in dirs : \E c \in Entries(fs[s], d.path) :
        e = NewObject(fs[s][c], BaseName(c), d.path \o BaseName(c), 0,
                      IF d.live THEN h ELSE Dangling)
  BY DEF Found
<1>2. PICK c \in Entries(fs[s], d.path) :
        e = NewObject(fs[s][c], BaseName(c), d.path \o BaseName(c), 0,
                      IF d.live THEN h ELSE Dangling)
  BY <1>1
<1>3. c \in DOMAIN fs[s] /\ c # RootPath
  BY DEF Entries
<1>4. IsName(c)
  BY <1>3 DEF PathInv, FilesNamed
<1>5. IsName(BaseName(c)) /\ d.path \in Seq(Tokens)
  BY <1>4, BaseNameIsName DEF Directories
<1>6. IsName(d.path \o BaseName(c))
  BY <1>5, NameAfter
<1>7. /\ e.path = d.path \o BaseName(c) /\ e.name = BaseName(c)
      /\ e.parent = IF d.live THEN h ELSE Dangling
  BY <1>2 DEF NewObject
<1> QED
  BY <1>5, <1>6, <1>7

(* The directories of the next level have paths of objects, or of what was *)
(* found.                                                                  *)
LEMMA BelowDirectories ==
  ASSUME HandleInv, PathInv, NEW s \in Storages, NEW h, NEW dirs, dirs \subseteq Directories,
         NEW d \in Below(s, h, dirs)
  PROVE  d \in Directories
<1> DEFINE known(e) == e.path \in DOMAIN known_paths[s]
           Obj(e)   == objects[s][known_paths[s][e.path]]
<1>1. \/ \E e \in Found(s, h, dirs) : known(e) /\ d = [path |-> Obj(e).path, live |-> FALSE]
      \/ \E e \in Found(s, h, dirs) : d = [path |-> Terminated(e.path, "dir"), live |-> FALSE]
  BY DEF Below
<1>2. ASSUME NEW e \in Found(s, h, dirs), known(e) PROVE Obj(e).path \in Seq(Tokens)
  <2>1. known_paths[s][e.path] \in DOMAIN objects[s]
    BY <1>2 DEF HandleInv, KnownPathsResolve
  <2> QED
    BY <2>1 DEF PathInv, Pathed
<1>3. ASSUME NEW e \in Found(s, h, dirs) PROVE Terminated(e.path, "dir") \in Seq(Tokens)
  <2>1. IsName(e.path)
    BY FoundIsNamed
  <2> QED
    BY <2>1, TerminatedCanon DEF Kinds
<1> DEFINE Made(path) == [path |-> path, live |-> FALSE]
<1>4. \A path \in Seq(Tokens) : Made(path) \in Directories
  BY DEF Directories
<1>5. \/ \E e \in Found(s, h, dirs) : known(e) /\ d = Made(Obj(e).path)
      \/ \E e \in Found(s, h, dirs) : d = Made(Terminated(e.path, "dir"))
  BY <1>1
<1> HIDE DEF known, Obj, Made
<1> QED
  BY <1>2, <1>3, <1>4, <1>5

(* So every level of a listing has directories, by induction over levels.  *)
LEMMA ListedDirectories ==
  ASSUME HandleInv, PathInv, NEW s \in Storages, NEW h \in DOMAIN objects[s], NEW depth \in Nat
  PROVE  Listed(s, h, depth) \subseteq Directories
<1> DEFINE top == {[path |-> objects[s][h].path, live |-> TRUE]}
           A == SUBSET Directories
           Levels(f) == f = [k \in 1..depth |-> IF k = 1 THEN top ELSE Below(s, h, f[k - 1])]
           level == CHOOSE f : Levels(f)
<1>1. top \in A
  BY DEF PathInv, Pathed, Directories
<1>2. \A dirs \in A : Below(s, h, dirs) \in A
  BY BelowDirectories
<1>3. CASE depth = 0
  BY <1>3 DEF Listed
<1>4. CASE depth # 0
  <2> DEFINE n == depth - 1
             step == [p \in (1..n) \X A |-> Below(s, h, p[2])]
  <2>1. n \in Nat /\ depth = n + 1
    BY <1>4
  <2>2. step \in [(1..n) \X A -> A] /\ \A k \in 1..n, dirs \in A : step[<<k, dirs>>] = Below(s, h, dirs)
    <3> HIDE DEF A, n
    <3> QED
      BY <1>2
  <2> HIDE DEF n, A, top, step
  <2>3. PICK g : Recurs(g, A, n, top, step)
    BY <1>1, <2>1, <2>2, Recursion
  <2>4. g \in [0..n -> A] /\ g[0] = top /\ \A k \in 1..n : g[k] = Below(s, h, g[k - 1])
    <3>1. \A k \in 1..n : k - 1 \in 0..n
      BY <2>1
    <3>2. \A k \in 1..n : g[k - 1] \in A
      BY <2>3, <3>1 DEF Recurs
    <3> QED
      BY <2>2, <2>3, <3>2 DEF Recurs
  <2>5. \E f : Levels(f)
    <3> DEFINE f == [k \in 1..depth |-> g[k - 1]]
    <3>1. ASSUME NEW k \in 1..depth PROVE f[k] = IF k = 1 THEN top ELSE Below(s, h, f[k - 1])
      <4>1. CASE k = 1
        BY <2>4, <4>1
      <4>2. CASE k # 1
        <5>1. k - 1 \in 1..n /\ k - 1 \in 1..depth
          BY <2>1, <4>2
        <5> QED
          BY <2>4, <4>2, <5>1
      <4> QED
        BY <4>1, <4>2
    <3>2. f = [k \in 1..depth |-> f[k]]
      OBVIOUS
    <3> HIDE DEF f
    <3>3. Levels(f)
      BY <3>1, <3>2
    <3> HIDE DEF Levels
    <3> QED
      BY <3>3
  <2>6. Levels(level)
    <3> HIDE DEF Levels
    <3> QED
      BY <2>5
  <2>7. Listed(s, h, depth) = top \cup UNION {level[k] : k \in 2..depth}
    BY <1>4 DEF Listed, top
  <2> HIDE DEF level
  <2>8. \A k \in 1..depth : level[k] \in A
    <3> DEFINE S == {k \in 0..depth : k = 0 \/ level[k] \in A}
    <3>1. 0 \in S
      OBVIOUS
    <3>2. ASSUME NEW k \in 1..depth, k - 1 \in S PROVE k \in S
      <4>1. level[k] = IF k = 1 THEN top ELSE Below(s, h, level[k - 1])
        BY <2>6
      <4>2. k # 1 => level[k - 1] \in A
        BY <3>2
      <4>3. level[k] \in A
        BY <1>1, <1>2, <4>1, <4>2
      <4> QED
        BY <4>3
    <3> HIDE DEF S
    <3>3. 0..depth \subseteq S
      BY <3>1, <3>2, UpTo
    <3> QED
      BY <3>3 DEF S
  <2>9. \A k \in 2..depth : level[k] \in A
    BY <2>8
  <2> QED
    BY <1>1, <2>7, <2>9 DEF A
<1> QED
  BY <1>3, <1>4

-------------------------------------------------------------------------------
(* What a listing registers has the path it is looked up by, and the slash *)
(* that only the object gets.                                              *)
LEMMA CacheDirectoryRecords ==
  ASSUME HandleInv, HandleInv', FilesInv, PathInv, StrayHandles = {},
         NEW s \in Storages, NEW h \in DOMAIN objects[s], NEW depth \in Nat,
         CacheDirectory(s, h, depth), UNCHANGED displaced
  PROVE  Records(s)
<1> DEFINE found == Found(s, h, Listed(s, h, depth))
           fresh == {e \in found : e.path \notin DOMAIN known_paths[s]}
           paths == {e.path : e \in fresh}
           new   == (s_handle + 1)..(s_handle + Cardinality(paths))
<1>1. PICK entry \in [new -> fresh] :
        LET Handle(p) == CHOOSE i \in new : entry[i].path = p
            Made(i)   == [entry[i] EXCEPT
                            !.path = Terminated(@, entry[i].kind),
                            !.handle = i]
        IN  /\ {entry[i].path : i \in new} = paths
            /\ known_paths' = [known_paths EXCEPT ![s] =
                 [p \in DOMAIN @ \cup paths |->
                    IF p \in paths THEN Handle(p) ELSE @[p]]]
            /\ objects' = [objects EXCEPT ![s] =
                 [i \in DOMAIN @ \cup new |->
                    IF i \in new THEN Made(i) ELSE @[i]]]
  BY DEF CacheDirectory
<1>2. new = NewHandles
  BY DEF CacheDirectory, NewHandles
<1> DEFINE Handle(p) == CHOOSE i \in new : entry[i].path = p
           Made(i)   == [entry[i] EXCEPT !.path = Terminated(@, entry[i].kind), !.handle = i]
<1>3. objects'[s] = [i \in DOMAIN objects[s] \cup new |->
                       IF i \in new THEN Made(i) ELSE objects[s][i]]
  BY <1>1 DEF HandleInv
<1>4. known_paths'[s] = [p \in DOMAIN known_paths[s] \cup paths |->
                           IF p \in paths THEN Handle(p) ELSE known_paths[s][p]]
  BY <1>1 DEF HandleInv
<1>5. \A t \in Storages \ {s} : objects'[t] = objects[t] /\ known_paths'[t] = known_paths[t]
  BY <1>1 DEF HandleInv
<1>6. \A p \in paths : Handle(p) \in new /\ entry[Handle(p)].path = p
  BY <1>1
<1>7. ASSUME NEW i \in new
      PROVE  /\ Made(i).path = Terminated(entry[i].path, entry[i].kind)
             /\ Made(i).kind = entry[i].kind /\ entry[i].kind \in Kinds
             /\ IsName(entry[i].path) /\ Written(s, Made(i))
  <2>1. entry[i] \in found
    OBVIOUS
  <2> HIDE DEF found
  <2>2. IsObject(entry[i])
    BY <2>1, FoundIsObject DEF found
  <2>3. /\ IsName(entry[i].path) /\ IsName(entry[i].name)
        /\ entry[i].parent = h \/ entry[i].parent = Dangling
    BY <2>1, ListedDirectories, FoundIsNamed DEF found
  <2>4. /\ Made(i).parent = entry[i].parent /\ Made(i).name = entry[i].name
        /\ Made(i).kind = entry[i].kind /\ entry[i].kind \in Kinds
        /\ Made(i).path = Terminated(entry[i].path, entry[i].kind)
    BY <2>2 DEF IsObject
  <2>5. Terminated(entry[i].path, entry[i].kind) \in Seq(Tokens)
    BY <2>3, <2>4, TerminatedCanon
  <2> HIDE DEF Made
  <2> QED
    BY <2>3, <2>4, <2>5 DEF Written
<1> HIDE DEF Made, Handle, new, paths
<1>8. \A i \in DOMAIN objects[s] : i \notin new /\ objects'[s][i] = objects[s][i]
  BY <1>2, <1>3, GivenHandles
<1>9. \A i \in new : i \in DOMAIN objects'[s] /\ objects'[s][i] = Made(i)
  BY <1>3
<1>10. \A i \in DOMAIN objects'[s] \ DOMAIN objects[s] : Written(s, objects'[s][i])
  BY <1>3, <1>7, <1>9
<1>11. ASSUME NEW p \in DOMAIN known_paths'[s]
       PROVE  \/ p \in DOMAIN known_paths[s] /\ known_paths'[s][p] = known_paths[s][p]
              \/ Recorded(s, p)
  <2>1. CASE p \in paths
    <3> DEFINE i == Handle(p)
    <3>1. i \in new /\ entry[i].path = p /\ known_paths'[s][p] = i
      BY <1>4, <1>6, <2>1
    <3> HIDE DEF i
    <3>2. /\ objects'[s][i].path = Terminated(p, objects'[s][i].kind)
          /\ objects'[s][i].kind \in Kinds /\ IsName(p)
      BY <1>7, <1>9, <3>1
    <3> QED
      BY <3>1, <3>2 DEF Recorded
  <2>2. CASE p \notin paths
    BY <1>4, <2>2
  <2> QED
    BY <2>1, <2>2
<1> QED
  BY <1>3, <1>5, <1>8, <1>10, <1>11 DEF Records

(* SendObjectInfo registers the path it makes, without the slash too.      *)
LEMMA SendObjectInfoRecords ==
  ASSUME HandleInv, HandleInv', PathInv, StrayHandles = {},
         NEW s \in Storages, NEW parent \in DOMAIN objects[s], NEW name, IsName(name),
         NEW kind \in Kinds, SendObjectInfo(s, parent, name, kind)
  PROVE  Records(s)
<1> DEFINE dest == objects[s][parent].path \o name
           obj == NewObject(kind, name, Terminated(dest, kind), NewHandle, parent)
<1>1. /\ objects' = [objects EXCEPT ![s] = Assign(@, NewHandle, obj)]
      /\ known_paths' = [known_paths EXCEPT ![s] = Assign(@, dest, NewHandle)]
      /\ displaced' = displaced
  BY DEF SendObjectInfo, Touch
<1>2. IsName(dest)
  <2>1. objects[s][parent].path \in Seq(Tokens)
    BY DEF PathInv, Pathed
  <2> QED
    BY <2>1, NameAfter
<1>3. /\ obj.path = Terminated(dest, kind) /\ obj.kind = kind
      /\ obj.name = name /\ obj.parent = parent
  BY DEF NewObject
<1>4. NewHandle \in NewHandles
  <2>1. s_handle \in Nat /\ s_handle' = s_handle + 1
    BY StorageAssumption DEF HandleInv, StorageAssumption, SendObjectInfo, NewHandle
  <2> QED
    BY <2>1 DEF NewHandles, NewHandle
<1>5. NewHandle \notin DOMAIN objects[s]
  BY <1>4, GivenHandles
<1> HIDE DEF dest, obj
<1>6. Written(s, obj)
  BY <1>2, <1>3, TerminatedCanon DEF Written
<1>7. /\ \A t \in Storages \ {s} : objects'[t] = objects[t] /\ known_paths'[t] = known_paths[t]
      /\ objects'[s] = Assign(objects[s], NewHandle, obj)
      /\ known_paths'[s] = Assign(known_paths[s], dest, NewHandle)
  BY <1>1 DEF HandleInv
<1>8. /\ DOMAIN objects'[s] = DOMAIN objects[s] \cup {NewHandle}
      /\ objects'[s][NewHandle] = obj
      /\ \A h \in DOMAIN objects[s] : objects'[s][h] = objects[s][h]
  BY <1>5, <1>7 DEF Assign
<1>9. /\ DOMAIN known_paths'[s] = DOMAIN known_paths[s] \cup {dest}
      /\ known_paths'[s][dest] = NewHandle
      /\ \A p \in DOMAIN known_paths[s] \ {dest} : known_paths'[s][p] = known_paths[s][p]
  BY <1>7 DEF Assign
<1>10. Recorded(s, dest)
  BY <1>2, <1>3, <1>8, <1>9 DEF Recorded
<1> QED
  BY <1>1, <1>6, <1>7, <1>8, <1>9, <1>10 DEF Records

(* Moves and renames rewrite objects they displace, and no known path.     *)
LEMMA RewriteRecords ==
  ASSUME HandleInv, NEW s \in Storages, NEW h \in DOMAIN objects[s], NEW o, Written(s, o),
         objects' = [objects EXCEPT ![s][h] = o], UNCHANGED known_paths,
         displaced' = displaced \cup {<<s, h>>}
  PROVE  Records(s)
<1>1. /\ DOMAIN objects'[s] = DOMAIN objects[s]
      /\ objects'[s][h] = o
      /\ \A g \in DOMAIN objects[s] \ {h} : objects'[s][g] = objects[s][g]
      /\ \A t \in Storages \ {s} : objects'[t] = objects[t]
  BY DEF HandleInv
<1> QED
  BY <1>1 DEF Records

(* An object the host may change has a name, a path and a parent.          *)
LEMMA ItemWritten ==
  ASSUME HandleInv, PathInv, NEW h \in Items, NEW s \in Holders(h)
  PROVE  /\ s \in Storages /\ h \in DOMAIN objects[s]
         /\ IsObject(objects[s][h]) /\ Written(s, objects[s][h])
BY DEF Items, Holders, HandleInv, PathInv, Pathed, Written

(* A folder's path followed by an object's name is a name.                 *)
LEMMA DestIsName ==
  ASSUME PathInv, NEW s \in Storages, NEW dest \in DOMAIN objects[s], NEW name, IsName(name)
  PROVE  IsName(objects[s][dest].path \o name)
<1>1. objects[s][dest].path \in Seq(Tokens)
  BY DEF PathInv, Pathed
<1> QED
  BY <1>1, NameAfter

(* A move, done, failed or refused.                                        *)
LEMMA MoveObjectRecords ==
  ASSUME HandleInv, PathInv, NEW h \in Items, NEW target, NEW parent,
         MoveObject(h, target, parent)
  PROVE  \/ \E s \in Storages : Records(s)
         \/ UNCHANGED <<objects, known_paths, displaced>>
<1>1. PICK s \in Holders(h) :
        LET object == objects[s][h]
            emptied == [objects[s] EXCEPT ![h].path = <<>>]
            dest    == Destination(parent)
            path    == emptied[dest].path \o object.name
        IN  /\ UNCHANGED known_paths
            /\ \/ UNCHANGED <<objects, displaced>>
               \/ /\ objects' = [objects EXCEPT ![s] = emptied]
                  /\ displaced' = displaced \cup {<<s, h>>}
               \/ /\ dest \in DOMAIN objects[s]
                  /\ objects' = [objects EXCEPT ![s][h].path = path]
                  /\ displaced' = displaced \cup {<<s, h>>}
  BY DEF MoveObject
<1> DEFINE emptied == [objects[s] EXCEPT ![h].path = <<>>]
           dest == Destination(parent)
           path == emptied[dest].path \o objects[s][h].name
<1>2. s \in Storages /\ h \in DOMAIN objects[s] /\ IsObject(objects[s][h])
      /\ Written(s, objects[s][h])
  BY ItemWritten
<1>3. ASSUME NEW p \in Seq(Tokens), objects' = [objects EXCEPT ![s][h].path = p],
             UNCHANGED known_paths, displaced' = displaced \cup {<<s, h>>}
      PROVE  Records(s)
  <2> DEFINE o == [objects[s][h] EXCEPT !.path = p]
  <2>1. o.path = p /\ o.name = objects[s][h].name /\ o.parent = objects[s][h].parent
    BY <1>2 DEF IsObject
  <2>2. objects' = [objects EXCEPT ![s][h] = o]
    BY <1>3
  <2> HIDE DEF o
  <2>3. Written(s, o)
    BY <1>2, <2>1 DEF Written
  <2> QED
    BY <1>2, <1>3, <2>2, <2>3, RewriteRecords
<1>4. <<>> \in Seq(Tokens)
  OBVIOUS
<1>5. ASSUME dest \in DOMAIN objects[s] PROVE path \in Seq(Tokens)
  <2>1. emptied[dest].path \in Seq(Tokens)
    <3>1. CASE dest = h
      <4>1. emptied[h] = [objects[s][h] EXCEPT !.path = <<>>]
        BY <1>2
      <4>2. emptied[h].path = <<>>
        BY <1>2, <4>1 DEF IsObject
      <4> QED
        BY <1>4, <3>1, <4>2
    <3>2. CASE dest # h
      <4>1. emptied[dest] = objects[s][dest]
        BY <1>5, <3>2
      <4> QED
        BY <1>2, <1>5, <4>1 DEF PathInv, Pathed
    <3> QED
      BY <3>1, <3>2
  <2>2. IsName(objects[s][h].name)
    BY <1>2 DEF Written
  <2> HIDE DEF emptied
  <2> QED
    BY <2>1, <2>2, NameAfter DEF IsName
<1>6. objects' = [objects EXCEPT ![s] = emptied] => objects' = [objects EXCEPT ![s][h].path = <<>>]
  BY <1>2
<1>7. \/ UNCHANGED <<objects, displaced>>
      \/ objects' = [objects EXCEPT ![s][h].path = <<>>] /\ displaced' = displaced \cup {<<s, h>>}
      \/ /\ dest \in DOMAIN objects[s]
         /\ objects' = [objects EXCEPT ![s][h].path = path] /\ displaced' = displaced \cup {<<s, h>>}
  BY <1>1, <1>6
<1> HIDE DEF path, dest, emptied
<1> QED
  BY <1>1, <1>2, <1>3, <1>4, <1>5, <1>7

(* A rename.                                                               *)
LEMMA SetObjectPropValueRecords ==
  ASSUME HandleInv, PathInv, NEW h \in Items, NEW name, IsName(name),
         SetObjectPropValue(h, name)
  PROVE  \E s \in Storages : Records(s)
<1>1. PICK s \in Holders(h) :
        /\ objects[s][h].parent # Null
        /\ displaced' = displaced \cup {<<s, h>>} /\ UNCHANGED known_paths
        /\ \E prefix \in ParentPaths(s, objects[s][h]) :
             objects' = [objects EXCEPT ![s][h].name = name, ![s][h].path = prefix \o name]
  BY DEF SetObjectPropValue
<1>2. PICK prefix \in ParentPaths(s, objects[s][h]) :
        objects' = [objects EXCEPT ![s][h].name = name, ![s][h].path = prefix \o name]
  BY <1>1
<1>3. s \in Storages /\ h \in DOMAIN objects[s] /\ IsObject(objects[s][h])
      /\ Written(s, objects[s][h])
  BY ItemWritten
<1>4. prefix \in Seq(Tokens)
  <2>1. \A x \in DOMAIN objects[s] : objects[s][x].path \in Seq(Tokens)
    BY <1>3 DEF PathInv, Pathed
  <2>2. <<>> \in Seq(Tokens)
    OBVIOUS
  <2>3. objects[s][h].parent # Dangling => objects[s][h].parent \in DOMAIN objects[s]
    BY <1>1, <1>3 DEF Written
  <2> QED
    BY <2>1, <2>2, <2>3 DEF ParentPaths
<1> DEFINE path == prefix \o name
           o == [objects[s][h] EXCEPT !.name = name, !.path = path]
<1>5. path \in Seq(Tokens)
  BY <1>4, NameAfter DEF IsName
<1> HIDE DEF path
<1>6. o.path = path /\ o.name = name /\ o.parent = objects[s][h].parent
  BY <1>3 DEF IsObject
<1>7. objects' = [objects EXCEPT ![s][h] = o]
  BY <1>2, <1>3 DEF HandleInv, path
<1> HIDE DEF o
<1>8. Written(s, o)
  BY <1>3, <1>5, <1>6 DEF Written
<1> QED
  BY <1>1, <1>3, <1>7, <1>8, RewriteRecords

(* A copy is displaced from the start, so what is known of it need not be  *)
(* its path.                                                               *)
LEMMA CopyObjectRecords ==
  ASSUME HandleInv, HandleInv', PathInv, StrayHandles = {},
         NEW h \in Items, NEW target, NEW parent, CopyObject(h, target, parent)
  PROVE  \/ \E s \in Storages : Records(s)
         \/ UNCHANGED <<objects, known_paths, displaced>>
<1>1. PICK s \in Holders(h) :
        LET path == objects[s][Destination(parent)].path \o objects[s][h].name
        IN  \/ UNCHANGED <<objects, known_paths, displaced>>
            \/ /\ Destination(parent) \in DOMAIN objects[s]
               /\ s_handle' = NewHandle
               /\ displaced' = displaced \cup {<<s, NewHandle>>}
               /\ known_paths' = [known_paths EXCEPT ![s] = Assign(@, path, NewHandle)]
               /\ objects' = [objects EXCEPT ![s] = Assign(@, NewHandle,
                    [objects[s][h] EXCEPT !.handle = NewHandle, !.path = path])]
  BY DEF CopyObject
<1>2. s \in Storages /\ h \in DOMAIN objects[s] /\ IsObject(objects[s][h])
      /\ Written(s, objects[s][h])
  BY ItemWritten
<1>3. ASSUME s_handle' = NewHandle, displaced' = displaced \cup {<<s, NewHandle>>},
             NEW path \in Seq(Tokens),
             known_paths' = [known_paths EXCEPT ![s] = Assign(@, path, NewHandle)],
             objects' = [objects EXCEPT ![s] = Assign(@, NewHandle,
               [objects[s][h] EXCEPT !.handle = NewHandle, !.path = path])]
      PROVE  Records(s)
  <2> DEFINE made == [objects[s][h] EXCEPT !.handle = NewHandle, !.path = path]
  <2>1. made.path = path /\ made.name = objects[s][h].name /\ made.parent = objects[s][h].parent
    BY <1>2 DEF IsObject
  <2>2. NewHandle \in NewHandles
    <3>1. s_handle \in Nat /\ s_handle' = s_handle + 1
      BY <1>3, StorageAssumption DEF HandleInv, StorageAssumption, NewHandle
    <3> QED
      BY <3>1 DEF NewHandles, NewHandle
  <2>3. NewHandle \notin DOMAIN objects[s]
    BY <1>2, <2>2, GivenHandles
  <2> HIDE DEF made
  <2>4. Written(s, made)
    BY <1>2, <2>1 DEF Written
  <2>5. /\ \A t \in Storages \ {s} : objects'[t] = objects[t] /\ known_paths'[t] = known_paths[t]
        /\ objects'[s] = Assign(objects[s], NewHandle, made)
        /\ known_paths'[s] = Assign(known_paths[s], path, NewHandle)
    BY <1>2, <1>3 DEF HandleInv, made
  <2>6. /\ DOMAIN objects'[s] = DOMAIN objects[s] \cup {NewHandle}
        /\ objects'[s][NewHandle] = made
        /\ \A g \in DOMAIN objects[s] : objects'[s][g] = objects[s][g]
    BY <2>3, <2>5 DEF Assign
  <2>7. /\ DOMAIN known_paths'[s] = DOMAIN known_paths[s] \cup {path}
        /\ known_paths'[s][path] = NewHandle
        /\ \A p \in DOMAIN known_paths[s] \ {path} : known_paths'[s][p] = known_paths[s][p]
    BY <2>5 DEF Assign
  <2>8. Recorded(s, path)
    BY <1>3, <2>7 DEF Recorded
  <2> QED
    BY <1>3, <2>4, <2>5, <2>6, <2>7, <2>8 DEF Records
<1>4. ASSUME Destination(parent) \in DOMAIN objects[s]
      PROVE  objects[s][Destination(parent)].path \o objects[s][h].name \in Seq(Tokens)
  BY <1>2, <1>4, DestIsName DEF IsName, Written
<1> QED
  BY <1>1, <1>2, <1>3, <1>4

-------------------------------------------------------------------------------
(* Every step records what it registers or leaves all of it alone.         *)
LEMMA NextRecords ==
  ASSUME IInv, IInv', PathInv, NamingHost, [Next]_vars
  PROVE  \/ \E s \in Storages : Records(s)
         \/ UNCHANGED <<objects, known_paths, displaced>>
<1> USE DEF IInv
<1>0. StrayHandles = {} /\ \A name \in Names : IsName(name)
  BY DEF NamingHost
<1>1. CASE List
  <2>1. PICK s \in Storages, h \in Handles : GetObjectHandles(s, h)
    BY <1>1 DEF List
  <2>2. CASE h \in DOMAIN objects[s]
    <3>1. CacheDirectory(s, h, 1) /\ UNCHANGED displaced
      BY <2>1, <2>2 DEF GetObjectHandles
    <3> QED
      BY <1>0, <2>2, <3>1, CacheDirectoryRecords
  <2>3. CASE h \notin DOMAIN objects[s]
    BY <2>1, <2>3 DEF GetObjectHandles
  <2> QED
    BY <2>2, <2>3
<1>2. CASE PropList
  <2>1. PICK h \in Handles, depth \in Depths : GetObjectPropList(h, depth)
    BY <1>2 DEF PropList
  <2>2. PICK s \in Holders(h) : CacheDirectory(s, h, depth) /\ UNCHANGED displaced
    BY <2>1 DEF GetObjectPropList
  <2>3. depth \in Nat /\ s \in Storages /\ h \in DOMAIN objects[s]
    BY StorageAssumption DEF StorageAssumption, Holders
  <2> QED
    BY <1>0, <2>2, <2>3, CacheDirectoryRecords
<1>3. CASE SendInfo
  <2>1. PICK s \in Storages, name \in Names, kind \in Kinds :
          \E parent \in Folders(s) \cup StrayHandles : SendObjectInfo(s, parent, name, kind)
    BY <1>3 DEF SendInfo
  <2>2. PICK parent \in DOMAIN objects[s] : SendObjectInfo(s, parent, name, kind)
    BY <1>0, <2>1 DEF Folders
  <2> QED
    BY <1>0, <2>2, SendObjectInfoRecords
<1>4. CASE Move
  BY <1>4, MoveObjectRecords DEF Move
<1>5. CASE Copy
  BY <1>0, <1>5, CopyObjectRecords DEF Copy
<1>6. CASE SetName
  BY <1>0, <1>6, SetObjectPropValueRecords DEF SetName
<1>7. CASE SendData \/ Delete \/ UNCHANGED vars
  BY <1>7 DEF SendData, SendObject, Delete, DeleteObject, vars
<1> QED
  BY <1>1, <1>2, <1>3, <1>4, <1>5, <1>6, <1>7 DEF Next

(* A request creates and renames what has a name.                          *)
LEMMA NextKeepsNames ==
  ASSUME IInv, PathInv, NamingHost, [Next]_vars
  PROVE  \A s \in Storages : FilesNamed(fs'[s])
<1>1. /\ HandleInv /\ DOMAIN fs = Storages /\ \A s \in Storages : FilesNamed(fs[s])
      /\ StrayHandles = {} /\ \A name \in Names : IsName(name)
  BY DEF IInv, FilesInv, PathInv, NamingHost
<1>2. ASSUME NEW s \in Storages, NEW f, FilesNamed(f), fs' = [fs EXCEPT ![s] = f]
      PROVE  \A t \in Storages : FilesNamed(fs'[t])
  BY <1>1, <1>2
<1>3. CASE UNCHANGED fs
  BY <1>1, <1>3
<1>4. ASSUME NEW s \in Storages, NEW h \in DOMAIN objects[s], NEW q, IsName(q), NEW kind,
             CanRename(fs[s], objects[s][h].path, q, kind),
             fs' = [fs EXCEPT ![s] = Rename(@, objects[s][h].path, q)]
      PROVE  \A t \in Storages : FilesNamed(fs'[t])
  <2>1. objects[s][h].path \in Seq(Tokens)
    BY DEF PathInv, Pathed
  <2>2. objects[s][h].path # <<>>
    BY <1>4 DEF CanRename, Exists, IsAbsolute
  <2>3. FilesNamed(Rename(fs[s], objects[s][h].path, q))
    BY <1>1, <1>4, <2>1, <2>2, RenameNamed
  <2> QED
    BY <1>1, <1>2, <1>4, <2>3
<1>5. CASE SendInfo
  <2>1. PICK s \in Storages, name \in Names, kind \in Kinds :
          \E parent \in Folders(s) \cup StrayHandles : SendObjectInfo(s, parent, name, kind)
    BY <1>5 DEF SendInfo
  <2>2. PICK parent \in DOMAIN objects[s] : SendObjectInfo(s, parent, name, kind)
    BY <1>1, <2>1 DEF Folders
  <2> DEFINE dest == objects[s][parent].path \o name
  <2>3. UNCHANGED fs \/ fs' = [fs EXCEPT ![s] = Create(@, dest, kind)]
    BY <2>2 DEF SendObjectInfo, Touch
  <2>4. IsName(dest)
    BY <1>1, DestIsName
  <2> HIDE DEF dest
  <2> QED
    BY <1>1, <1>2, <1>3, <2>3, <2>4, CreateNamed
<1>6. CASE Delete
  <2>1. PICK h \in Items : DeleteObject(h)
    BY <1>6 DEF Delete
  <2>2. PICK s \in Holders(h) :
          UNCHANGED fs \/ fs' = [fs EXCEPT ![s] = Unlink(@, objects[s][h].path)]
    BY <2>1 DEF DeleteObject
  <2>3. s \in Storages
    BY DEF Holders
  <2> QED
    BY <1>1, <1>2, <1>3, <2>2, <2>3, UnlinkNamed
<1>7. CASE Move
  <2>1. PICK h \in Items, t \in Storages, parent \in Targets : MoveObject(h, t, parent)
    BY <1>7 DEF Move
  <2>2. PICK s \in Holders(h) :
          LET object  == objects[s][h]
              emptied == [objects[s] EXCEPT ![h].path = <<>>]
              path    == emptied[Destination(parent)].path \o object.name
          IN  \/ UNCHANGED fs
              \/ /\ Destination(parent) \in DOMAIN objects[s]
                 /\ CanRename(fs[s], object.path, path, object.kind)
                 /\ fs' = [fs EXCEPT ![s] = Rename(@, object.path, path)]
    BY <2>1 DEF MoveObject
  <2> DEFINE dest == Destination(parent)
             prefix == [objects[s] EXCEPT ![h].path = <<>>][dest].path
             path == prefix \o objects[s][h].name
  <2>3. s \in Storages /\ h \in DOMAIN objects[s] /\ IsObject(objects[s][h])
        /\ Written(s, objects[s][h])
    BY <1>1, ItemWritten
  <2>4. ASSUME dest \in DOMAIN objects[s] PROVE IsName(path)
    <3>1. prefix \in Seq(Tokens)
      <4>1. CASE dest = h
        <5>1. prefix = <<>> /\ <<>> \in Seq(Tokens)
          BY <2>3, <4>1 DEF IsObject
        <5> HIDE DEF prefix
        <5> QED
          BY <5>1
      <4>2. CASE dest # h
        <5>1. prefix = objects[s][dest].path
          BY <2>4, <4>2
        <5> QED
          BY <2>3, <2>4, <5>1 DEF PathInv, Pathed
      <4> QED
        BY <4>1, <4>2
    <3> HIDE DEF prefix
    <3> QED
      BY <2>3, <3>1, NameAfter DEF Written
  <2>5. \/ UNCHANGED fs
        \/ /\ dest \in DOMAIN objects[s]
           /\ CanRename(fs[s], objects[s][h].path, path, objects[s][h].kind)
           /\ fs' = [fs EXCEPT ![s] = Rename(@, objects[s][h].path, path)]
    BY <2>2
  <2> HIDE DEF path, dest
  <2> QED
    BY <1>3, <1>4, <2>3, <2>4, <2>5
<1>8. CASE Copy
  <2>1. PICK h \in Items, t \in Storages, parent \in Targets : CopyObject(h, t, parent)
    BY <1>8 DEF Copy
  <2> DEFINE dest == Destination(parent)
             path(s) == objects[s][dest].path \o objects[s][h].name
  <2>2. PICK s \in Holders(h) :
          \/ UNCHANGED fs
          \/ /\ dest \in DOMAIN objects[s]
             /\ fs' = [fs EXCEPT ![s] = Create(@, path(s), objects[s][h].kind)]
    BY <2>1 DEF CopyObject
  <2>3. s \in Storages /\ h \in DOMAIN objects[s] /\ Written(s, objects[s][h])
    BY <1>1, ItemWritten
  <2>4. ASSUME dest \in DOMAIN objects[s] PROVE IsName(path(s))
    <3> HIDE DEF dest
    <3> QED
      BY <2>3, <2>4, DestIsName DEF Written
  <2> HIDE DEF path, dest
  <2>5. dest \in DOMAIN objects[s] => FilesNamed(Create(fs[s], path(s), objects[s][h].kind))
    BY <1>1, <2>3, <2>4, CreateNamed
  <2> QED
    BY <1>1, <1>2, <1>3, <2>2, <2>3, <2>5
<1>9. CASE SetName
  <2>1. PICK h \in Items, name \in Names : SetObjectPropValue(h, name)
    BY <1>9 DEF SetName
  <2>2. PICK s \in Holders(h) :
          /\ objects[s][h].parent # Null
          /\ \E prefix \in ParentPaths(s, objects[s][h]) :
               \/ UNCHANGED fs
               \/ /\ CanRename(fs[s], objects[s][h].path, prefix \o name, objects[s][h].kind)
                  /\ fs' = [fs EXCEPT ![s] = Rename(@, objects[s][h].path, prefix \o name)]
    BY <2>1 DEF SetObjectPropValue
  <2>3. s \in Storages /\ h \in DOMAIN objects[s] /\ Written(s, objects[s][h])
    BY <1>1, ItemWritten
  <2>4. ASSUME NEW prefix \in ParentPaths(s, objects[s][h]) PROVE IsName(prefix \o name)
    <3>1. \A x \in DOMAIN objects[s] : objects[s][x].path \in Seq(Tokens)
      BY <2>3 DEF PathInv, Pathed
    <3>2. <<>> \in Seq(Tokens)
      OBVIOUS
    <3>3. prefix \in Seq(Tokens)
      BY <2>2, <2>3, <3>1, <3>2 DEF ParentPaths, Written
    <3> QED
      BY <1>1, <3>3, NameAfter
  <2> QED
    BY <1>3, <1>4, <2>2, <2>3, <2>4
<1>10. CASE List \/ PropList \/ SendData \/ UNCHANGED vars
  BY <1>3, <1>10 DEF List, PropList, SendData, GetObjectHandles, GetObjectPropList,
     SendObject, vars
<1> QED
  BY <1>5, <1>6, <1>7, <1>8, <1>9, <1>10 DEF Next

(* The root's path is known as it is, and what there is has a name.        *)
LEMMA InitPaths == Init => PathInv
<1> SUFFICES ASSUME Init PROVE PathInv
  OBVIOUS
<1>1. \A s \in Storages : FilesNamed(fs[s])
  BY PathAssumption DEF Init, PathAssumption, FilesNamed
<1>2. \A s \in Storages : /\ DOMAIN objects[s] = {RootHandle}
                          /\ objects[s][RootHandle] = RootObject
                          /\ DOMAIN known_paths[s] = {RootPath}
                          /\ known_paths[s][RootPath] = RootHandle
  BY DEF Init
<1>3. /\ RootObject.path = RootPath /\ RootObject.kind = "dir" /\ RootObject.parent = Null
  BY DEF RootObject, NewObject
<1>4. \A s \in Storages : \A h \in DOMAIN objects[s] : Pathed(s, h)
  BY <1>2, <1>3, RootIsPath DEF Pathed
<1>5. Canon(RootPath) = RootPath /\ Last(RootPath) = Sep
  BY RootIsPath DEF Canon, Last
<1>6. RegisteredPathAgrees
  BY <1>2, <1>3, <1>5 DEF RegisteredPathAgrees
<1> QED
  BY <1>1, <1>4, <1>6 DEF PathInv

(* Until an object is displaced it is known by its own path, up to the     *)
(* slash that ends a directory's, for a host that names parents it was     *)
(* given and gives proper names, however deep it lists: known_paths, which *)
(* cache_directory and send_object_info write without the slash, agrees    *)
(* with the objects they write with it.                                    *)
THEOREM RegisteredPathsAgree == NamingHost => (Spec => []RegisteredPathAgrees)
<1> SUFFICES ASSUME NamingHost PROVE Spec => []RegisteredPathAgrees
  OBVIOUS
<1>1. Init => PathInv
  BY InitPaths
<1>2. IInv /\ IInv' /\ PathInv /\ [Next]_vars => PathInv'
  <2> SUFFICES ASSUME IInv, IInv', PathInv, [Next]_vars PROVE PathInv'
    OBVIOUS
  <2>1. /\ \A t \in Storages : \A h \in DOMAIN objects'[t] : Pathed(t, h)'
        /\ RegisteredPathAgrees'
    BY NextRecords, RecordsKeepsPaths, StutterKeepsPaths DEF IInv
  <2>2. \A s \in Storages : FilesNamed(fs'[s])
    BY NextKeepsNames
  <2> QED
    BY <2>1, <2>2 DEF PathInv
<1>3. PathInv => RegisteredPathAgrees
  BY DEF PathInv
<1> QED
  BY <1>1, <1>2, <1>3, Invariance, PTL DEF Spec
===============================================================================
