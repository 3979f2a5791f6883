------------------------------- MODULE MtpDataset -------------------------------
(***************************************************************************)
(* What the data of a request says: the datasets that the handlers of      *)
(* Storage and props push, sent as DataPacket::send sends them, and those  *)
(* of the host, received and popped.                                       *)
(*                                                                         *)
(* There is one object, made from a directory entry or from what the host  *)
(* sends, in a root that also has a fixed folder.  A buffer of the USB     *)
(* endpoints holds Chunk fields.  Where objects are and how requests lead  *)
(* to them is the matter of MtpStorage.                                    *)
(***************************************************************************)
EXTENDS MtpCodec, SequencesExt

CONSTANTS
  Names,       (* names a directory entry may have, in bytes                *)
  HostNames,   (* names the host may give, in UTF-16 units                  *)
  Sizes,       (* sizes of files                                            *)
  WordSize,    (* 2^32: compressed_size wraps at this                       *)
  Chunk,       (* bound: fields in a buffer of an endpoint                  *)
  Null

(* What a field of a dataset may be.                                         *)
Types == IntTypes \cup {"STR", "AUINT16", "AUINT32"}

(* A host's name is one that a String of the protocol can hold, and a date's *)
(* two units and their terminator (DateTime) are within a count.             *)
ASSUME DatasetAssumption ==
  /\ Chunk \in Nat \ {0} /\ WordSize \in Nat \ {0} /\ Sizes \subseteq Nat
  /\ \A name \in Names : name \in Seq(1..(ByteSize - 1))
  /\ \A name \in HostNames : name \in Seq(Nat) /\ Fits(name)
  /\ ByteSize > 3 /\ Garbage \notin Types

VARIABLES
  entry,       (* the object's entry in the directory                       *)
  object,      (* the Object                                                *)
  clock,       (* the calendar answers                                      *)
  given,       (* the name the host last gave the object                    *)
  kept,        (* the file system has done as the host said since           *)
  relisted,    (* the object was made anew from its entry since             *)
  pc,          (* where the server is                                       *)
  request,     (* the operation and its parameters                          *)
  code,        (* the ResponseCode                                          *)
  packet,      (* DataPacket::buffer                                        *)
  buf, left,   (* usb::send, usb::receive: what buf points to, and size     *)
  got          (* what the host has received                                *)

fsys   == <<entry, clock, kept>>
seen   == <<given, relisted>>
wire   == <<packet, buf, left, got>>
vars   == <<fsys, object, seen, pc, request, code, wire>>

-------------------------------------------------------------------------------
(* Objects.                                                                  *)

Id == 65537       (* the storage's                                          *)
RootHandle == 99

Made(handle, format, size, name) ==
  [handle |-> handle, format |-> format, size |-> size, name |-> name,
   parent |-> RootHandle]

Folder == Made(1, "Association", 0, MakeString(<<2>>))

(* Object(entry, path, parent)                                               *)
FromEntry(e) ==
  Made(2, IF e.kind = "dir" THEN "Association" ELSE "Undefined", e.size,
       MakeString(to_utf16(e.name)))

(* Object(info, path, parent)                                                *)
FromInfo(info) == Made(2, info.format, info.compressed_size, info.filename)

is_directory(o) == o.format = "Association"
is_file(o) == ~is_directory(o)

(* The file system gets a C string.                                          *)
c_str(bytes) == SelectInSeq(bytes, LAMBDA b : b = NUL) - 1
PathName(chars) ==
  LET bytes == to_utf8(chars)
  IN  IF Contains(bytes, NUL) THEN SubSeq(bytes, 1, c_str(bytes)) ELSE bytes

(* The object's path is that of its entry: a request that failed to create   *)
(* or to rename has left it with another.                                    *)
LeadsToEntry == entry.name = PathName(object.name.chars)

(* Fifteen characters and a terminator of its own, here two units.           *)
DateTime(timestamp) == IF clock THEN MakeString(<<timestamp + 1, NUL>>) ELSE NoString

(* A query that fails leaves zeroes.                                         *)
get_timestamp ==
  IF LeadsToEntry /\ entry.kind = "file" THEN [created |-> 1, modified |-> 2]
                                         ELSE [created |-> 0, modified |-> 0]

-------------------------------------------------------------------------------
(* Datasets.  The members of ObjectInfo, and the order in which push_to and  *)
(* the constructor pass over them.                                           *)

InfoType == [
  storage_id |-> "UINT32", format |-> "UINT16", protection_status |-> "UINT16",
  compressed_size |-> "UINT32", thumbnail_format |-> "UINT16",
  thumbnail_size |-> "UINT32", thumbnail_width |-> "UINT32",
  thumbnail_height |-> "UINT32", image_width |-> "UINT32",
  image_height |-> "UINT32", image_depth |-> "UINT32", parent |-> "UINT32",
  association_type |-> "UINT16", association_desc |-> "UINT32",
  sequence_number |-> "UINT32", filename |-> "STR", created |-> "STR",
  modified |-> "STR", keywords |-> "STR"]

NoInfo ==
  [m \in DOMAIN InfoType |->
     CASE InfoType[m] = "STR"                  -> NoString
       [] m \in {"format", "thumbnail_format"} -> "Undefined"
       [] m = "association_type"               -> "GenericFolder"
       [] OTHER                                -> 0]

(* The standard's ObjectInfo dataset, as hosts read and make it.             *)
InfoDataset == <<
  "storage_id", "format", "protection_status", "compressed_size",
  "thumbnail_format", "thumbnail_size", "thumbnail_width", "thumbnail_height",
  "image_width", "image_height", "image_depth", "parent", "association_type",
  "association_desc", "sequence_number", "filename", "created", "modified",
  "keywords">>

DatesSwapped == [InfoDataset EXCEPT ![17] = "modified", ![18] = "created"]
NamesSwapped == [InfoDataset EXCEPT ![16] = "created", ![17] = "filename"]

push_order == <<
  "storage_id", "format", "protection_status", "compressed_size",
  "thumbnail_format", "thumbnail_size", "thumbnail_width", "thumbnail_height",
  "image_width", "image_height", "image_depth", "parent", "association_type",
  "association_desc", "sequence_number", "filename", "created", "modified",
  "keywords">>

pop_order == <<
  "storage_id", "format", "protection_status", "compressed_size",
  "thumbnail_format", "thumbnail_size", "thumbnail_width", "thumbnail_height",
  "image_width", "image_height", "image_depth", "parent", "association_type",
  "association_desc", "sequence_number", "filename", "created", "modified",
  "keywords">>

Push(type, value) ==
  IF type = "STR" THEN PushString(value) ELSE PushInt(type, value)

PushInfo(info, order) ==
  FlattenSeq([i \in DOMAIN order |-> Push(InfoType[order[i]], info[order[i]])])

(* ObjectInfo(id, object) with the dates of get_object_info, which queries   *)
(* those of files and formats 0 for directories.                             *)
InfoOf(o) ==
  [NoInfo EXCEPT !.storage_id = Id, !.format = o.format,
    !.compressed_size = o.size % WordSize, !.parent = o.parent,
    !.filename = o.name,
    !.created = DateTime(IF is_file(o) THEN get_timestamp.created ELSE 0),
    !.modified = DateTime(IF is_file(o) THEN get_timestamp.modified ELSE 0)]

(* Reading a value, and an element of a property list, whose value has the   *)
(* type it announces.                                                        *)
ReadValue(type, buffer) ==
  CASE type \in IntTypes -> PopInt(type, buffer)
    [] type = "STR"      -> PopString(buffer)
    [] type = "AUINT16"  -> PopArray("UINT16", buffer)
    [] type = "AUINT32"  -> PopArray("UINT32", buffer)

ReadTyped(type) == IF type.value = Garbage THEN Misread ELSE ReadValue(type.value, type.rest)

ReadElement(buffer) ==
  LET handle == PopInt("UINT32", buffer)
      prop   == PopInt("UINT16", handle.rest)
      value  == ReadTyped(PopInt("UINT16", prop.rest))
  IN  Popped([handle |-> handle.value, prop |-> prop.value, value |-> value.value],
             value.rest)

ReadOne(type, buffer) ==
  IF type = "ELEMENT" THEN ReadElement(buffer) ELSE ReadValue(type, buffer)

(* Reading one after another.                                                *)
Joined(done, r) == Popped(Append(done.value, r.value), r.rest)
ReadNext(done, type) == Joined(done, ReadOne(type, done.rest))

Read(types, buffer) ==
  LET done[n \in 0..Len(types)] ==
        IF n = 0 THEN Popped(<<>>, buffer) ELSE ReadNext(done[n - 1], types[n])
  IN  done[Len(types)]

(* ObjectInfo(packet)                                                        *)
PopInfo(buffer) ==
  LET r == Read([i \in DOMAIN pop_order |-> InfoType[pop_order[i]]], buffer)
  IN  [m \in DOMAIN InfoType |->
         r.value[CHOOSE i \in DOMAIN pop_order : pop_order[i] = m]]

-------------------------------------------------------------------------------
(* Properties of objects.                                                    *)

FileProperties == {"Object_Size", "Date_Created", "Date_Modified"}
CommonProperties == {"StorageID", "Object_Format", "Object_File_Name", "Parent_Object"}
ObjectProperties == CommonProperties \cup FileProperties

(* obj::supported                                                            *)
supported == [
  Undefined |-> <<"StorageID", "Object_Format", "Object_Size", "Object_File_Name",
                  "Date_Created", "Date_Modified", "Parent_Object">>,
  Association |-> <<"StorageID", "Object_Format", "Object_File_Name", "Parent_Object">>]

(* The types of the descriptions, and those of the lists.                    *)
desc_type == [
  StorageID |-> "UINT32", Object_Format |-> "UINT16", Object_Size |-> "UINT64",
  Object_File_Name |-> "STR", Date_Created |-> "STR", Date_Modified |-> "STR",
  Parent_Object |-> "UINT32"]

list_type == [
  StorageID |-> "UINT32", Object_Format |-> "UINT16", Object_File_Name |-> "STR",
  Parent_Object |-> "UINT32", Object_Size |-> "UINT64", Date_Created |-> "STR",
  Date_Modified |-> "STR"]

(* What is pushed for a property, whose width is that of the C++ type.       *)
Item(p, o) ==
  CASE p = "StorageID"        -> PushInt("UINT32", Id)
    [] p = "Object_Format"    -> PushInt("UINT16", o.format)
    [] p = "Object_Size"      -> PushInt("UINT64", o.size)
    [] p = "Object_File_Name" -> PushString(o.name)
    [] p = "Parent_Object"    -> PushInt("UINT32", o.parent)
    [] p = "Date_Created"     -> PushString(DateTime(get_timestamp.created))
    [] p = "Date_Modified"    -> PushString(DateTime(get_timestamp.modified))

(* ObjectPropDesc<T>: code, type, get_set, default_value, group_code, form.  *)
PropDesc(p) ==
  FlattenSeq(<<
    PushInt("UINT16", p), PushInt("UINT16", desc_type[p]),
    PushInt("UINT8", IF p = "Object_File_Name" THEN 1 ELSE 0)>>)
  \o (CASE p = "Object_Format" -> PushInt("UINT16", "Undefined")
        [] p = "Object_Size"   -> PushInt("UINT64", 0)
        [] p \in {"StorageID", "Parent_Object"} -> PushInt("UINT32", 0)
        [] OTHER -> PushString(NoString))
  \o FlattenSeq(<<
    PushInt("UINT32", 0),
    PushInt("UINT8", IF p \in {"Date_Created", "Date_Modified"} THEN 3 ELSE 0)>>)

(* The conditions of PUSH_PROP.                                              *)
ForAll(p, o) == TRUE
ForFiles(p, o) == p \in CommonProperties \/ is_file(o)

Element(p, o) ==
  FlattenSeq(<<PushInt("UINT32", o.handle), PushInt("UINT16", p),
               PushInt("UINT16", list_type[p])>>)
  \o Item(p, o)

list_order == <<"StorageID", "Object_Format", "Object_File_Name", "Parent_Object",
                "Object_Size", "Date_Created", "Date_Modified">>

(* get_object_prop_list of these objects; the count is put in front when     *)
(* everything else is there.                                                 *)
Listed(p, o, format, prop) ==
  /\ format = "all" \/ o.format = format
  /\ ForFiles(p, o)
  /\ prop = "all" \/ prop = p

Elements(o, format, prop) ==
  FlattenSeq([i \in DOMAIN list_order |->
    IF Listed(list_order[i], o, format, prop)
      THEN <<[prop |-> list_order[i], of |-> o]>> ELSE <<>>])

PropList(objs, format, prop) ==
  LET listed == FlattenSeq([i \in DOMAIN objs |-> Elements(objs[i], format, prop)])
  IN  PushInt("UINT32", Len(listed))
        \o FlattenSeq([i \in DOMAIN listed |-> Element(listed[i].prop, listed[i].of)])

-------------------------------------------------------------------------------
(* The device.                                                               *)

(* info::supported_operations, those with data that is not a file's, and     *)
(* info::supported_device_properties, supported_playback_formats.            *)
supported_operations == <<
  "GetDeviceInfo", "GetStorageIDs", "GetStorageInfo", "GetObjectHandles",
  "GetObjectInfo", "SendObjectInfo", "GetDevicePropDesc", "GetDevicePropValue",
  "GetObjectPropsSupported", "GetObjectPropDesc", "GetObjectPropValue",
  "SetObjectPropValue", "GetObjectPropList">>
supported_device_properties == <<"Device_Friendly_Name", "Synchronization_Partner">>
supported_playback_formats == <<"Undefined", "Association">>

DeviceInfo == FlattenSeq(<<
  PushInt("UINT16", 100), PushInt("UINT32", 6), PushInt("UINT16", 110),
  PushString(NoString), PushInt("UINT16", 0),
  PushArray("UINT16", supported_operations), PushArray("UINT16", <<"Undefined">>),
  PushArray("UINT16", supported_device_properties),
  PushArray("UINT16", <<"Undefined">>),
  PushArray("UINT16", supported_playback_formats),
  PushString(MakeString(<<1>>)), PushString(MakeString(<<1>>)),
  PushString(MakeString(<<1>>)), PushString(MakeString(<<1>>))>>)

StorageInfo == FlattenSeq(<<
  PushInt("UINT16", 4), PushInt("UINT16", 2), PushInt("UINT16", 0),
  PushInt("UINT64", 0), PushInt("UINT64", 0), PushInt("UINT32", 0),
  PushString(MakeString(<<1, 2>>)), PushString(NoString)>>)

DevicePropValue == PushString(MakeString(<<1>>))
DevicePropDesc(p) == FlattenSeq(<<
  PushInt("UINT16", p), PushInt("UINT16", "STR"), PushInt("UINT8", 0),
  DevicePropValue, DevicePropValue, PushInt("UINT32", 0), PushInt("UINT8", 0)>>)

-------------------------------------------------------------------------------
(* handle_request, for the operations whose data goes to the host.           *)

Reply(buffer) == [code |-> "OK", buffer |-> buffer]
Refuse(reason) == [code |-> reason, buffer |-> <<>>]

GetObjectPropValue(p) ==
  IF p \notin ObjectProperties \/ (p \in FileProperties /\ is_directory(object))
    THEN Refuse("Invalid_ObjectPropCode")
    ELSE Reply(Item(p, object))

GetObjectPropDesc(p) ==
  IF p \in ObjectProperties THEN Reply(PropDesc(p)) ELSE Refuse("Operation_Not_Supported")

GetObjectPropsSupported(format) ==
  IF format \in DOMAIN supported
    THEN Reply(PushArray("UINT16", supported[format]))
    ELSE Refuse("Operation_Not_Supported")

OfDeviceProp(p, buffer) ==
  IF Contains(supported_device_properties, p)
    THEN Reply(buffer)
    ELSE Refuse("DeviceProp_Not_Supported")

Answer(r) ==
  CASE r.op = "GetDeviceInfo"    -> Reply(DeviceInfo)
    [] r.op = "GetStorageIDs"    -> Reply(PushArray("UINT32", <<Id>>))
    [] r.op = "GetStorageInfo"   -> Reply(StorageInfo)
    [] r.op = "GetObjectHandles" ->
         Reply(PushArray("UINT32", <<Folder.handle, object.handle>>))
    [] r.op = "GetObjectInfo"    -> Reply(PushInfo(InfoOf(object), push_order))
    [] r.op = "GetDevicePropDesc"  -> OfDeviceProp(r.prop, DevicePropDesc(r.prop))
    [] r.op = "GetDevicePropValue" -> OfDeviceProp(r.prop, DevicePropValue)
    [] r.op = "GetObjectPropsSupported" -> GetObjectPropsSupported(r.format)
    [] r.op = "GetObjectPropDesc"  -> GetObjectPropDesc(r.prop)
    [] r.op = "GetObjectPropValue" -> GetObjectPropValue(r.prop)
    [] r.op = "GetObjectPropList"  ->
         Reply(PropList(IF r.depth = 0 THEN <<object>> ELSE <<Folder, object>>,
                        r.format, r.prop))
    [] OTHER -> Refuse("Invalid_TransactionID")

-------------------------------------------------------------------------------
(* The steps.                                                                *)

Init ==
  /\ entry \in [kind : {"dir"}, name : Names, size : {0}]
             \cup [kind : {"file"}, name : Names, size : Sizes]
  /\ object = FromEntry(entry)
  /\ clock \in BOOLEAN
  /\ given = Null /\ kept = TRUE /\ relisted = FALSE
  /\ pc = "idle" /\ request = Null /\ code = "OK"
  /\ packet = <<>> /\ buf = <<>> /\ left = 0 /\ got = <<>>

Done(reason) == pc' = "answered" /\ code' = reason

(* A handler makes the whole dataset before it sends any of it.              *)
Ask(r) ==
  /\ pc = "idle"
  /\ request' = r
  /\ LET answer == Answer(r)
     IN  /\ code' = answer.code
         /\ pc' = IF answer.code = "OK" THEN "send_header" ELSE "answered"
         /\ packet' = answer.buffer /\ buf' = answer.buffer
         /\ left' = Len(answer.buffer)
  /\ got' = <<>>
  /\ UNCHANGED <<fsys, object, seen>>

SendHeader ==
  /\ pc = "send_header"
  /\ \/ pc' = "send" /\ UNCHANGED code
     \/ Done("General_Error")
  /\ UNCHANGED <<fsys, object, seen, request, wire>>

(* What buf points to when a chunk has been copied into the endpoint's       *)
(* buffer: the end of that buffer.                                           *)
AfterCopy(n) == [i \in 1..n |-> Field(0, Garbage)]
AfterChunk(n) == SubSeq(buf, Len(buf) - n + 1, Len(buf))

(* A transfer may carry less than was posted, which ends the loop, or fail,  *)
(* which ends the request.                                                   *)
Chunked == IF left < Chunk THEN left ELSE Chunk
Carried == {Chunked} \cup ({Chunked - 1} \cap Nat)
NextPc(n, again, end) == IF n < Chunked \/ n = left THEN end ELSE again

SendChunk ==
  /\ pc = "send"
  /\ \/ \E n \in Carried :
          /\ got' = got \o SubSeq(buf, 1, n)
          /\ left' = left - n
          /\ buf' = AfterCopy(left')
          /\ pc' = NextPc(n, "send", "sent") /\ UNCHANGED code
     \/ Done("General_Error") /\ UNCHANGED <<got, left, buf>>
  /\ UNCHANGED <<fsys, object, seen, request, packet>>

(* sent == buffer.size(), received == buffer.size()                          *)
Unchecked == TRUE
Complete == left = 0

(* set_zlt may fail as well.                                                 *)
Sent ==
  /\ pc = "sent"
  /\ Done("General_Error") \/ (Complete /\ Done("OK"))
  /\ UNCHANGED <<fsys, object, seen, request, wire>>

(* The host's data, of the length it announces.                              *)
Tell(r, dataset) ==
  /\ pc = "idle"
  /\ request' = r
  /\ pc' = "receive" /\ UNCHANGED code
  /\ packet' = <<>> /\ buf' = dataset /\ left' = Len(dataset)
  /\ got' = <<>>
  /\ UNCHANGED <<fsys, object, seen>>

ReceiveChunk ==
  /\ pc = "receive"
  /\ \/ \E n \in Carried :
          /\ packet' = packet \o SubSeq(buf, 1, n)
          /\ left' = left - n
          /\ buf' = AfterChunk(left')
          /\ pc' = NextPc(n, "receive", "received") /\ UNCHANGED code
     \/ Done("General_Error") /\ UNCHANGED <<packet, left, buf>>
  /\ UNCHANGED <<fsys, object, seen, request, got>>

NotReceived ==
  /\ pc = "received" /\ ~Complete
  /\ Done("General_Error")
  /\ UNCHANGED <<fsys, object, seen, request, wire>>

(* The file system has the object under this name, or has refused it; the    *)
(* request goes on either way.                                               *)
Stored(e) ==
  \/ e.name # <<>> /\ entry' = e /\ kept' = TRUE
  \/ UNCHANGED entry /\ kept' = FALSE

(* send_object_info                                                          *)
SendObjectInfo ==
  /\ pc = "received" /\ Complete /\ request.op = "SendObjectInfo"
  /\ LET info == PopInfo(packet)
     IN  /\ object' = FromInfo(info)
         /\ Stored([kind |-> IF is_directory(object') THEN "dir" ELSE "file",
                    name |-> PathName(info.filename.chars),
                    size |-> IF is_directory(object') THEN 0 ELSE object'.size])
  /\ given' = request.name /\ relisted' = FALSE
  /\ Done("OK")
  /\ UNCHANGED <<clock, request, wire>>

(* set_object_prop_value                                                     *)
SetObjectPropValue ==
  /\ pc = "received" /\ Complete /\ request.op = "SetObjectPropValue"
  /\ IF request.prop = "Object_File_Name"
       THEN /\ object' = [object EXCEPT !.name = PopString(packet).value]
            /\ IF LeadsToEntry
                 THEN Stored([entry EXCEPT !.name = PathName(object'.name.chars)])
                 ELSE kept' = FALSE /\ UNCHANGED entry
            /\ given' = request.name /\ relisted' = FALSE
            /\ Done("OK")
       ELSE /\ Done("Invalid_ObjectPropCode")
            /\ UNCHANGED <<object, entry, kept, given, relisted>>
  /\ UNCHANGED <<clock, request, wire>>

(* The host has the response.                                                *)
Finish ==
  /\ pc = "answered"
  /\ pc' = "idle" /\ code' = "OK" /\ request' = Null
  /\ packet' = <<>> /\ buf' = <<>> /\ left' = 0 /\ got' = <<>>
  /\ UNCHANGED <<fsys, object, seen>>

(* The program is started again and lists the directory.                     *)
Relist ==
  /\ pc = "idle"
  /\ object' = FromEntry(entry)
  /\ relisted' = TRUE
  /\ UNCHANGED <<fsys, given, pc, request, code, wire>>

-------------------------------------------------------------------------------
(* The host.                                                                 *)

Properties == ObjectProperties \cup {"Hidden"}
Formats == {"Undefined", "Association", "EXIF_JPEG"}

Requests ==
  [op : {"GetDeviceInfo", "GetStorageIDs", "GetStorageInfo", "GetObjectHandles",
         "GetObjectInfo", "GetNumObjects"}]
  \cup [op : {"GetDevicePropDesc", "GetDevicePropValue"},
        prop : {"Device_Friendly_Name", "Synchronization_Partner", "Volume"}]
  \cup [op : {"GetObjectPropsSupported"}, format : Formats]
  \cup [op : {"GetObjectPropDesc", "GetObjectPropValue"}, prop : Properties]
  \cup [op : {"GetObjectPropList"}, prop : {"all", "Object_File_Name", "Object_Size"},
        format : {"all", "Association"}, depth : {0, 1}]

SendInfo ==
  \E name \in HostNames, format \in Formats, size \in Sizes :
    /\ size < WordSize
    /\ Tell([op |-> "SendObjectInfo", name |-> name, format |-> format, size |-> size],
            PushInfo([NoInfo EXCEPT !.format = format, !.compressed_size = size,
                                    !.filename = MakeString(name)], InfoDataset))

SetName ==
  \E name \in HostNames, p \in {"Object_File_Name", "Date_Modified"} :
    Tell([op |-> "SetObjectPropValue", name |-> name, prop |-> p],
         PushString(MakeString(name)))

Next ==
  \/ (\E r \in Requests : Ask(r)) \/ SendInfo \/ SetName
  \/ SendHeader \/ SendChunk \/ Sent
  \/ ReceiveChunk \/ NotReceived \/ SendObjectInfo \/ SetObjectPropValue
  \/ Finish \/ Relist

Spec == Init /\ [][Next]_vars

-------------------------------------------------------------------------------
(* Properties.  What the host makes of what it has got, by the standard's    *)
(* datasets.                                                                 *)

(* An ObjectPropDesc, whose default value has the type it announces.         *)
ReadDesc(buffer) ==
  LET start == Read(<<"UINT16", "UINT16", "UINT8">>, buffer)
      value == ReadValue(start.value[2], start.rest)
      end   == Read(<<"UINT32", "UINT8">>, value.rest)
  IN  Popped(start.value \o <<value.value>> \o end.value, end.rest)

ReadList(buffer) ==
  LET count == PopInt("UINT32", buffer)
  IN  Read([i \in 1..count.value |-> "ELEMENT"], count.rest)

HostReads ==
  CASE request.op = "GetDeviceInfo" ->
         Read(<<"UINT16", "UINT32", "UINT16", "STR", "UINT16", "AUINT16", "AUINT16",
                "AUINT16", "AUINT16", "AUINT16", "STR", "STR", "STR", "STR">>, got)
    [] request.op \in {"GetStorageIDs", "GetObjectHandles"} -> Read(<<"AUINT32">>, got)
    [] request.op = "GetStorageInfo" ->
         Read(<<"UINT16", "UINT16", "UINT16", "UINT64", "UINT64", "UINT32",
                "STR", "STR">>, got)
    [] request.op = "GetObjectInfo" ->
         Read([i \in DOMAIN InfoDataset |-> InfoType[InfoDataset[i]]], got)
    [] request.op = "GetDevicePropDesc" ->
         Read(<<"UINT16", "UINT16", "UINT8", "STR", "STR", "UINT32", "UINT8">>, got)
    [] request.op = "GetDevicePropValue" -> Read(<<"STR">>, got)
    [] request.op = "GetObjectPropsSupported" -> Read(<<"AUINT16">>, got)
    [] request.op = "GetObjectPropDesc" -> ReadDesc(got)
    [] request.op = "GetObjectPropValue" -> ReadValue(desc_type[request.prop], got)
    [] request.op = "GetObjectPropList" -> ReadList(got)

(* The data of a request that succeeded, as far as one buffer takes it.      *)
Delivered ==
  /\ pc = "answered" /\ code = "OK"
  /\ request.op \notin {"SendObjectInfo", "SetObjectPropValue"}
  /\ Len(packet) <= Chunk

(* The object and what is on the wire have their types; a count is a byte.   *)
TypeOK ==
  /\ pc \in {"idle", "send_header", "send", "sent", "receive", "received", "answered"}
  /\ object.name.num_chars \in 0..(ByteSize - 1)
  /\ entry.kind \in {"dir", "file"} /\ entry.size \in Nat
  /\ left \in Nat /\ left = Len(buf)
  /\ clock \in BOOLEAN /\ kept \in BOOLEAN /\ relisted \in BOOLEAN

(* OK means that the host has the whole dataset or the server has, whatever  *)
(* transfers came short or failed.                                           *)
SuccessIsDelivered ==
  pc = "answered" /\ code = "OK" =>
    /\ left = 0
    /\ Delivered => got = packet

(* Every dataset can be read to its end by the types the standard, the       *)
(* description of the property or the list itself announces, for every name, *)
(* those too long for their count included.                                  *)
DatasetsAlign == Delivered => HostReads.rest = <<>>

(* The dates of the object; a folder has none.                               *)
DateOf == IF is_file(object) THEN get_timestamp ELSE [created |-> 0, modified |-> 0]

(* All answers about the object agree with it, and so with each other.       *)
Says(p, value) ==
  CASE p = "StorageID"        -> value = Id
    [] p = "Object_Format"    -> value = object.format
    [] p = "Object_Size"      -> value = object.size
    [] p = "Object_File_Name" -> Fits(object.name.chars) => value = object.name
    [] p = "Parent_Object"    -> value = object.parent
    [] p = "Date_Created"     -> value = DateTime(DateOf.created)
    [] p = "Date_Modified"    -> value = DateTime(DateOf.modified)

AnswersAgree ==
  Delivered =>
    /\ request.op = "GetObjectPropValue" => Says(request.prop, HostReads.value)
    /\ request.op = "GetObjectPropList" =>
         LET list == HostReads.value
         IN  \A i \in DOMAIN list :
               list[i].handle = object.handle => Says(list[i].prop, list[i].value)
    /\ request.op = "GetObjectInfo" =>
         LET read == HostReads.value
         IN  /\ Says("StorageID", read[1]) /\ Says("Object_Format", read[2])
             /\ object.size < WordSize => Says("Object_Size", read[4])
             /\ Says("Parent_Object", read[12]) /\ Says("Object_File_Name", read[16])
             /\ Says("Date_Created", read[17]) /\ Says("Date_Modified", read[18])

(* What the device announces it answers: an operation, a device property, a  *)
(* format, and, of an object of such a format, every property it names for   *)
(* the format, alone or in a list of all.                                    *)
Announced(o) ==
  IF Contains(supported_playback_formats, o.format) THEN ToSet(supported[o.format]) ELSE {}

AnnouncedIsAnswered ==
  pc = "answered" /\ Contains(supported_operations, request.op) =>
    /\ code # "Invalid_TransactionID"
    /\ code = "DeviceProp_Not_Supported" =>
         ~Contains(supported_device_properties, request.prop)
    /\ request.op = "GetObjectPropsSupported" /\ code = "Operation_Not_Supported" =>
         ~Contains(supported_playback_formats, request.format)
    /\ request.op \in {"GetObjectPropDesc", "GetObjectPropValue"}
         /\ code \in {"Operation_Not_Supported", "Invalid_ObjectPropCode"} =>
         request.prop \notin Announced(object)
    /\ request.op = "GetObjectPropList" /\ request.prop = "all" /\ Delivered
         /\ Contains(supported_playback_formats, object.format)
         /\ request.format \in {"all", object.format} =>
         LET list == HostReads.value
         IN  {list[i].prop : i \in {j \in DOMAIN list : list[j].handle = object.handle}}
               = Announced(object)

(* A name the host has given comes back to it: as long as the object is      *)
(* remembered, whatever it is; after the program has been started again, if  *)
(* its characters are single bytes.                                          *)
Plain(chars) == \A i \in DOMAIN chars : chars[i] \in 1..(ByteSize - 1)

NameComesBack ==
  Delivered /\ given # Null /\ (kept \/ ~relisted) /\ (Plain(given) \/ ~relisted) =>
    /\ request.op = "GetObjectInfo" => HostReads.value[16].chars = given
    /\ request.op = "GetObjectPropValue" /\ request.prop = "Object_File_Name" =>
         HostReads.value.chars = given
===============================================================================
