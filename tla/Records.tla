------------------------------- MODULE Records -------------------------------
(***************************************************************************)
(* The bytes of the three records of an archive: zipRead() and zipWrite()  *)
(* (src/src/zipios_common.cpp), and the order in which the read() and      *)
(* write() functions of the local header, the central directory header and *)
(* the end of central directory call them.  ZipFormat has one cell for     *)
(* what is here the fixed part of a record.                                *)
(*                                                                         *)
(* An unsigned number is the sequence of its 16 bit digits, the lowest     *)
(* first: << n >> is a uint16_t and << low, high >> a uint32_t.  A string  *)
(* or buffer is the sequence of its bytes.                                 *)
(***************************************************************************)
EXTENDS Integers, SequencesExt

Octet == 0..255
DigitMod == 65536
Digit == 0..DigitMod - 1
Number == Seq(Digit)
Word32 == {number \in Number : Len(number) = 2}
Text == {bytes \in Seq(Octet) : Len(bytes) < DigitMod}

\* The bytes of a number and the number of those bytes: little endian.
Bytes(number) ==
    [i \in 1..2 * Len(number) |->
        IF i % 2 = 1 THEN number[(i + 1) \div 2] % 256 ELSE number[i \div 2] \div 256]

NumberOf(bytes) ==
    [i \in 1..Len(bytes) \div 2 |-> bytes[2 * i - 1] + 256 * bytes[2 * i]]

\* size_t and offset_t values as the fields hold them.
Uint16(n) == << n % DigitMod >>
Uint32(n) == << n % DigitMod, n \div DigitMod >>
OffsetOf(number) == number[1] + DigitMod * number[2]
Size == {n \in Nat : n \div DigitMod < DigitMod}

-----------------------------------------------------------------------------
(* The fields of the records, and the order in which they are written and  *)
(* read.                                                                   *)

Words == {"signature", "time", "crc", "csize", "size", "attributes", "offset",
          "directory_size", "directory_offset"}

\* The field that holds the length of each text.
LengthField == [name |-> "name_len", extra |-> "extra_len", comment |-> "comment_len"]

LocalWritten ==
    << "signature", "extract_version", "flags", "method", "time", "crc", "csize",
       "size", "name_len", "extra_len", "name", "extra" >>

LocalRead ==
    << "signature", "extract_version", "flags", "method", "time", "crc", "csize",
       "size", "name_len", "extra_len", "name", "extra" >>

CentralWritten ==
    << "signature", "writer_version", "extract_version", "flags", "method", "time",
       "crc", "csize", "size", "name_len", "extra_len", "comment_len", "disk",
       "intern", "attributes", "offset", "name", "extra", "comment" >>

CentralRead ==
    << "signature", "writer_version", "extract_version", "flags", "method", "time",
       "crc", "csize", "size", "name_len", "extra_len", "comment_len", "disk",
       "intern", "attributes", "offset", "name", "extra", "comment" >>

EndWritten ==
    << "signature", "disk", "disk", "entries", "total_entries", "directory_size",
       "directory_offset", "comment_len", "comment" >>

EndRead ==
    << "signature", "disk", "disk", "entries", "total_entries", "directory_size",
       "directory_offset", "comment_len", "comment" >>

-----------------------------------------------------------------------------
(* The functions zipWrite() and zipRead().                                 *)

\* One zipWrite() per field.
WriteFields(fields, layout) ==
    FlattenSeq([i \in 1..Len(layout) |->
        IF layout[i] \in DOMAIN LengthField THEN fields[layout[i]]
                                            ELSE Bytes(fields[layout[i]])])

\* The number of bytes zipRead() asks for.
Count(fields, field) ==
    CASE field \in DOMAIN LengthField -> fields[LengthField[field]][1]
      [] field \in Words -> 4
      [] OTHER -> 2

\* A field was read into its member.
With(fields, field, value) ==
    [f \in DOMAIN fields \cup {field} |-> IF f = field THEN value ELSE fields[f]]

\* One zipRead(): it fails when the file ends within what it asks for.
ReadField(file, reading, field) ==
    LET tell == reading.tell
        count == Count(reading.fields, field)
        bytes == SubSeq(file, tell + 1, tell + count)
        value == IF field \in DOMAIN LengthField THEN bytes ELSE NumberOf(bytes)
    IN  IF reading.failed \/ tell + count > Len(file)
        THEN [tell |-> tell, failed |-> TRUE, fields |-> reading.fields]
        ELSE [tell |-> tell + count, failed |-> FALSE,
              fields |-> With(reading.fields, field, value)]

\* The read() function that reads the fields in this order from offset tell on.
ReadFields(file, tell, layout) ==
    LET reading[i \in 0..Len(layout)] ==
            IF i = 0 THEN [tell |-> tell, failed |-> FALSE, fields |-> << >>]
                     ELSE ReadField(file, reading[i - 1], layout[i])
    IN  reading[Len(layout)]

-----------------------------------------------------------------------------
(* The records of an entry.                                                *)

Separator == 47     \* g_separator

LocalSignature == << 19280, 1027 >>     \* 0x04034b50
CentralSignature == << 19280, 513 >>    \* 0x02014b50
EndSignature == << 19280, 1541 >>       \* 0x06054b50

\* What a ZipCentralDirectoryEntry holds of an entry whose data has been written.
EntryRecord ==
    [name : Text, dir : BOOLEAN, method : Digit, crc : Word32, size : Size,
     extra : Text, comment : Text]

FileName(entry) == entry.name \o IF entry.dir THEN << Separator >> ELSE << >>

\* getHeaderSize() of ZipLocalEntry and of ZipCentralDirectoryEntry.
LocalHeaderSize(entry) == 30 + Len(FileName(entry)) + Len(entry.extra)
CentralHeaderSize(entry) ==
    46 + Len(FileName(entry)) + Len(entry.extra) + Len(entry.comment)

\* The fields of both headers; the local header has not all of them.
HeaderFields(signature, entry, time, csize, offset) ==
    [signature |-> signature, writer_version |-> << 788 >>,
     extract_version |-> << 20 >>, flags |-> << 0 >>, method |-> << entry.method >>,
     time |-> time, crc |-> entry.crc, csize |-> Uint32(csize),
     size |-> Uint32(entry.size), name_len |-> Uint16(Len(FileName(entry))),
     extra_len |-> Uint16(Len(entry.extra)),
     comment_len |-> Uint16(Len(entry.comment)), disk |-> << 0 >>, intern |-> << 0 >>,
     attributes |-> IF entry.dir THEN << 16, 16893 >> ELSE << 0, 33204 >>,
     offset |-> Uint32(offset), name |-> FileName(entry), extra |-> entry.extra,
     comment |-> entry.comment]

LocalBytes(entry, time, csize) ==
    WriteFields(HeaderFields(LocalSignature, entry, time, csize, 0), LocalWritten)

CentralBytes(entry, time, csize, offset) ==
    WriteFields(HeaderFields(CentralSignature, entry, time, csize, offset),
                CentralWritten)

EndBytes(count, size, offset, comment) ==
    WriteFields([signature |-> EndSignature, disk |-> << 0 >>, entries |-> Uint16(count),
           total_entries |-> Uint16(count), directory_size |-> Uint32(size),
           directory_offset |-> Uint32(offset), comment_len |-> Uint16(Len(comment)),
           comment |-> comment], EndWritten)

\* The archive of one entry whose data is these bytes.  updateEntryHeaderInfo()
\* computes the compressed size from positions and from getHeaderSize(), and
\* writeZipCentralDirectory() the size of the directory.
ArchiveBytes(entry, time, data, comment) ==
    LET headerEnd == Len(LocalBytes(entry, time, 0))
        dataEnd == headerEnd + Len(data)
        csize == dataEnd - LocalHeaderSize(entry)
    IN  LocalBytes(entry, time, csize) \o data
            \o CentralBytes(entry, time, csize, 0)
            \o EndBytes(1, CentralHeaderSize(entry), dataEnd, comment)

-----------------------------------------------------------------------------
(* ZipFile::init() on the bytes of an archive of one entry.                *)

\* ZipEndOfCentralDirectory::read() does not return false.
EndsHere(file, p) ==
    /\ p + 22 <= Len(file)
    /\ NumberOf(SubSeq(file, p + 1, p + 4)) = EndSignature

EndOffsets(file) == {p \in 0..Len(file) : EndsHere(file, p)}

ReadEnd(file) ==
    ReadFields(file, CHOOSE p \in EndOffsets(file) : \A q \in EndOffsets(file) : q <= p,
               EndRead)

\* The ZipLocalEntry or ZipCentralDirectoryEntry that read() makes of the fields.
EntryOf(fields) ==
    LET dir == fields["name"] # << >> /\ fields["name"][Len(fields["name"])] = Separator
    IN  [name |-> SubSeq(fields["name"], 1,
                         Len(fields["name"]) - IF dir THEN 1 ELSE 0),
         dir |-> dir, method |-> fields["method"][1], crc |-> fields["crc"],
         size |-> OffsetOf(fields["size"]), extra |-> fields["extra"],
         comment |-> IF "comment" \in DOMAIN fields THEN fields["comment"] ELSE << >>]

\* Bug: the CRC is forgotten.
ComparedWithoutCrc(entry) ==
    [name |-> entry.name, dir |-> entry.dir, method |-> entry.method,
     size |-> entry.size, comment |-> entry.comment]

\* What isEqual() looks at, besides the time.
Compared(entry) ==
    [name |-> entry.name, dir |-> entry.dir, method |-> entry.method,
     crc |-> entry.crc, size |-> entry.size, comment |-> entry.comment]

\* isEqual() of the two headers, which were converted to these times.
SameEntry(local, central, localTime, centralTime) ==
    /\ Compared(EntryOf(local)) = Compared(EntryOf(central))
    /\ local["extract_version"] = central["extract_version"]
    /\ local["flags"] = central["flags"]
    /\ localTime = centralTime

\* What init() throws, or the fields of the two headers it compares: after the
\* local header was read, after the central directory, after its end.
Thrown(exception) == [thrown |-> exception]

AfterLocal(central, local) ==
    IF local.failed \/ local.fields["signature"] # LocalSignature
    THEN Thrown("IOException")
    ELSE [thrown |-> "none", central |-> central, local |-> local.fields]

AfterCentral(file, end, central) ==
    IF central.failed \/ central.fields["signature"] # CentralSignature
    THEN Thrown("IOException")
    ELSE IF central.tell # OffsetOf(end["directory_offset"]) + OffsetOf(end["directory_size"])
    THEN Thrown("FileCollectionException")
    ELSE AfterLocal(central.fields,
                    ReadFields(file, OffsetOf(central.fields["offset"]), LocalRead))

AfterEnd(file, end) ==
    IF end.failed THEN Thrown("IOException")
    ELSE IF end.fields["entries"] # end.fields["total_entries"]
    THEN Thrown("FileCollectionException")
    ELSE AfterCentral(file, end.fields,
            ReadFields(file, OffsetOf(end.fields["directory_offset"]), CentralRead))

Headers(file) ==
    IF EndOffsets(file) = {} THEN Thrown("FileCollectionException")
                             ELSE AfterEnd(file, ReadEnd(file))
=============================================================================
