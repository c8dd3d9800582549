------------------------------- MODULE LePack -------------------------------
(***************************************************************************)
(* src/src/struct_pack/le_pack.c and pack.c: values written to a buffer    *)
(* byte by byte, the lowest first, and read back.  A byte has ByteMod      *)
(* values, an even number; a type is its width in bytes and how it is      *)
(* read.  Raw data is the function of its bytes, any other value a number. *)
(***************************************************************************)
EXTENDS Integers

CONSTANTS
  ByteMod,     \* number of values of a byte
  SizeMod,     \* number of values of size_t
  DataLen,     \* bytes of the buffer
  MaxPacks,    \* bound on the packs of a behaviour
  RawSizes,    \* the sizes of the raw data packed
  Values(_)    \* the values packed of a type

VARIABLES
  data,        \* the buffer
  packs,       \* the number of packs so far
  fields,      \* what was packed and not yet overwritten
  last         \* the last call and what it returned

vars == <<data, packs, fields, last>>

TypeOf(n, reading) == [size |-> n, read |-> reading]

(* The types: one le_pack and le_unpack function each, with its PACK_SIZE. *)
Type ==
  {TypeOf(1, "bool")} \cup {TypeOf(n, "raw") : n \in RawSizes}
    \cup {TypeOf(n, reading) : n \in {1, 2, 4, 8}, reading \in {"unsigned", "signed"}}

(* What a shift by k bytes, 8 * k bits, multiplies by. *)
Place(k) ==
  LET b2 == ByteMod * ByteMod
      b4 == b2 * b2
  IN  <<1, ByteMod, b2, b2 * ByteMod, b4, b4 * ByteMod, b4 * b2,
        b4 * b2 * ByteMod, b4 * b4>>[k + 1]

(* The values a variable of the type can have. *)
ValuesOf(t) ==
  CASE t.read = "bool"     -> {0, 1}
    [] t.read = "raw"      -> [0 .. t.size - 1 -> 0 .. ByteMod - 1]
    [] t.read = "signed"   -> 0 - Place(t.size) \div 2 .. Place(t.size) \div 2 - 1
    [] t.read = "unsigned" -> 0 .. Place(t.size) - 1

ASSUME LePackAssumption ==
  /\ ByteMod \in Nat /\ ByteMod % 2 = 0 /\ ByteMod > 0
  /\ SizeMod \in Nat /\ SizeMod > 8
  /\ DataLen \in 0 .. SizeMod - 1
  /\ MaxPacks \in Nat
  /\ RawSizes \subseteq 0 .. SizeMod - 1
  /\ \A t \in Type : \A value \in Values(t) : value \in ValuesOf(t)

TypeOK ==
  /\ data \in [0 .. DataLen - 1 -> 0 .. ByteMod - 1]
  /\ packs \in 0 .. MaxPacks
  /\ \A f \in fields : /\ f.type \in Type /\ f.content \in ValuesOf(f.type)
                       /\ f.offset \in 0 .. DataLen - f.type.size
  /\ last \in [type : Type \cup {TypeOf(0, "raw")}, offset : 0 .. SizeMod - 1,
               ret : 0 .. SizeMod - 1]

Init ==
  /\ data = [i \in 0 .. DataLen - 1 |-> ByteMod - 1]
  /\ packs = 0
  /\ fields = {}
  /\ last = [type |-> TypeOf(0, "raw"), offset |-> 0, ret |-> 0]

-----------------------------------------------------------------------------
WithinWithoutWrapTest(offset, req_size, data_len) ==   \* faulty variant
  (offset + req_size) % SizeMod <= data_len

(* The sum is a size_t; one that has wrapped is smaller than the offset. *)
pack_is_within_buffer(offset, req_size, data_len) ==
  LET required_index == (offset + req_size) % SizeMod
  IN  required_index >= offset /\ required_index <= data_len

ByteUnmasked(value, k) == value \div Place(k)   \* faulty variant

(* (value >> 8k) & 0xFF.  The shift of a negative value is arithmetic. *)
ByteOf(value, k) == (value \div Place(k)) % ByteMod

(* le_pack_bool normalises; le_unpack_bool takes only 1 for true. *)
Normalised(element) == IF element # 0 THEN 1 ELSE 0
Bool(offset)        == IF data[offset] = 1 THEN 1 ELSE 0

(* The bytes stored for a value: by le_pack_bool, the memcpy of            *)
(* le_pack_raw, and le_pack_u8 to u64 and s8 to s64.                       *)
Bytes(t, value) ==
  [k \in 0 .. t.size - 1 |-> CASE t.read = "bool" -> ByteOf(Normalised(value), k)
                               [] t.read = "raw"  -> value[k]
                               [] OTHER           -> ByteOf(value, k)]

(* Faulty variant: the byte after the field is cleared too. *)
WrittenTooFar(offset, size, bytes) ==
  [i \in DOMAIN data |-> IF i \in offset .. offset + size - 1
                           THEN bytes[i - offset]
                           ELSE IF i = offset + size THEN 0 ELSE data[i]]

(* The buffer with the bytes at offset. *)
Written(offset, size, bytes) ==
  [i \in DOMAIN data |-> IF i \in offset .. offset + size - 1
                           THEN bytes[i - offset] ELSE data[i]]

(* le_unpack_raw: the bytes. *)
Raw(offset, size) == [k \in 0 .. size - 1 |-> data[offset + k]]

(* le_unpack_u8 to u64: the sum of the shifted bytes. *)
Unsigned(offset, size) ==
  LET shifted(k) == IF k < size THEN data[offset + k] * Place(k) ELSE 0
  IN  shifted(0) + shifted(1) + shifted(2) + shifted(3)
        + shifted(4) + shifted(5) + shifted(6) + shifted(7)

(* le_unpack_s8 to s64: the same sum stored in a signed type.  The shift   *)
(* into the sign bit is undefined in C; builds keep the bits.              *)
Signed(offset, size) ==
  LET u == Unsigned(offset, size)
  IN  IF u < Place(size) \div 2 THEN u ELSE u - Place(size)

(* The guard of every function; an empty raw field is refused too. *)
Accepts(t, offset) ==
  pack_is_within_buffer(offset, t.size, DataLen) /\ (t.read = "raw" => t.size > 0)

Overlaps(f, t, offset) ==
  f.offset < offset + t.size /\ offset < f.offset + f.type.size

le_pack(t, offset, value) ==
  /\ packs < MaxPacks
  /\ packs' = packs + 1
  /\ last' = [type |-> t, offset |-> offset,
              ret |-> IF Accepts(t, offset) THEN t.size ELSE 0]
  /\ IF Accepts(t, offset)
       THEN /\ data' = Written(offset, t.size, Bytes(t, value))
            /\ fields' = {f \in fields : ~Overlaps(f, t, offset)}
                           \cup {[type |-> t, offset |-> offset, content |-> value]}
       ELSE UNCHANGED <<data, fields>>

le_unpack(t, offset) ==
  CASE t.read = "bool"     -> Bool(offset)
    [] t.read = "raw"      -> Raw(offset, t.size)
    [] t.read = "signed"   -> Signed(offset, t.size)
    [] t.read = "unsigned" -> Unsigned(offset, t.size)

Next ==
  \E t \in Type, offset \in 0 .. SizeMod - 1 :
    \E value \in Values(t) : le_pack(t, offset, value)

Spec == Init /\ [][Next]_vars

-----------------------------------------------------------------------------
(***************************************************************************)
(* A field not overwritten since reads back as the value packed, in every  *)
(* type and next to any other field: packing touches only its own bytes,   *)
(* and the sign and the highest byte survive.                              *)
(***************************************************************************)
FieldsReadBack ==
  \A f \in fields :
    Accepts(f.type, f.offset) /\ le_unpack(f.type, f.offset) = f.content

(***************************************************************************)
(* A call is accepted, and the size of its type returned, exactly when the *)
(* field ends inside the buffer, also if offset plus size does not fit a   *)
(* size_t.                                                                 *)
(***************************************************************************)
BoundsExact ==
  last.ret = IF last.offset + last.type.size <= DataLen THEN last.type.size ELSE 0
=============================================================================
