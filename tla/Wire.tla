-------------------------------- MODULE Wire --------------------------------
(***************************************************************************)
(* training/wire.py with training/compression.py: a peer encodes its named *)
(* gradients, compressed or not, one field of the message may be damaged   *)
(* on its way, and the receiver decodes what arrives or refuses it.        *)
(* Element i of a float32 payload is a number; float16 cells have half the *)
(* width, so that bytes of one kind read as the other give other numbers.  *)
(***************************************************************************)
EXTENDS Merkle, Lists, FiniteSetsExt

CONSTANTS
  Names,          \* parameter names, as numbers: the order of their strings
  Tensors,        \* the gradients a parameter may have: [shape, cells]
  Compressors,    \* of "none", "topk", "fp16" and "chain" (top-k, then fp16)
  Keep,           \* elements top-k keeps: max(1, int(numel * ratio))
  Garbage         \* a float read from bytes that are none

ASSUME WireAssumption ==
  /\ Names \subseteq Int /\ IsFiniteSet(Names)
  /\ Compressors \subseteq {"none", "topk", "fp16", "chain"}
  /\ Keep \in Nat

VARIABLES
  gradients,      \* what the sender encodes, a function from names to tensors
  compressor,     \* of the sender
  message,        \* the WireMessage under way, NoMessage before encode
  damaged,        \* the field of the message that was damaged, or "none"
  decoded         \* what decode returned or that it raised, NoMessage before

wireVars == <<gradients, compressor, message, damaged, decoded>>

NoMessage == [state |-> "none"]
Raised == [state |-> "raised"]

Shapes == {t.shape : t \in Tensors}
Numel(shape) == FoldSeq(LAMBDA d, n : d * n, 1, shape)

ASSUME TensorsAssumption ==
  \A t \in Tensors :
    /\ t = [shape |-> t.shape, cells |-> t.cells] /\ t.cells \in Seq(Int)
    /\ Len(t.cells) = Numel(t.shape) /\ Keep <= Len(t.cells)

(* torch.reshape and frombuffer raise on sizes that do not match.          *)
Reshaped(shape, cells) == IF Numel(shape) = Len(cells) THEN [shape |-> shape, cells |-> cells] ELSE Raised

(* Bytes of a payload read as float32.                                     *)
AsFloat32(payload) ==
  IF payload.width = 4 THEN payload.cells
  ELSE [i \in 1..(Len(payload.cells) \div 2) |-> Garbage]

Magnitude(v) == IF v < 0 THEN -v ELSE v

(* float16 holds integers up to 2048 exactly and even ones up to 4096;     *)
(* larger values are not used.                                             *)
Half(v) ==
  IF Magnitude(v) <= 2048 \/ v % 2 = 0 THEN v
  ELSE IF v % 4 = 1 THEN v - 1 ELSE v + 1

(* torch.topk: the largest first; it picks any of equal magnitudes, here   *)
(* the first ones.                                                         *)
Ahead(cells, i) ==
  {j \in DOMAIN cells : \/ Magnitude(cells[j]) > Magnitude(cells[i])
                        \/ Magnitude(cells[j]) = Magnitude(cells[i]) /\ j < i}
TopIndices(cells) ==
  [k \in 1..Keep |-> CHOOSE i \in DOMAIN cells : Cardinality(Ahead(cells, i)) = k - 1]

Sparse(cells) ==
  [i \in 1..Len(cells) |-> IF i \in ToSet(TopIndices(cells)) THEN cells[i] ELSE 0]

(* compress: the payload and the metadata decompress needs.  A chain sends *)
(* the last compressor's payload, of the tensor the others leave.          *)
Compress(c, tensor) ==
  LET top == TopIndices(tensor.cells)
      floats(cells) == [width |-> 4, cells |-> cells]
      halves(cells) == [width |-> 2, cells |-> [i \in DOMAIN cells |-> Half(cells[i])]]
  IN CASE c = "none"  -> floats(tensor.cells)
       [] c = "topk"  -> floats(top \o [i \in DOMAIN top |-> tensor.cells[top[i]]])
       [] c = "fp16"  -> halves(tensor.cells)
       [] c = "chain" -> halves(Sparse(tensor.cells))

(* decompress, with the shape in the metadata.                             *)
Decompress(c, payload, shape) ==
  IF c = "topk"
  THEN LET floats == AsFloat32(payload)
           place(i) == {j \in 1..Keep : floats[j] = i}
       IN IF Len(floats) # 2 * Keep \/ \E j \in 1..Keep : floats[j] \notin 1..Numel(shape) THEN Raised
          ELSE Reshaped(shape, [i \in 1..Numel(shape) |->
                 IF place(i) = {} THEN 0 ELSE floats[Keep + Max(place(i))]])
  ELSE IF payload.width = 2 THEN Reshaped(shape, payload.cells) ELSE Raised

(* What the receiver should see of a tensor: the values that survive.      *)
Lossy(c, tensor) ==
  [tensor EXCEPT !.cells =
     [i \in DOMAIN @ |-> LET kept == IF c \in {"topk", "chain"} THEN Sparse(@)[i] ELSE @[i]
                         IN IF c \in {"fp16", "chain"} THEN Half(kept) ELSE kept]]

WireInit ==
  /\ gradients \in UNION {[ns -> Tensors] : ns \in SUBSET Names}
  /\ compressor \in Compressors
  /\ message = NoMessage /\ damaged = "none" /\ decoded = NoMessage

(* encode: root over the names and the payloads, then header, parameters   *)
(* and metadata.                                                           *)
Encoded ==
  LET names == InOrder(DOMAIN gradients)
      payloads == [n \in DOMAIN gradients |-> Compress(compressor, gradients[n])]
  IN [state |-> "sent", magic |-> TRUE, version |-> 1, compressed |-> (compressor # "none"),
      merkle_root |-> NamedRoot(names, payloads),
      params |-> [i \in 1..Len(names) |->
                    [name |-> names[i], shape |-> gradients[names[i]].shape, data |-> payloads[names[i]]]],
      metadata |-> [n \in DOMAIN gradients |-> gradients[n].shape]]

Encode ==
  /\ message = NoMessage
  /\ message' = Encoded
  /\ UNCHANGED <<gradients, compressor, damaged, decoded>>

(* One field arrives as something else.                                    *)
Damage ==
  /\ message # NoMessage /\ damaged = "none" /\ decoded = NoMessage
  /\ LET m == message
         becomes(field, value) == damaged' = field /\ message' = value
     IN \/ becomes("header", [m EXCEPT !.magic = FALSE])
        \/ becomes("header", [m EXCEPT !.version = 2])
        \/ becomes("root", [m EXCEPT !.merkle_root = ZeroRoot])
        \/ becomes("flags", [m EXCEPT !.compressed = ~@])
        \/ becomes("count", [m EXCEPT !.params = Front(@)]) /\ m.params # <<>>
        \/ \E n \in DOMAIN m.metadata, s \in Shapes : becomes("metadata", [m EXCEPT !.metadata[n] = s])
        \/ \E i \in DOMAIN m.params :
             \/ \E n \in Names : becomes("name", [m EXCEPT !.params[i].name = n])
             \/ \E s \in Shapes : becomes("shape", [m EXCEPT !.params[i].shape = s])
             \/ becomes("data", [m EXCEPT !.params[i].data.cells = Reverse(@)])
             \/ becomes("data", [m EXCEPT !.params[i].data.cells = Front(@)])
  /\ UNCHANGED <<gradients, compressor, decoded>>

(* decode, with the compressor c of the receiver: the header is checked    *)
(* first, the root over all names and data before anything is interpreted. *)
(* A name that occurs twice keeps the data that was read last.             *)
ReadData(params) ==
  [n \in {params[i].name : i \in DOMAIN params} |->
     params[Max({i \in DOMAIN params : params[i].name = n})]]

Result(m, c) ==
  LET read == ReadData(m.params)
      names == [i \in DOMAIN m.params |-> m.params[i].name]
      raw == [n \in DOMAIN read |-> read[n].data]
      value(n) == IF m.compressed /\ c # "none" THEN Decompress(c, raw[n], m.metadata[n])
                  ELSE Reshaped(read[n].shape, AsFloat32(raw[n]))
  IN IF ~m.magic \/ m.version # 1 \/ ~Verifies(m.merkle_root, names, raw) THEN Raised
     ELSE IF \E n \in DOMAIN read : value(n) = Raised THEN Raised
     ELSE [state |-> "decoded", by |-> c, raw |-> raw, gradients |-> [n \in DOMAIN read |-> value(n)]]

Decode ==
  /\ message # NoMessage /\ decoded = NoMessage
  /\ \E c \in {compressor, "none"} : decoded' = Result(message, c)
  /\ UNCHANGED <<gradients, compressor, message, damaged>>

WireNext == Encode \/ Damage \/ Decode

WireSpec == WireInit /\ [][WireNext]_wireVars

(***************************************************************************)
(* Whatever single field was damaged, a message that decodes carries the   *)
(* names and the bytes its sender hashed (wire.py: the root covers all     *)
(* parameter data).  A receiver with the sender's compressor then gets the *)
(* sender's gradients, less what that compressor drops, unless a field     *)
(* beside the root (flags, shapes, metadata) was damaged.                  *)
(***************************************************************************)
DecodedAsEncoded ==
  decoded.state = "decoded" =>
    /\ decoded.raw = [n \in DOMAIN gradients |-> Compress(compressor, gradients[n])]
    /\ decoded.by = compressor /\ damaged \notin {"flags", "shape", "metadata"} =>
         decoded.gradients = [n \in DOMAIN gradients |-> Lossy(compressor, gradients[n])]
=============================================================================
