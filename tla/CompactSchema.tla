---------------------------- MODULE CompactSchema ----------------------------
(***************************************************************************)
(* The schema of a compact Arrow file: the fields of its profile and its   *)
(* key-value metadata, as the builder writes it, as the cache validates it *)
(* and as the engine reads it.                                             *)
(*                                                                         *)
(* Metadata values are text.  A numeral is "canonical" or "loose" (with a  *)
(* sign, blanks or underscores, which int() takes and the strict form does *)
(* not); any other text is a word of its own.                              *)
(***************************************************************************)
EXTENDS Integers, TLC

Numeral(n) == [text |-> "canonical", number |-> n]
Loose(n) == [text |-> "loose", number |-> n]
Word(word) == [text |-> word, number |-> 0]

IsInteger(value) == value.text \in {"canonical", "loose"}

\* the value of a key that is not there
Undeclared == Word("undeclared")

Declared(metadata, key) == IF key \in DOMAIN metadata THEN metadata[key] ELSE Undeclared

AnyDepth == 0      \* the caller expects no particular depth

-----------------------------------------------------------------------------
(* What the builder writes.                                                *)

VersionOf(depth) == IF depth = 1 THEN "bbo_v2" ELSE "top5_v1"

ProfileOf(depth) == IF depth = 1 THEN "bbo" ELSE "top5"

Policies ==
    [aggregation_policy |-> Word("valid_positive_distinct_price_sum_qty_v1"),
     bid_depth_ordering |-> Word("price_descending_v1"),
     ask_depth_ordering |-> Word("price_ascending_v1")]

Orderings ==
    [exchange_ordering |-> Word("exch_ts,source_seq"),
     local_ordering |-> Word("corrected_local_ts,source_seq")]

FileMetadata(depth, identity, adjustment) ==
    [schema_version |-> Word(VersionOf(depth)), profile |-> Word(ProfileOf(depth)),
     depth_levels |-> Numeral(depth), local_timestamp_adjustment_ns |-> Numeral(adjustment)]
    @@ Orderings @@ identity
    @@ (IF depth > 1 THEN Policies ELSE <<>>)

SchemaFor(depth, identity, adjustment) ==
    [fields |-> ProfileOf(depth), metadata |-> FileMetadata(depth, identity, adjustment)]

-----------------------------------------------------------------------------
(* What the cache accepts.                                                 *)

\* names, order, types and nullability, all of them
FieldsAre(schema, profile) == schema.fields = profile

BboMetadataOk(metadata) ==
    LET declared(key) == Declared(metadata, key)
    IN  /\ declared("schema_version") = Word("bbo_v2")
        /\ declared("profile") \in {Word("bbo"), Undeclared}
        /\ declared("depth_levels") \in {Numeral(1), Undeclared}
        /\ IsInteger(declared("local_timestamp_adjustment_ns"))

Top5MetadataOk(metadata, expected) ==
    LET declared(key) == Declared(metadata, key)
    IN  /\ declared("schema_version") = Word("top5_v1") /\ declared("profile") = Word("top5")
        /\ declared("depth_levels") \in {Numeral(depth) : depth \in 2..5}
        /\ expected = AnyDepth \/ declared("depth_levels") = Numeral(expected)
        /\ declared("local_timestamp_adjustment_ns").text = "canonical"
        /\ \A key \in DOMAIN Policies : declared(key) = Policies[key]

\* validate_compact_schema with metadata required, as both callers do
SchemaOk(schema, expected) ==
    \/ /\ Declared(schema.metadata, "schema_version") = Word("bbo_v2")
       /\ FieldsAre(schema, "bbo") /\ BboMetadataOk(schema.metadata)
       /\ expected \in {AnyDepth, 1}
    \/ /\ Declared(schema.metadata, "schema_version") = Word("top5_v1")
       /\ FieldsAre(schema, "top5") /\ Top5MetadataOk(schema.metadata, expected)

\* the depth of an accepted schema
DepthIn(metadata) ==
    IF Declared(metadata, "schema_version") = Word("bbo_v2") THEN 1
    ELSE Declared(metadata, "depth_levels").number

\* the profile and the depth must be declared too
IdentityOk(metadata) ==
    /\ Declared(metadata, "profile") = Word(ProfileOf(DepthIn(metadata)))
    /\ Declared(metadata, "depth_levels") = Numeral(DepthIn(metadata))

LabelsOk(schema, expected) == SchemaOk(schema, expected) /\ IdentityOk(schema.metadata)

\* the file is the one asked for
BelongsTo(metadata, identity) ==
    \A key \in {"trade_date", "source", "symbol", "base_latency_ns", "compression"} :
        Declared(metadata, key) = identity[key]

OrderedAsBuilt(metadata) ==
    \A key \in DOMAIN Orderings : Declared(metadata, key) = Orderings[key]

-----------------------------------------------------------------------------
(* What the engine reads: it takes a BBO file without its descriptive      *)
(* metadata, and with no adjustment when none is declared.                 *)

SchemaReads(schema) ==
    LET declared(key) == Declared(schema.metadata, key)
    IN  \/ /\ FieldsAre(schema, "top5")
           /\ LabelsOk(schema, AnyDepth)
        \/ /\ FieldsAre(schema, "bbo")
           /\ declared("schema_version") \in {Word("bbo_v2"), Undeclared}
           /\ \/ IsInteger(declared("local_timestamp_adjustment_ns"))
              \/ declared("local_timestamp_adjustment_ns") = Undeclared

AdjustmentIn(metadata) == Declared(metadata, "local_timestamp_adjustment_ns").number
=============================================================================
