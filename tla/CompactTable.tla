---------------------------- MODULE CompactTable -----------------------------
(***************************************************************************)
(* One symbol's compact table: the batches of raw rows the builder reads,  *)
(* the parts it writes of them, the file it consolidates with its order    *)
(* sidecars and manifest entry, the scan that validates a file batch by    *)
(* batch, and the comparison of a file with its manifest.                  *)
(*                                                                         *)
(* A table row has the columns of the Arrow schema that the checks read;   *)
(* a side is five nullable levels.  A checksum is the content it is of.    *)
(***************************************************************************)
EXTENDS FeedEvents, CompactSchema

CONSTANTS
    Kind,          \* kind of the source: "stock", "etf", "odd_lot" or another
    Deliveries,    \* what a raw row may hold beside its exchange stamp: levels,
                   \* local stamp (0 where there is none), packed status word,
                   \* raw name of the symbol, and what it adds to the volume
    Names,         \* raw names of the symbol, in the order np.unique gives
    Allowed,       \* status_allow: the words that are kept, or {} for all
    Session,       \* [from, to], exchange stamps that are kept
    MaxBatch       \* bound on the rows of a batch

ASSUME TableAssumption ==
    /\ Allowed \subseteq Nat /\ \A row \in Deliveries : row.name \in ToSet(Names)
    /\ Session \in [from : Nat, to : Nat] /\ MaxBatch \in Nat \ {0}

VARIABLE parts     \* the part files of the symbol, in the order written

None == Missing    \* an absent fact

-----------------------------------------------------------------------------
(* Status words: fields of a little-endian bit layout.                     *)

Bits(word, at, width) == (word \div 2^at) % 2^width

\* the fields by the place and the width of their bits
TwseLayout ==
    [disclosure_tag |-> <<0, 1>>, ask_level |-> <<1, 3>>, bid_level |-> <<4, 3>>,
     is_traded |-> <<7, 1>>, price_tag |-> <<8, 2>>, best_ask |-> <<10, 2>>,
     best_bid |-> <<12, 2>>, limit_tag |-> <<14, 2>>, reserve |-> <<16, 2>>,
     close_tag |-> <<18, 1>>, open_tag |-> <<19, 1>>, match_tag |-> <<20, 1>>,
     close_delay_tag |-> <<21, 1>>, open_delay_tag |-> <<22, 1>>,
     trial_status_tag |-> <<23, 1>>]

DecodedTwse(word) ==
    [field \in DOMAIN TwseLayout |-> Bits(word, TwseLayout[field][1], TwseLayout[field][2])]

TrialMask(word) == word % 2^24 >= 2^23

\* only rows of these kinds of sources carry the status word
StatusKinds == {"stock", "etf", "odd_lot"}
Tradable(row) == IF Kind \in StatusKinds /\ TrialMask(row.status) THEN 0 ELSE 1

-----------------------------------------------------------------------------
(* A batch of raw rows and the part made of it.                            *)

Null == [px |-> Missing, qty |-> Missing]

Present(level) == level # Null

Columns(depth) == [l \in 1..5 |-> IF l <= Len(depth) THEN depth[l] ELSE Null]

LocalStamp(row) == IF row.loc = 0 THEN row.exch ELSE row.loc

TableRow(seq, row) ==
    [seq |-> seq, exch |-> row.exch, loc |-> LocalStamp(row),
     bid |-> Columns(TopOf(Aggregated(row.bids, TRUE))),
     ask |-> Columns(TopOf(Aggregated(row.asks, FALSE))),
     volume |-> row.volume, tradable |-> Tradable(row)]

Kept(row) ==
    /\ Allowed = {} \/ row.status \in Allowed
    /\ Session.from <= row.exch /\ row.exch <= Session.to

\* compact_batch over the rows of one raw name; the source sequence counts
\* all rows of the source
Part(batch, offset, name) ==
    LET mine == SelectSeq(Places(batch), LAMBDA i : batch[i].name = name /\ Kept(batch[i]))
    IN  [n \in DOMAIN mine |-> TableRow(offset + mine[n], batch[mine[n]])]

\* one part for each raw name that has rows
PartsOf(batch, offset) ==
    SelectSeq([n \in DOMAIN Names |-> Part(batch, offset, Names[n])], LAMBDA part : part # <<>>)

-----------------------------------------------------------------------------
(* Validation of a file, one batch after the other.                        *)

Bid == "bid"
Ask == "ask"

Populated(level) == level.px # Missing /\ level.qty # Missing /\ level.px > 0 /\ level.qty > 0

SideOk(side, name) ==
    /\ \A l \in 1..5 : l > Levels => side[l] = Null
    /\ \A l \in 1..Levels : Present(side[l]) => Populated(side[l])
    /\ \A l \in 2..Levels : Present(side[l]) =>
          /\ Present(side[l - 1])
          /\ IF name = Bid THEN side[l].px < side[l - 1].px ELSE side[l].px > side[l - 1].px

RowOk(row) == row.tradable \in {0, 1} /\ SideOk(row.bid, Bid) /\ SideOk(row.ask, Ask)

DepthKeys ==
    ({Bid, Ask} \X (1..Levels) \X {"valid_rows", "null_rows"})
    \cup {<<"complete_bid_rows">>, <<"complete_ask_rows">>, <<"complete_book_rows">>, <<"two_sided_rows">>,
          <<"bid_only_rows">>, <<"ask_only_rows">>, <<"empty_book_rows">>}

Complete(side) == \A l \in 1..Levels : Present(side[l])

Counted(row, key) ==
    LET bid == Present(row.bid[1])
        ask == Present(row.ask[1])
    IN  CASE key = <<"complete_bid_rows">> -> Complete(row.bid)
          [] key = <<"complete_ask_rows">> -> Complete(row.ask)
          [] key = <<"complete_book_rows">> -> Complete(row.bid) /\ Complete(row.ask)
          [] key = <<"two_sided_rows">> -> bid /\ ask
          [] key = <<"bid_only_rows">> -> bid /\ ~ ask
          [] key = <<"ask_only_rows">> -> ~ bid /\ ask
          [] key = <<"empty_book_rows">> -> ~ bid /\ ~ ask
          [] OTHER -> Present(row[key[1]][key[2]]) <=> key[3] = "valid_rows"

CountRows(batch, Holds(_)) == Cardinality({i \in DOMAIN batch : Holds(batch[i])})

EmptyDepth == [key \in DepthKeys |-> 0]

DepthPlus(depth, more) == [key \in DepthKeys |-> depth[key] + more[key]]

DepthOf(batch) == [key \in DepthKeys |-> CountRows(batch, LAMBDA row : Counted(row, key))]

Prices(batch) ==
    {batch[i][side][l].px : i \in DOMAIN batch, side \in {Bid, Ask}, l \in 1..Levels} \ {Missing}

Lower(a, set) == IF set = {} THEN a ELSE IF a = None THEN Min(set) ELSE Min(set \cup {a})
Upper(a, set) == IF set = {} THEN a ELSE IF a = None THEN Max(set) ELSE Max(set \cup {a})

\* nothing scanned yet
Unscanned ==
    [ok |-> TRUE, seq |-> None, volume |-> None, rows |-> 0, first |-> None, last |-> None,
     low |-> None, high |-> None, minLatency |-> None, maxLatency |-> None,
     nonTradable |-> 0, trades |-> 0, depth |-> EmptyDepth]

\* mutant of TradesBefore: a trade between two batches is not seen
TradesBeforeNever(scan, batch) == 0

\* the trade of the first row of a batch, against the last row of the one before
TradesBefore(scan, batch) ==
    IF scan.volume # None /\ batch[1].volume > scan.volume /\ batch[1].tradable # 0 THEN 1 ELSE 0

TradesWithin(batch) ==
    Cardinality({i \in 2..Len(batch) :
                    batch[i].volume > batch[i - 1].volume /\ batch[i].tradable # 0})

\* latencies may be negative: here None is one of them, and "rows" tells
Furthest(scan, field, pick(_), set) == IF scan.rows = 0 THEN pick(set)
                                       ELSE pick(set \cup {scan[field]})

Scanned(scan, batch) ==
    LET exch == {batch[i].exch : i \in DOMAIN batch}
        latency == {batch[i].loc - batch[i].exch : i \in DOMAIN batch}
        ordered == /\ scan.seq = None \/ batch[1].seq > scan.seq
                   /\ \A i \in 2..Len(batch) : batch[i].seq > batch[i - 1].seq
    IN  IF batch = <<>> THEN scan
        ELSE [ok |-> scan.ok /\ ordered /\ \A i \in DOMAIN batch : RowOk(batch[i]),
              seq |-> Last(batch).seq, volume |-> Last(batch).volume,
              rows |-> scan.rows + Len(batch),
              first |-> Lower(scan.first, exch), last |-> Upper(scan.last, exch),
              low |-> Lower(scan.low, Prices(batch)), high |-> Upper(scan.high, Prices(batch)),
              minLatency |-> Furthest(scan, "minLatency", Min, latency),
              maxLatency |-> Furthest(scan, "maxLatency", Max, latency),
              nonTradable |-> scan.nonTradable + CountRows(batch, LAMBDA row : row.tradable = 0),
              trades |-> scan.trades + TradesBefore(scan, batch) + TradesWithin(batch),
              depth |-> DepthPlus(scan.depth, DepthOf(batch))]

Scan(batches) == FoldLeft(Scanned, Unscanned, batches)

-----------------------------------------------------------------------------
(* The file with its sidecars, and its entry in the source manifest.       *)

Rows(batches) == FlattenSeq(batches)

Ordering(table, base) ==
    LET shift == IF table = <<>> THEN 0
                 ELSE LET lowest == Min({table[i].loc - table[i].exch : i \in DOMAIN table})
                      IN  IF lowest < 0 THEN base - lowest ELSE 0
        exch == [i \in DOMAIN table |-> table[i].exch]
        loc == [i \in DOMAIN table |-> table[i].loc + shift]
        Ordered(stamps) == IF InOrder(stamps) THEN {}
                           ELSE {Sorted(table, LAMBDA i : stamps[i])}
    IN  [adjustment |-> shift, exchangeOrdered |-> InOrder(exch), localOrdered |-> InOrder(loc),
         dual |-> ~ (InOrder(exch) /\ InOrder(loc)),
         sidecars |-> [exchange |-> Ordered(exch), local |-> Ordered(loc)]]

Identity(symbol, base, nonTradable) ==
    [trade_date |-> Word("day"), source |-> Word("source"), symbol |-> Word(symbol),
     base_latency_ns |-> Numeral(base), compression |-> Word("lz4"),
     non_tradable_rows |-> Numeral(nonTradable)]

\* mutant of FileOf: the base latency is left out of the adjustment
FileWithoutBase(symbol, written) ==
    LET table == Rows(written)
        identity == Identity(symbol, BaseLatency, CountRows(table, LAMBDA row : row.tradable = 0))
    IN  [batches |-> written, schema |-> SchemaFor(Levels, identity, Ordering(table, 0).adjustment),
         sidecars |-> Ordering(table, BaseLatency).sidecars]

\* consolidate_symbol, and write_empty_symbol when nothing was written
FileOf(symbol, written) ==
    LET table == Rows(written)
        identity == Identity(symbol, BaseLatency, CountRows(table, LAMBDA row : row.tradable = 0))
        found == Ordering(table, BaseLatency)
    IN  [batches |-> written, schema |-> SchemaFor(Levels, identity, found.adjustment),
         sidecars |-> found.sidecars]

Content(file) == <<file.schema, file.batches>>

BaseIn(file) == Declared(file.schema.metadata, "base_latency_ns").number

\* what the manifest repeats of the scan
Facts(scan, metadata) ==
    [rows |-> scan.rows, first |-> scan.first, last |-> scan.last,
     low |-> scan.low, high |-> scan.high,
     minLatency |-> scan.minLatency, maxLatency |-> scan.maxLatency,
     adjustment |-> AdjustmentIn(metadata), nonTradable |-> scan.nonTradable,
     depth |-> scan.depth, levels |-> DepthIn(metadata)]

EntryOf(file) ==
    LET found == Ordering(Rows(file.batches), BaseIn(file))
    IN  [status |-> "valid", sum |-> Content(file), empty |-> file.batches = <<>>,
         facts |-> Facts(Scan(file.batches), file.schema.metadata), exchangeOrdered |-> found.exchangeOrdered,
         localOrdered |-> found.localOrdered, dual |-> found.dual,
         sidecars |-> file.sidecars]

\* _validate_symbol: the manifest entry of the symbol against its file
SymbolOk(symbol, entry, file) ==
    LET found == Ordering(Rows(file.batches), BaseIn(file))
        scan == Scan(file.batches)
        metadata == file.schema.metadata
    IN  /\ entry.sum = Content(file)
        /\ BelongsTo(metadata, Identity(symbol, BaseLatency, 0)) /\ OrderedAsBuilt(metadata)
        /\ LabelsOk(file.schema, Levels) /\ scan.ok
        /\ entry.empty <=> scan.rows = 0
        /\ entry.facts = Facts(scan, metadata)
        /\ entry.facts.adjustment = found.adjustment
        /\ entry.exchangeOrdered = found.exchangeOrdered
        /\ entry.localOrdered = found.localOrdered
        /\ entry.dual = found.dual
        /\ entry.sidecars = found.sidecars /\ file.sidecars = found.sidecars

-----------------------------------------------------------------------------
(* The rows the engine reads of a file: level 1 of every row, in file order. *)

Reads(file) ==
    /\ SchemaReads(file.schema)
    /\ file.schema.fields = "top5" => Scan(file.batches).ok
    /\ \A i \in DOMAIN Rows(file.batches) : Rows(file.batches)[i].tradable \in {0, 1}

LoadedRow(row) ==
    [seq |-> row.seq, exch |-> row.exch, loc |-> row.loc, bid |-> row.bid[1], ask |-> row.ask[1],
     volume |-> row.volume, tradable |-> row.tradable]

ReadRows(file) ==
    LET table == Rows(file.batches)
    IN  [rows |-> [i \in DOMAIN table |-> LoadedRow(table[i])],
         adjustment |-> AdjustmentIn(file.schema.metadata)]

-----------------------------------------------------------------------------
(* The source manifest over the entries of its symbols.                    *)

Totals(entries) ==
    LET valid == {s \in DOMAIN entries : entries[s].status = "valid"}
        Sum(Value(_)) == MapThenSumSet(LAMBDA s : Value(entries[s]), valid)
    IN  [requested |-> Cardinality(DOMAIN entries), validCount |-> Cardinality(valid),
         read |-> Cardinality(valid),
         emptySymbols |-> {s \in valid : entries[s].empty},
         missingSymbols |-> {s \in DOMAIN entries : entries[s].status = "missing"},
         rows |-> Sum(LAMBDA e : e.facts.rows),
         nonTradable |-> Sum(LAMBDA e : e.facts.nonTradable),
         depth |-> [key \in DepthKeys |-> Sum(LAMBDA e : e.facts.depth[key])]]

\* _validate_sources: every symbol, then the totals
SourceOk(manifest, files) ==
    /\ \A s \in DOMAIN manifest.entries :
          LET entry == manifest.entries[s]
          IN  entry.status # "missing" => entry.status = "valid" /\ SymbolOk(s, entry, files[s])
    /\ manifest.totals = Totals(manifest.entries)

-----------------------------------------------------------------------------
(* build_source: one batch after the other; the files as they would be     *)
(* consolidated now.                                                       *)

TableInit == Init /\ parts = <<>>

ReadBatch ==
    /\ \E n \in 1..MaxBatch :
          /\ Len(rows) + n <= MaxRows
          /\ \E batch \in [1..n -> Deliveries], exch \in [1..n -> Stamps] :
                LET Volume(i) == (IF rows = <<>> THEN 0 ELSE Last(rows).volume)
                                 + MapThenSumSet(LAMBDA j : batch[j].traded, 1..i)
                    raw == [i \in 1..n |->
                              [bids |-> batch[i].bids, asks |-> batch[i].asks,
                               exch |-> exch[i], loc |-> batch[i].loc,
                               status |-> batch[i].status, name |-> batch[i].name,
                               volume |-> Volume(i)]]
                IN  /\ rows' = rows \o raw
                    /\ parts' = parts \o PartsOf(raw, Len(rows))

TableSpec == TableInit /\ [][ReadBatch]_<<rows, parts>>

File == FileOf("quoted", parts)

Files == [quoted |-> File, silent |-> FileOf("silent", <<>>)]

Manifest ==
    LET entries == [s \in DOMAIN Files |-> EntryOf(Files[s])]
    IN  [entries |-> entries, totals |-> Totals(entries)]

-----------------------------------------------------------------------------
(* Properties.                                                             *)

Table == Rows(parts)

\* the same rows as a file of other record batches
Splits(table) ==
    {[b \in DOMAIN cuts |-> SubSeq(table, IF b = 1 THEN 1 ELSE cuts[b - 1] + 1, cuts[b])] :
        cuts \in {SetToSortSeq(ends \cup {Len(table)}, <) : ends \in SUBSET (1..Len(table))}}

\* what a well-formed table is, whatever its batches
WellFormedSide(side, bid) ==
    \E depth \in 0..Levels :
        /\ \A l \in 1..5 : IF l > depth THEN side[l] = Null ELSE Populated(side[l])
        /\ \A l, m \in 1..depth :
              l < m => IF bid THEN side[l].px > side[m].px ELSE side[l].px < side[m].px

WellFormed(table) ==
    /\ \A i, j \in DOMAIN table : i < j => table[i].seq < table[j].seq
    /\ \A i \in DOMAIN table :
          /\ table[i].tradable \in {0, 1}
          /\ WellFormedSide(table[i].bid, TRUE) /\ WellFormedSide(table[i].ask, FALSE)

IsLowest(a, set) == IF set = {} THEN a = None ELSE a \in set /\ \A b \in set : a <= b
IsHighest(a, set) == IF set = {} THEN a = None ELSE a \in set /\ \A b \in set : a >= b

FactsFit(scan, table) ==
    LET At(Of(_)) == {Of(table[i]) : i \in DOMAIN table}
    IN  /\ scan.rows = Len(table)
        /\ IsLowest(scan.first, At(LAMBDA row : row.exch))
        /\ IsHighest(scan.last, At(LAMBDA row : row.exch))
        /\ IsLowest(scan.minLatency, At(LAMBDA row : row.loc - row.exch))
        /\ IsHighest(scan.maxLatency, At(LAMBDA row : row.loc - row.exch))
        /\ IsLowest(scan.low, Prices(table)) /\ IsHighest(scan.high, Prices(table))
        /\ scan.nonTradable + CountRows(table, LAMBDA row : row.tradable # 0) = Len(table)
        /\ scan.trades = Cardinality({i \in DOMAIN table : \E j \in DOMAIN table :
               j = i - 1 /\ table[i].volume > table[j].volume /\ table[i].tradable # 0})
        /\ \A side \in {Bid, Ask}, l \in 1..Levels :
              scan.depth[<<side, l, "valid_rows">>]
              + scan.depth[<<side, l, "null_rows">>] = Len(table)
        /\ scan.depth[<<"two_sided_rows">>] + scan.depth[<<"bid_only_rows">>]
              = scan.depth[<<Bid, 1, "valid_rows">>]
        /\ scan.depth[<<"two_sided_rows">>] + scan.depth[<<"ask_only_rows">>]
              + scan.depth[<<"bid_only_rows">>] + scan.depth[<<"empty_book_rows">>] = Len(table)

\* a table with one value of one row changed
Damaged(table) ==
    UNION {LET row == table[i]
           IN  {[table EXCEPT ![i] = changed] : changed \in
                  {[row EXCEPT !.tradable = 2], [row EXCEPT !.seq = table[1].seq],
                   [row EXCEPT !.bid = Columns(<<>>)]}
                  \cup {[row EXCEPT ![side][l] = level] :
                          side \in {Bid, Ask}, l \in 1..2,
                          level \in {Null, row.bid[1], [row.ask[2] EXCEPT !.qty = Missing],
                                     [px |-> 9, qty |-> 0]}}
                  \cup {[row EXCEPT !.ask[5] = row.ask[1]]}} : i \in DOMAIN table}

(***************************************************************************)
(* The scan keeps what it knows of earlier batches in a few running        *)
(* values.  Of a table as built, or with one value damaged, it accepts     *)
(* just the well-formed ones, and of those its facts are those of the      *)
(* whole table, however the rows are cut into record batches; the trial    *)
(* bit it counts rows by is the tag the status decoder shows.              *)
(***************************************************************************)
ScanIsExact ==
    /\ \A batches \in Splits(Table) : FactsFit(Scan(batches), Table)
    /\ \A table \in {Table} \cup Damaged(Table) :
          \A batches \in Splits(table) : Scan(batches).ok <=> WellFormed(table)
    /\ \A i \in DOMAIN rows :
          TrialMask(rows[i].status) <=> DecodedTwse(rows[i].status).trial_status_tag = 1

\* rows a batch names in two ways, not in source order
Interleaved == \E i, j \in DOMAIN Table : i < j /\ Table[i].seq > Table[j].seq

ListsInOrder(order, Clock(_)) ==
    /\ ToSet(order) = DOMAIN Table
    /\ \A n \in 2..Len(order) :
          LET a == Table[order[n - 1]]
              b == Table[order[n]]
          IN  Clock(a) < Clock(b) \/ (Clock(a) = Clock(b) /\ a.seq < b.seq)

\* one value of the source manifest changed, the entry of the symbol included
Tampered(manifest) ==
    LET entry == manifest.entries.quoted
        Entry(e) == [manifest EXCEPT !.entries.quoted = e]
    IN  {Entry([entry EXCEPT !.facts[key] = @ + 1]) :
             key \in DOMAIN entry.facts \ {"depth", "levels"}}
        \cup {Entry([entry EXCEPT !.facts.depth[key] = @ + 1]) : key \in DepthKeys}
        \cup {Entry([entry EXCEPT ![key] = ~ @]) :
                 key \in {"empty", "exchangeOrdered", "localOrdered", "dual"}}
        \cup {Entry([entry EXCEPT !.status = status]) : status \in {"missing", "unknown"}}
        \cup {Entry([entry EXCEPT !.sidecars[clock] = IF @ = {} THEN {Places(Table)} ELSE {}]) :
                 clock \in DOMAIN entry.sidecars}
        \cup {[manifest EXCEPT !.totals[key] = @ + 1] :
                 key \in {"requested", "validCount", "read", "rows", "nonTradable"}}
        \cup {[manifest EXCEPT !.totals.emptySymbols = {}],
              [manifest EXCEPT !.totals.missingSymbols = {"silent"}]}

\* one metadata value of a file changed or dropped
Relabelled(file) ==
    LET metadata == file.schema.metadata
        With(new) == [file EXCEPT !.schema.metadata = new]
    IN  {With([key \in DOMAIN metadata \ {gone} |-> metadata[key]]) : gone \in DOMAIN metadata}
        \cup {With([metadata EXCEPT ![key] = value]) : key \in DOMAIN metadata,
                 value \in {Word("other"), Loose(1), Numeral(3)}}
        \cup {[file EXCEPT !.schema.fields = fields] : fields \in {"bbo", "other"}}

\* the entry as a manifest written from the relabelled file would have it
Resealed(entry, file) ==
    [entry EXCEPT !.sum = Content(file), !.facts.adjustment = AdjustmentIn(file.schema.metadata)]

\* the count of trial-match rows in the metadata is read by no one
SameLabels(file, other) ==
    \A key \in (DOMAIN file.schema.metadata \cup DOMAIN other.schema.metadata)
                \ {"non_tradable_rows"} :
        Declared(file.schema.metadata, key) = Declared(other.schema.metadata, key)

\* level 1 as loaded is the best of the valid levels the source delivered
ShowsBest(level, delivered, bid) ==
    LET valid == {l \in DOMAIN delivered : delivered[l].px > 0 /\ Size(delivered[l]) > 0}
        best == IF bid THEN Max({delivered[l].px : l \in valid})
                ELSE Min({delivered[l].px : l \in valid})
    IN  IF valid = {} THEN level = Null
        ELSE level = [px |-> best,
                      qty |-> MapThenSumSet(LAMBDA l : Size(delivered[l]),
                                            {l \in valid : delivered[l].px = best})]

\* the rows the builder kept of the source and no others
EngineSeesSource(loaded, entry) ==
    /\ loaded.adjustment = entry.facts.adjustment
    /\ {loaded.rows[n].seq : n \in DOMAIN loaded.rows} = {i \in DOMAIN rows : Kept(rows[i])}
    /\ \A n \in DOMAIN loaded.rows :
          LET source == rows[loaded.rows[n].seq]
          IN  /\ ShowsBest(loaded.rows[n].bid, source.bids, TRUE)
              /\ ShowsBest(loaded.rows[n].ask, source.asks, FALSE)

(***************************************************************************)
(* A build refuses its own table exactly when one batch names the symbol   *)
(* in two ways whose rows are interleaved.  Any other table it writes is    *)
(* accepted by later validations, and under no other manifest or metadata:  *)
(* a change of any one value of a symbol's entry, of the totals or of the   *)
(* file's metadata is refused, even where the manifest was made of the     *)
(* changed file, except of the corrected latencies, which no manifest      *)
(* holds, and of the count of trial-match rows in the metadata.  The        *)
(* engine reads such a file: the rows kept of the source, each with the    *)
(* best valid level of either side and the quantity delivered at its price, *)
(* and the adjustment of the manifest.  The sidecars list every row once    *)
(* in the order of their clock, rows of one stamp in source order.         *)
(***************************************************************************)
BuiltIsAccepted ==
    LET manifest == Manifest
        files == Files
        file == files.quoted
        entry == manifest.entries.quoted
    IN  /\ Scan(parts).ok <=> ~ Interleaved
        /\ ~ Interleaved =>
              /\ SourceOk(manifest, files) /\ Reads(file)
              /\ EngineSeesSource(ReadRows(file), entry)
              /\ \A other \in Relabelled(file) :
                    LabelsOk(other.schema, Levels) => SchemaReads(other.schema)
              /\ \A order \in file.sidecars.exchange : ListsInOrder(order, LAMBDA row : row.exch)
              /\ \A order \in file.sidecars.local : ListsInOrder(order, LAMBDA row : row.loc)
              /\ \A i \in DOMAIN Table : Table[i].loc + entry.facts.adjustment >= Table[i].exch
              /\ file.sidecars.exchange = {} =>
                    \A i, j \in DOMAIN Table : i < j => Table[i].exch <= Table[j].exch
              /\ \A other \in Tampered(manifest) \ {manifest} : ~ SourceOk(other, files)
              /\ \A other \in Relabelled(file) :
                    SymbolOk("quoted", Resealed(entry, other), other)
                        <=> other.schema.fields = file.schema.fields /\ SameLabels(other, file)

=============================================================================
