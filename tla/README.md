# A verification of UDDSketch in TLA+

UDDSketch (`src/`) estimates quantiles of a stream of numbers: it counts the
numbers per *bucket* (all numbers within a relative distance alpha of the
bucket's value share one), gives up resolution when there are more buckets than
allowed, and answers "which value is at rank r" from the counts. This directory
models the sketches and their bucket stores in TLA+, checks small instances
with TLC and proves the central facts with TLAPS for instances of every size.

## 1. The system

All of it is C, single-threaded, in memory: there are no threads, no messages,
nothing is persisted and nothing restarts. What is hard is *history*: a sketch
is right only if a long sequence of insertions, removals and collapses keeps
several pieces of state in agreement.

| component | state | operations | models |
|---|---|---|---|
| bucket id mapping (`dds_bucket_id_mapping.c`) | type, alpha, gamma, log_gamma | value to bucket id, bucket id to value, update of gamma | `BucketIdMapping`, `MappingCollapse` |
| bucket store (`dds_mapstore.c`, dispatched by `dds_store.c`) | ordered dictionary of counts, total, bound, collapsed flag, number of collapses | insert, remove, resize, collapse, ends, neighbours, count | `Mapstore`, `StoreContents` |
| sketch of non-negative items (`dds_psketch.c`, dispatched by `dds_sketch.c`) | one store, mapping, zero bucket | update (insert or remove), quantile | `PSketch` |
| sketch of items of both signs (`dds_gsketch.c`) | two resizable stores, one mapping, zero bucket, one bound | update, quantile | `GSketch` |
| test driver (`uddsketch-test/main.c`) | options, the items read, exact order statistics | read a file, feed, compare 101 quantiles | `Driver` |
| dictionary interface (`dict/dict.c`, `dict.h`) | an object and the table of its kind's functions | dispatch | `Dict`, `ListsAndTables`; their contracts `OrderedMap` and `Cursor` |
| search trees (`dict/tree_common.c`, `*_tree.c`) | nodes with pointers and, by kind, a weight, balance, colour or priority. A new store uses the weight-balanced tree, a uniform collapse the height-balanced one | insert, remove, search, select, clear, iterate | `TreeCommon`, `SearchTree`, `WbTree`, `HbTree`, `RbTree`, `PrTree`, `TrTree`, `SpTree` |
| skip list (`dict/skiplist.c`) | nodes on several levels | insert, remove, search, clear, iterate | `SkipList` |
| hash tables (`dict/hashtable*.c`) | chains sorted by hash, or open slots | insert, remove, resize, search, clear, iterate | `HashCommon`, `Hashtable`, `Hashtable2` |
| `libdict/` copy | | | not modelled |

How they interact: the driver calls `dds_sketch_update` and
`dds_sketch_get_quantile`; these dispatch through function pointers to one of
the two sketches. The sketch turns the item into a bucket id by the mapping and
calls its store, which holds a *pointer to the sketch's mapping*: the uniform
collapse in `base_insert_impl` (sketch of non-negative items) squares gamma from inside
the store, while for the sketch of both signs `base_update_impl` halves both stores and
squares the shared gamma once. Queries scan the store with a chain of
next/previous/count calls, each of which searches the dictionary afresh.

What is hard, and what makes each part correct:

- *Mapping.* Ids of both signs and both parities are halved with
  `ceil` or `floor`; the result must be the id under gamma squared. The value
  reported for a bucket must be within alpha of everything in it.
- *Store.* A store collapsed at one end sends items beyond that end to the
  end bucket. That depends on a flag that removals reset, on an end that moves
  with further collapses, and on the store not being empty, which
  `base_insert_impl` does not check. Counts and total must move together on
  every early return.
- *Sketches.* The loops that make room must end, and end within the bound; the
  two stores of the second sketch share it, and one is shrunk only when the
  other is down to a bucket. The items in the buckets must be the items
  inserted and not removed.
- *Queries.* Ranks are counted through the zero bucket, through reversed
  magnitudes of negative items, upwards or downwards by the smaller half. An
  answer is flagged inaccurate exactly for the bucket that holds merged items.
- *Trees.* Every rotation must leave parents and children agreeing and the
  weight or balance of two or three nodes right, in the middle of a walk to the root
  that still has other nodes to correct. A removed node with two children trades its
  contents with a neighbour, which is freed in its place.
- *Splay tree.* Searches move nodes, so reading changes what iterators follow.
- *Skip list.* A search goes down through levels whose nodes were drawn at random; only level 0
  has pointers back.
- *Hash tables.* Growing, shrinking, failing to grow and filling the hole of a
  removed entry move entries that other keys are found through.
- *Driver.* Its exact rank counts the numbers of the file, the sketch's those the sketch took.
  With the finer initial alpha of `-s 4` the sketch must collapse just often enough.
- *Callers.* Removing what is not there and asking an empty sketch are calls
  the interface allows.

`PROJECT.json` lists the hazards with their lines; each names the properties below that
would catch it going wrong.

## 2. The modules

| module | what it is |
|---|---|
| `BucketIdMapping` | ids, halving and squaring, as operators on integers |
| `MappingCollapse` | one item followed through any number of uniform collapses |
| `SketchItems` | the vocabulary of the specification: items, multisets, ranks |
| `Mapstore` | the store as a record, each C function (or pass of its loop) an operator on it |
| `StoreContents` | which bucket an item is in, and when a store holds exactly a multiset |
| `QuantileSummary` | the abstract specification: a multiset, a resolution, answers that fit |
| `PSketch`, `GSketch` | the two sketches: one action per call, one per pass of a loop |
| `OrderedMap` | what a dictionary promises the store: a map whose keys come and go one at a time |
| `Cursor` | what an iterator promises: where each of its calls takes it in the sequence of the keys |
| `TreeCommon` | the shared tree code: nodes with pointers, rotations, searches, walks, iterators, as operators on a heap |
| `SearchTree` | the state and calls that all trees have in common, and what their callers rely on |
| `WbTree`, `HbTree`, `RbTree`, `PrTree`, `TrTree`, `SpTree` | the weight-balanced, height-balanced, red-black and path-reduction tree, the treap and the splay tree: one action per call and one per pass of its loop |
| `Dict` | a dictionary of any of these kinds, behind one table of functions |
| `SkipList`, `HashCommon`, `Hashtable`, `Hashtable2` | the skip list, the table of chains, the table of open slots: one action per call |
| `ListsAndTables` | a dictionary of any of these |
| `Driver` | main.c with the sketch of its choice |
| `MC...` | instances for TLC |
| `..._proofs` | theorems |

`PSketch` and `GSketch` EXTEND `StoreContents` (which EXTENDS `SketchItems` and
`Mapstore`), and each INSTANCEs `QuantileSummary` with its own state in place
of the abstract one: `ImplementsSummary` is that refinement. `Driver` INSTANCEs both
sketches, on the variables they have in common, and takes its steps from their actions.

The trees EXTEND `SearchTree` (which EXTENDS `TreeCommon` and `Cursor`) and share its
variables; `Dict` INSTANCEs the six, and its variable `kind`, which never changes, says
whose actions may happen. `ListsAndTables` does the same for the skip list and the tables.
Both INSTANCE `OrderedMap` with the map their nodes hold (`ImplementsMap`); where a call is one
step the map may be cleared in one step too (`ClearableSpec`). `Mapstore` is not
composed with a tree: it uses a dictionary only by the operations that `SearchesRight`,
`PositionsRight` and `ImplementsMap` speak of.

### How state and actions correspond to the code

- **Numbers.** The code looks at a positive number through `log(v)` only, and at
  the accuracy through `log_gamma`. Both are integers in a common unit: item
  `v` stands for exp(v units), and squaring gamma doubles `log_gamma`.
  Dividing is then exact. An item is a pair of a sign and a logarithm; sign 0
  is everything below the least addressable magnitude.
- **The dictionary** is a function from ids to positive counts; `MinBid`, `NextBid`
  and so on are what the iterator calls return, including the odd cases (the next
  of the last id is the id itself, the count of an absent one is -1).
- **Tree nodes** live in a heap, a function from addresses to records with the
  fields of `TREE_NODE_FIELDS`; a pointer is an address or `NULL`. Keys are integers
  (the ids that the comparison function compares). The word of a height-balanced node that
  holds parent and balance is two fields, `parent` and `bal`; `Parent` is what `PARENT` yields
  and `RawParent` what code that does not mask the bits reads, `Wild` if any is set.
  The caller of an insertion sets the datum through the pointer it got: that write is
  part of the step that returns. A failing `malloc` is `InsertKeeps`. The removal by an
  iterator does what the removal by key does after its search.
- **Calls on dictionaries.** In the trees a call is a step that searches and
  attaches, exchanges or splices, and then one step per pass of its loop: an
  ancestor retraced, a node recoloured, a rotation, a splaying step; the recursion of
  `fixup` in the path-reduction tree is a stack `todo` of nodes. In the skip list and the tables
  a call is one step, since nothing in it can be interrupted and its loops end by running
  along a list. Random choices (priorities, numbers of links) are any value; a failing
  `malloc` of a larger table is a step that keeps the smaller one.
- **Iterators** hold nothing but a position, so the calls on them are operators, and properties
  say where each takes an iterator from wherever it may stand. The hash table's also keeps
  its slot.
- **The driver.** The sketch's loops run in their own steps (`SketchRuns`) between the steps of main
  (`Fill`, `Sort`, `Ask`, `Compare`), which wait for them as a call does. The grid of logarithms is fine
  enough for the alpha of `-s 4`, 2^10 times finer: squaring gamma is exact there.
- **Calls.** `base_update_impl` is split by its branches: `UpdateIgnored`,
  `InsertZero`, `RemoveZero`, `InsertStored`, `RemoveStored`. The loop
  `while (size > max) collapse` of `base_insert_impl` runs from `pc = "make_room"`:
  `MakeRoom` is one pass, with the update of gamma, and `InsertReturns` is its end,
  where the total grows (in `GSketch`: `ShrinkFirst`, `FirstShrunk`,
  `ShrinkSecond`, `SecondShrunk`, `CollapseAll`). `base_get_quantile_impl` is
  `AskZero`, `AskStore` and the passes `ScanNext`, `ScanReturns`
  (`ScanUp`, `ScanDown` in `rank_to_bid`). A call that is running excludes
  the next one, as in the program.
- **NULL pointers.** Where the code would follow the NULL key of an invalid
  iterator the model goes to `pc = "crashed"`. The read in `base_insert_impl`
  has no such branch because it never happens: `CollapsedConsistent` says so,
  and is proved.
- **History.** `live` is the multiset of items inserted and not removed, `removed` says whether any
  ever was, `answer` is the last answer; none is read by the program's actions, except where
  `RemoveOnlyLive` restricts callers.
- **Quantiles** enter as the ranks floor(q (n - 1)) that they give; for an empty
  sketch these are 0 (for q = 0) and -1.
- Operators named `X_Something` beside an operator `X` are deliberate bugs that the
  properties were tried against; no specification uses them.

## 3. What TLC checks

Properties (each is commented in its module):

| property | in words |
|---|---|
| `TypeOK` | types; no bucket has count 0; a call in its loop has a pending count |
| `NoCrash` | no NULL pointer is followed |
| `CollapsedConsistent` | flag and number of collapses agree; a store collapsed at an end is not empty |
| `SizeBound` | an update leaves at most as many buckets as allowed |
| `BucketsExact` | every bucket holds exactly the live items that belong there, between the passes of loops too |
| `TotalIsLive`, `TotalIsSum` | the total is the number of live items; it never drifts from the buckets whatever callers do |
| `GammaTracksCollapses` | the number of collapses reported is the number of squarings of gamma, or less after removals |
| `KeptEndLast` | without removals, what is merged is one run at the end given up |
| `CollapseShrinks` | every pass of a collapsing loop leaves fewer buckets or a shorter range |
| `CallReturns` | every call returns |
| `ImplementsSummary` | the sketch implements `QuantileSummary`: an answer flagged accurate is the bucket of the item at that rank, and one that is not errs to one side only |
| `CollapseAgrees`, `ValueWithinAlpha` | halving ids agrees with squaring gamma; values are within alpha |
| `BidFits` | the id of every addressable number is an `int`, at every resolution, although the range is that of the first |
| `QuantilesAgree` | sketch and exact percentiles name the same item; a file that fits the bound at the alpha of the options keeps that alpha |
| `ProgramEnds` | the program ends, with all its percentiles |
| `WalksInOrder` | links agree and nothing is lost or leaked, in the middle of calls too; walks in both directions visit every key in order |
| `RulesKept` | what `dict_verify` checks of each kind, and what it does not: as many black nodes on all ways, no way more than twice as long as another, the heap of a treap in the middle of a call |
| `WeightsExact` | weights lag only on the path still to be climbed |
| `AssertionsHold` | the assertions of the code, and the nodes it reads without looking, at every step |
| `SearchesRight` | the five searches, for present and absent keys |
| `PositionsRight`, `IteratorsRight` | the n-th key; every call on an iterator, from every position; the order of iterators |
| `PointersStay` | what pointers of callers may rely on: only a removal may move a key to another node, and only one |
| `LoopsAdvance` | every pass of a loop lowers a measure that its module names, so that every call returns |
| `ImplementsMap` | each kind implements `OrderedMap` |
| `Sound` | skip list: the levels nest; tables: chains sorted and in their slots, every key reachable by probing, none twice |
| `NodesAreLinked`, `TraverseVisitsAll` | see the findings |

Runs:

| run | callers, policies and bounds | shows |
|---|---|---|
| `mapping_collapse` | logarithms -40..40 (LOG_LOWER: 0..40), gammas 1, 2, 3, 5, 7 doubled up to 100; `int` up to 12, doubles up to exp(30 units), so that either may end the range | the three properties of the mapping |
| `psketch_calls` | six stored items, zeros and items to ignore; up to 4 live; multiplicity 1 or 2; all four policies, bounds 1 to 3; well-behaved callers | all safety properties, the refinement |
| `psketch_any_caller` | up to 3 live; callers remove anything and ask anything | totals, collapsed state, every call returns or crashes |
| `gsketch` | four positive and three negative items, zero, one to ignore; bounds 2 and 3 with up to 4 live for policies that merge at an end, bound 4 with up to 5 live for the uniform collapse | all safety properties, the refinement, `CollapseShrinks` |
| `driver` | all files of 1 to 3 of eight numbers and all orders of five; every `-s`, with `-n` and without; 13 percentiles | `QuantilesAgree`, `ProgramEnds` |
| `dict` | any sequence of calls on each kind of tree with 5 to 7 keys; beyond them, with at most one hole, up to 13 in the height-balanced, 11 in the weight-balanced and red-black, 10 in the path-reduction tree; three priorities | everything said of the trees |
| `lists_and_tables` | six keys; a list of four links; tables of 2, 3, 5 or 7 slots under six hash functions, with collisions and hashes of 0 | everything said of these kinds |

Why these bounds are enough to be interesting: with a bound of 1 to 3 buckets and 4
or 5 live items every policy collapses several times in a row, the end bucket is
drained and filled again, a later item falls beyond, inside and at the end, ids
of both signs and parities are halved, two items share a bucket and others have
gaps between them. In the second sketch each store in turn is the large one. Multiplicity 2
gives removals that find too small a count, and counts that span several
ranks. Bounds: `MaxLive` (how many items are live), `MaxGamma`
(how often the mapping is squared); ids and everything else are bounded by
these. The driver's percentiles are twelfths (`Hundred` = 12): with files of up to
five numbers they fall on and between all ranks. Its `-s 4` starts at a gamma
2^10 times smaller in logarithm, and collapses 10 times and more.
The tables are small enough for six keys to fill them, to make them grow, and to shrink again.

For the trees a bound on the number of nodes alone would mean all subsets of the keys. The
constraint `FewHoles` lets the keys up to `Free[kind]` come and go freely; a larger tree
has the keys 1 to some number but for one, and since any of them may be removed and put
back, the hole moves through the tree and reshapes it. In this way the run reaches every shape
of height-balanced tree of up to 12 nodes, the least number for a removal to rotate on two levels,
and every weight-balanced one of up to 11 (both counted against the number of shapes there are). The
configurations also give TLC a `VIEW` that names nodes by their keys instead of their
addresses: no guard or property looks at an address except to compare it, and which free
address `malloc` picks makes no difference, so states that differ by a renaming of addresses
have the same futures.

**Fairness.** `FairSpec` of the sketches adds `WF_vars(Loop)`: once a call is inside a loop, the
processor keeps executing it, and nothing else runs in a single-threaded program. Calls
themselves are not fair: nobody need call. The driver is a whole program, so that its `FairSpec` has
`WF_vars(Next)`. Deadlock is checked except in `psketch_any_caller` and `driver_empty_file`, where the
program may crash, in `driver`, which ends, and in `mapping_collapse`, which stops at its
bound. `CallReturns` holds for the first sketch with a bound of 1 bucket or more when a store
merges at one end and of 2 or more under the uniform collapse (`psketch_any_caller`). For the
second sketch `CollapseShrinks` says that every pass of its loops makes progress; with a bound below 2
(4 under the uniform collapse) a call need not return: see the findings. The loops of the trees have
measures (`LoopsAdvance`) in place of fairness.

**Findings** (runs whose expected result is a violation; each was confirmed by running
the program):

- `psketch_remove_from_empty`: removing from an empty store follows NULL (`dds_mapstore.c:219`).
- `driver_empty_file`: quantile 0 of an empty sketch follows NULL (`dds_psketch.c:117`), and the
  test program asks for it whatever its file holds.
- `gsketch_tiny_bound`: `-n -s 1 -b 1` never returns: a store of one bucket is asked to
  shrink to none. (The uniform collapse needs two buckets per store for the same reason: it
  maps the ids 0 and 1 to themselves, and `-s 3 -b 1` does not return either.)
- `hb_traverse`: `hb_tree_traverse` follows parent pointers with balance bits in them
  (`hb_tree.c:465`) and crashes on two keys; the sketches use iterators, which mask them.
- `skiplist_one_link`: `skiplist_new` accepts `max_link` 1, with which the first insertion
  fails an assertion (`skiplist.c:670`).

Met while modelling, and not made into findings because no sketch depends on them or the text is too
loose to be contradicted: a comment of `tr_tree.c` describes the treap as a heap with the
least priority on top where the code keeps the greatest there; `sp_tree.c` splays in
insertions that find the key and in searches, but not in those of an iterator;
`tree_min_path_length` counts a missing child as the end of a way, so that a node with one child has
length 1; `rb_tree_verify` compares black nodes only on ways that end in a leaf;
`hb_itor_search` finds the next key when its own is missing; the averages of the driver
leave out one percentile that they divide by; NaN, and infinity where the range ends at it, are
addressable. A full table of open slots (removal, probing and refusing an
insertion) was looked at closely and is right.

## 4. What is proved

With TLAPS, for every set of items, counts and policies that the named
assumptions of the modules allow (items are typed and finitely many, counts
positive, bounds natural):

- `PSketch_proofs`: `TypeCorrect`, `CollapseStateAgrees`, `SizeIsBounded`. No
  assumption is made on callers. The inductive invariant `IInv` is `TypeOK`,
  `CollapsedConsistent` and `RoomMade` together. They need each other: the
  types of what an insertion stores depend on the end bucket being there; the
  end bucket is there because a merge needs two buckets and because draining
  the last one resets the flag; and `SizeBound` alone says nothing in the loop,
  so `RoomMade` also covers crashed calls and the loop's exit test supplies the rest.
- `PSketch_proofs`, for callers that remove only what is present: `BucketsAreExact`
  (every bucket counts exactly the items that belong there) and `TotalIsExact`, from the
  invariant `ContentsInv`: `IInv`, which says where an item is looked for, with
  `BucketsExact`, the zero bucket and the total. The insertion in progress is
  why the total is compared with the `pending` count added. For callers that
  also query only sketches that are not empty, `NeverCrashes`: a rank beyond the zero bucket
  means that the store counts something, so that it has a first bucket. The
  assumption on removals is needed: two items may share a bucket, and removing
  one that is absent takes the other's units.
- `PSketch_proofs` also: `TotalIsAlwaysSum`, for callers of any kind. A removal of more than its
  bucket holds takes only what is there, and each collapse moves counts without
  changing their sum (`CollapseKeepsSum`, over sums of functions by the folds of the
  community modules).
- `PSketch_proofs`, `SummaryIsImplemented`: every step of the sketch is a step of
  `QuantileSummary` or a stutter, for callers that remove only what is present. The invariant
  `SummaryInv` is `ContentsInv` with `ScanInv`: while a query goes up the store, the
  count it has added up is that of the items in the buckets it has passed, and the rank
  lies beyond them. `StoreContents_proofs` says when such a scan may stop: a bucket whose items
  bring the count over the rank holds the item of that rank, and the last bucket always does.
- `GSketch_proofs`: the same seven results for the sketch with two stores
  (`SizeIsBounded` adds up both, whichever of them was shrunk), and four of its own.
  `KeptEndIsLast` needs that the second store is only collapsed when the first could not be
  shrunk to make room (`FullOnceMerged`, which holds until the first removal).
  `GammaIsTracked`: the stores share gamma but count collapses apart. `CollapseAlwaysShrinks`
  assumes that a uniform policy has a bound of at least 4: halving leaves
  buckets 0 and 1 of each store where they are. It leaves a pass that changes nothing possible;
  `MergesAlwaysHaveTwo` excludes it for merging policies with room for two buckets, and
  `gsketch_tiny_bound` shows it with room for one. In `SummaryIsImplemented` a query goes down
  the negative store, over the zero bucket and up the positive one (`ScanInv` says where it is).
- `StoreContents_proofs`: the step lemmas behind these, for any store: an
  insertion, a pass of the collapsing loop (merging the first or last
  bucket with its neighbour, or halving all ids while gamma is squared) and a removal keep
  `HoldsExactly`. A dictionary without empty buckets
  holds a multiset exactly when, for every integer, its count there is the number of
  copies whose home that is (`CountedIsHolds`), which turns each case into a sum of two
  disjoint parts. Halving rests on `UpperCollapseAgrees`; removal distinguishes whether it
  drains the end bucket, since items beyond that bucket then lose their home unless
  none is left.
- `MappingCollapse_proofs`: `CollapseAlwaysAgrees`, `ValueAlwaysWithinAlpha`, on
  the arithmetic of `StoreContents_proofs` (rounding up to multiples of g
  and then of 2g in one step or two), assuming that items under `LOG_LOWER` are at least 1.
  `BidAlwaysFits`, for any width of `int` and any range of doubles: the range puts the
  first id between two ints (`FitsAtFirst`), with one to spare for the extra decrement of `LOG_LOWER`,
  and halving keeps it there (`HalfFits`).
- `StoreContents_proofs`: also `BucketValueIsAccurate`, the alpha bound of
  `dds_get_bucket_value` with gamma as a fraction, and the facts these rest on: ends of
  finite sets of ids exist; insertion, merge, halving and removal keep a store a store;
  what a removal changes.
- `SearchTree_proofs`: lemmas about the shared tree code. The recursive walks of the code (a path to the
  root, a subtree) cannot be reasoned about by induction here, so `IsTree(t, sub)` says
  that the heap of `t` is a search tree *with a witness*: `sub` names for each node the
  set of nodes below it. A child's set is its parent's part on that side (`Linked`,
  `Spans`), the left part has smaller keys and the right part greater ones (`Sorted`).
  Every operation that moves nodes then has a new witness that differs
  at the few nodes it touches: `RotationKeepsTree`, `AttachKeepsTree`, `SpliceKeepsTree`,
  `ClearedIsTree`, `RekeyKeepsTree` (a node takes over its in-order neighbour's contents)
  and `HeirKeepsTree` (the two steps of removing a node with two children, which together
  are sound although between them two nodes have one key). From the witness follow `TreeSearches` (the five
  searches), `TreeLinksAgree` and `TreeVerified`. The loops that follow pointers are recursive
  functions on nodes; that there is such a function whether or not the loop ends is `LoopHasResults`, and
  that it ends is `LoopEnds`: every pass leaves a smaller set of nodes to visit, and proper subsets of a finite
  set are well-founded. `DatumAssumption` says that callers store data that are not `NULL`.
- `SearchTree_proofs` goes on to what the walks, the iterators and the selection of the shared code return.
  They are compared with sequences that recursive functions build. That such a
  function has the results it should is shown by the node or the position for which it
  would first fail: sizes of witness sets (`sub`), places in the order and distances to it are natural
  numbers, and a set of those has a least one. The walk of a node is the
  walk of its left part, the node and the walk of its right part; the successor that an iterator climbs or
  descends to is the next of that sequence.
- `TrSpTree_proofs`, for any keys, addresses and integer priorities: `TrTypeCorrect`,
  `TrSearchesAlwaysRight`, `TrWalksAlwaysInOrder`, `TrIteratorsAlwaysRight`, `TrSelectsAlwaysRight`,
  `HeapAlwaysOrdered` (the treap's part of `RulesKept`), `TrAlwaysVerified` (`tr_tree_verify` returns true),
  `TrPointersAlwaysStay` and `TrImplements`, the refinement of `OrderedMap`. The inductive invariant is
  `TreeInv` (a search tree whose data are those of their keys), `OrderInv` and `CallInv` (where the running
  call is, and by how much the count lags). `OrderInv` says more than
  that the heap is ordered but for one place: while a node is rising its children are already no greater than its
  parent, and while one is sinking, its children are no greater than its parent either; without that a rotation
  would not restore the order it disturbs.
- `TrSpTree_proofs`, the splay tree: the same results (`Sp...`) but for the heap. Each pass
  of `splay` is one or two rotations about the same node (`LiftedTwice`). Here `SpPointersAlwaysStay` is about the
  exchange of contents: one node at most gets another key, and only in a removal.
- `WbTree_proofs`, the same results for the weight-balanced tree, and that it is balanced: `WeightsAlwaysExact`,
  `RotationsAlwaysHaveNodes` (the assertions of `fixup` hold and its rotations follow no NULL pointer) and
  `AlwaysVerified` (`wb_tree_verify` returns true, with its bounds of 292 and 708 of 1000), for trees of
  every size. A weight is the sum of the weights of the two parts, or 1 for none, which needs no recursion: the
  invariant `WeightInv` says so at every node, and bounds both parts, but for the node
  that the loop has reached, whose weight lags behind one of its parts by the node that
  came or went. From there on it is linear arithmetic over the weights of the three or four parts that a rotation
  moves: which of them are positive, and that one single or double rotation brings all bounds back.
  The weights count nodes only in a second step, `ExactWeights`, against the sizes
  of the witness's sets. The code's 32-bit product `weight * 1000U` is an integer here, see section 5.
- `ListsAndTables_proofs`, the table with open addressing, for any keys, sizes and hash functions:
  `OpenTypeCorrect`, `OpenAlwaysSound`, `OpenSearchesAlwaysRight`, `OpenIteratorsAlwaysRight` and
  `OpenImplementsMap`. That every slot between the first slot of a key and its own is occupied
  (`Reached`) is not inductive in a full table: `remove_cleanup` stops when it comes round to the first slot of the removed
  key, and what lies beyond is only right because some slot is passed by no key (`Uncrossed`:
  a free one, or in a full table the one that was filled last). Seen from there the table is a row without an
  end to go round, and each pass of the loop leaves one hole behind it (`Mending`), which no
  key from before it needs. The loops are recursive functions on the number of passes; `LoopRuns` says that they have a
  run and `LoopKeeps` that what each pass keeps holds at the end.

Only model-checked:

- `CallReturns`, `ProgramEnds`: liveness under fairness is out of the prover's reach.
- `LoopsAdvance`: its measures are lengths of paths, that recursive functions build.
- `QuantilesAgree`: a statement about powers of gamma and the finitely many files of the run.
- The height-balanced, the red-black and the path-reduction tree (of `Dict`: `RulesKept`, `WeightsExact`,
  `AssertionsHold` and the rest, of these kinds): they are made of the same operators, so that the lemmas of
  `SearchTree_proofs` apply, but that the nodes a rotation lifts are there depends on a balance
  that is defined by heights and path lengths.
- The skip list and the table of chains.
- The properties of `Dict` for all kinds at once: the theorems are about the specification of each kind, which
  `Dict` runs side by side.

## 5. What is not modelled, and why

- Floating-point rounding of `log`, `ceil` and `pow`, and NaN: logarithms are exact
  in the model. An item on the border of a bucket may be
  looked up one bucket off in the program.
- Overflow of counts: they are C types wider than any stream fed. (Ids: see `BidFits`.)
- Failures of allocation in the sketches, and the iterators that early returns leak.
- The 32 bits of a tree weight: `weight * 1000U` wraps beyond four million nodes, far more than
  TLC can build.
- The parsing of the command line, what is timed and printed, and the averages of the errors.
- The comparison and hash functions of `dict.c` (keys are integers and hashes any function), and
  `dict_is_sorted`.
- Iterators kept across a change of a hash table: no text allows it, and what they
  then do depends on memory that was freed.
- Counters of rotations and comparisons, which only statistics read.
- `libdict/`: the same sources as `libuddsketch/src/dict`, with upstream's tests and demonstrations.

## 6. Plan

1. Mapping, store, both sketches and the abstract summary, with everything that
   is not liveness proved: done.
2. `OrderedMap`, the trees, the skip list and the hash tables: done.
3. `Driver`: done, without the averages.
4. Proofs of the sketches, of the treap, the splay and the weight-balanced tree, and of the table with
   open addressing: done.
5. Left: the chains of `Hashtable`, the heights of the height-balanced tree (as a witness beside `sub`), and the
   levels of the skip list.
