--------------------------- MODULE Paging_proofs ---------------------------
(***************************************************************************)
(* Proofs about Paging, for tables of any length and an image anywhere.    *)
(* PagingInv is the inductive invariant.  What the properties do not say    *)
(* and the steps need: which table belongs to which window (TablesOwned),   *)
(* that a table's entries are all of the kind its window's loop writes      *)
(* (EntriesOwn), how far boot has come (BootProgress), and that a copy is    *)
(* not longer than the window (Measured).                                  *)
(***************************************************************************)
EXTENDS Paging, SequenceTheorems, TLAPS

Places == 0 .. ENTRIES + 1
Count(w) == IF directory[w].present THEN 1 ELSE 0

\* A table is the kernel window's or HarshFS's, which has the number the loader was given.
TablesOwned ==
  /\ Len(tables) = Count(KERNEL) + Count(HARSHFS)
  /\ \A w \in Windows : IF directory[w].present THEN directory[w].number \in DOMAIN tables
                         ELSE directory[w].number = 0
  /\ directory[KERNEL].present /\ directory[HARSHFS].present =>
       directory[KERNEL].number # directory[HARSHFS].number
  /\ new_page_table # NULL =>
       directory[HARSHFS].present /\ directory[HARSHFS].number = new_page_table

\* No entry is open to user mode; each maps the frame of its place in its window; no loop
\* comes behind the footer's first word, and boot's not behind the table.
EntriesOwn ==
  /\ \A t \in DOMAIN tables : ~tables[t][ENTRIES + 1].present
  /\ \A t \in DOMAIN tables, i \in Places : ~tables[t][i].user
  /\ directory[KERNEL].present =>
       /\ ~Entry(KERNEL, ENTRIES).present
       /\ \A i \in Places : Entry(KERNEL, i).present => Entry(KERNEL, i).number = i
  /\ directory[HARSHFS].present =>
       \A i \in Places : Entry(HARSHFS, i).present => Entry(HARSHFS, i).number = HARSHFS_FRAME + i

\* The first n pages of the kernel's window are mapped.
FirstMapped(n) == \A i \in 0 .. n - 1 : Entry(KERNEL, i).present

BootProgress ==
  /\ boot = "entry" => ~directory[KERNEL].present
  /\ boot = "table" => directory[KERNEL].present /\ FirstMapped(boot_entry)
  /\ boot \in {"activate", "cr3", "done"} \/ currently_used_directory =>
       directory[KERNEL].present /\ FirstMapped(ENTRIES)
  /\ boot \in {"entry", "table", "activate"} => ~currently_used_directory
  /\ boot \in {"cr3", "done"} \/ cr3 = "kernel_directory" => currently_used_directory

Measured ==
  /\ loader \in {"entry", "table", "search"} => size = 0
  /\ loader = "measure" => size <= entry_counter
  /\ loader = "copy" => entry_counter <= size

PagingInv == TypeOK /\ TablesOwned /\ EntriesOwn /\ BootProgress /\ Measured

---------------------------------------------------------------------------
LEMMA ConstantFacts ==
  /\ ENTRIES \in Nat /\ ENTRIES > 0 /\ HARSHFS_FRAME \in Nat /\ HARSHFS_FRAME > ENTRIES
  /\ IMAGE_START \in 0 .. ENTRIES - 1 /\ KERNEL # HARSHFS
BY PagingConstants DEF KERNEL, HARSHFS

LEMMA InitInv == Init => PagingInv
<1>. SUFFICES ASSUME Init PROVE PagingInv OBVIOUS
<1>. USE ConstantFacts
<1>1. TypeOK
  <2>1. directory \in [Windows -> EntryType]
    BY DEF Init, Absent, EntryType, Windows
  <2>2. tables \in Seq([Places -> EntryType]) /\ new_page_table \in 0 .. Len(tables)
    BY DEF Init, NULL
  <2>3. image \in [header: 0 .. ENTRIES - 1, footer: 0 .. ENTRIES - 1] BY DEF Init
  <2>4. /\ currently_used_directory = FALSE /\ cr3 = "boot_directory" /\ boot = "entry"
        /\ boot_entry = 0 /\ loader = "idle" /\ entry_counter = 0 /\ size = 0
    BY DEF Init
  <2>5. 0 \in 0 .. ENTRIES /\ 0 \in 0 .. ENTRIES + 1 OBVIOUS
  <2>. QED BY <2>1, <2>2, <2>3, <2>4, <2>5, Zenon DEF TypeOK, Places
<1>2. TablesOwned BY DEF Init, TablesOwned, Count, Absent, NULL, Windows
<1>3. EntriesOwn BY DEF Init, EntriesOwn, Absent
<1>4. BootProgress BY DEF Init, BootProgress, Absent
<1>5. Measured BY DEF Init, Measured
<1>. QED BY <1>1, <1>2, <1>3, <1>4, <1>5 DEF PagingInv

---------------------------------------------------------------------------
\* The table type, by the names the proofs use.
LEMMA TablesType ==
  ASSUME TypeOK
  PROVE  /\ tables \in Seq([Places -> EntryType])
         /\ \A t \in DOMAIN tables : tables[t] \in [Places -> EntryType]
         /\ DOMAIN tables = 1 .. Len(tables) /\ Len(tables) \in Nat
BY DEF TypeOK, Places

\* Writing an entry of a table changes that entry and nothing else.
LEMMA EntryWritten ==
  ASSUME TypeOK, NEW t \in DOMAIN tables, NEW i \in Places,
         NEW frame \in 0 .. HARSHFS_FRAME + ENTRIES + 1,
         kernel_set_page_table_entry(t, frame, i, KERNEL_MODE, WRITEABLE)
  PROVE  /\ tables' \in Seq([Places -> EntryType])
         /\ DOMAIN tables' = DOMAIN tables /\ Len(tables') = Len(tables)
         /\ \A u \in DOMAIN tables, j \in Places :
              tables'[u][j] =
                IF u = t /\ j = i
                THEN [present |-> TRUE, number |-> frame, user |-> FALSE, writeable |-> TRUE]
                ELSE tables[u][j]
<1>. DEFINE e == [present |-> TRUE, number |-> frame, user |-> FALSE, writeable |-> TRUE]
<1>1. tables' = [tables EXCEPT ![t] = [tables[t] EXCEPT ![i] = e]]
  BY DEF kernel_set_page_table_entry, KERNEL_MODE, WRITEABLE
<1>2. e \in EntryType BY ConstantFacts DEF EntryType
<1>3. tables[t] \in [Places -> EntryType] BY TablesType
<1>. HIDE DEF e
<1>4. [tables[t] EXCEPT ![i] = e] \in [Places -> EntryType] BY <1>2, <1>3
<1>5. /\ tables' \in Seq([Places -> EntryType])
      /\ DOMAIN tables' = DOMAIN tables /\ Len(tables') = Len(tables)
  BY <1>1, <1>4, TablesType
<1>6. ASSUME NEW u \in DOMAIN tables, NEW j \in Places
      PROVE  tables'[u][j] = IF u = t /\ j = i THEN e ELSE tables[u][j]
  BY <1>1, <1>3, TablesType
<1>. QED BY <1>5, <1>6 DEF e

\* A directory entry is given a new, empty table, or only other flags.
LEMMA DirectorySet ==
  ASSUME TypeOK, Len(tables) < HARSHFS_FRAME + ENTRIES + 1, NEW w \in Windows,
         kernel_set_page_directory_entry(w, KERNEL_MODE, WRITEABLE)
  PROVE  /\ directory' \in [Windows -> EntryType]
         /\ tables' \in Seq([Places -> EntryType])
         /\ \A v \in Windows \ {w} : directory'[v] = directory[v]
         /\ directory'[w].present
         /\ directory[w].present =>
              tables' = tables /\ directory'[w].number = directory[w].number
         /\ ~directory[w].present =>
              /\ tables' = Append(tables, Table)
              /\ directory'[w].number = Len(tables) + 1
<1>1. directory \in [Windows -> EntryType] BY DEF TypeOK
<1>2. CASE directory[w].present
  <2>1. /\ tables' = tables
        /\ directory' = [directory EXCEPT ![w] =
                           [[@ EXCEPT !.user = FALSE] EXCEPT !.writeable = TRUE]]
    BY <1>2, <1>1 DEF kernel_set_page_directory_entry, NewTable, KERNEL_MODE, WRITEABLE, EntryType
  <2>. QED BY <2>1, <1>1, <1>2, TablesType DEF EntryType
<1>3. CASE ~directory[w].present
  <2>1. /\ tables' = Append(tables, Table)
        /\ directory' = [directory EXCEPT ![w] = [present |-> TRUE, number |-> Len(tables) + 1,
                                                  user |-> TRUE, writeable |-> FALSE]]
    BY <1>3 DEF kernel_set_page_directory_entry, NewTable, KERNEL_MODE, WRITEABLE
  <2>2. Table \in [Places -> EntryType]
    BY ConstantFacts DEF Table, Places, Absent, EntryType
  <2>3. tables' \in Seq([Places -> EntryType]) BY <2>1, <2>2, TablesType
  <2>4. [present |-> TRUE, number |-> Len(tables) + 1, user |-> TRUE, writeable |-> FALSE]
          \in EntryType
    BY TablesType, ConstantFacts DEF EntryType
  <2>. QED BY <2>1, <2>3, <2>4, <1>1, <1>3
<1>. QED BY <1>2, <1>3

---------------------------------------------------------------------------
\* Steps that leave the directory and the tables alone.
LEMMA TablesKept ==
  ASSUME PagingInv, UNCHANGED <<directory, tables>>
  PROVE  /\ new_page_table' \in {NULL, new_page_table} => TablesOwned'
         /\ EntriesOwn'
         /\ UNCHANGED booting => BootProgress'
         /\ (UNCHANGED <<currently_used_directory, cr3>> /\ boot' = "abandoned") => BootProgress'
<1>1. new_page_table' \in {NULL, new_page_table} => TablesOwned'
  BY DEF PagingInv, TablesOwned, Count
<1>2. EntriesOwn' BY DEF PagingInv, EntriesOwn, Entry
<1>3. \A n : FirstMapped(n)' <=> FirstMapped(n) BY DEF FirstMapped, Entry
<1>4. UNCHANGED booting => BootProgress'
  BY <1>3 DEF PagingInv, BootProgress, FirstMapped, Entry, booting
<1>5. (UNCHANGED <<currently_used_directory, cr3>> /\ boot' = "abandoned") => BootProgress'
  BY <1>3 DEF PagingInv, BootProgress, FirstMapped, Entry
<1>. QED BY <1>1, <1>2, <1>4, <1>5

LEMMA FaultInv ==
  ASSUME PagingInv, page_fault, UNCHANGED <<directory, tables, image>>
  PROVE  PagingInv'
<1>1. TypeOK' BY ConstantFacts DEF PagingInv, TypeOK, page_fault
<1>2. TablesOwned' /\ EntriesOwn' BY TablesKept DEF page_fault
<1>3. BootProgress'
  <2>1. CASE boot = "done" BY <2>1, TablesKept DEF page_fault, booting
  <2>2. CASE boot # "done" BY <2>2, TablesKept DEF page_fault
  <2>. QED BY <2>1, <2>2
<1>4. Measured' BY DEF page_fault, Measured
<1>. QED BY <1>1, <1>2, <1>3, <1>4 DEF PagingInv

LEMMA LoadStarts ==
  ASSUME PagingInv, load_harshfs_kernel_image, UNCHANGED image
  PROVE  PagingInv'
<1>1. TypeOK'
  BY ConstantFacts DEF PagingInv, TypeOK, load_harshfs_kernel_image, booting, NULL
<1>2. TablesOwned' /\ EntriesOwn' /\ BootProgress'
  BY TablesKept DEF load_harshfs_kernel_image
<1>3. Measured' BY DEF load_harshfs_kernel_image, Measured
<1>. QED BY <1>1, <1>2, <1>3 DEF PagingInv

LEMMA SearchInv ==
  ASSUME PagingInv, search, UNCHANGED image
  PROVE  PagingInv'
<1>1. CASE page_fault BY <1>1, FaultInv DEF search
<1>2. CASE ~page_fault
  <2>1. /\ UNCHANGED booting /\ new_page_table' = new_page_table
        /\ loader \in {"search", "measure"} /\ entry_counter < ENTRIES
    BY <1>2, ConstantFacts DEF search, Go, booting, PagingInv, TypeOK
  <2>2. /\ entry_counter \in Nat /\ size \in Nat
        /\ loader \in {"entry", "table", "search"} => size = 0
        /\ loader = "measure" => size <= entry_counter
    BY DEF PagingInv, TypeOK, Measured
  <2>3. \/ /\ loader' = loader /\ entry_counter' = entry_counter + 1
           /\ size' = IF loader = "measure" THEN size + 1 ELSE size
        \/ loader = "search" /\ loader' = "measure" /\ UNCHANGED <<entry_counter, size>>
        \/ loader = "measure" /\ loader' = "copy" /\ size' = size + 1 /\ entry_counter' = 0
    BY <1>2, <2>1 DEF search, Go
  <2>4. /\ entry_counter' \in 0 .. ENTRIES + 1 /\ size' \in 0 .. ENTRIES
        /\ loader' \in {"search", "measure", "copy"} /\ Measured'
    BY <2>1, <2>2, <2>3, ConstantFacts DEF Measured
  <2>5. TypeOK'
    BY <2>1, <2>4 DEF PagingInv, TypeOK, search, booting
  <2>6. TablesOwned' /\ EntriesOwn' /\ BootProgress' BY <2>1, TablesKept DEF search
  <2>. QED BY <2>4, <2>5, <2>6 DEF PagingInv
<1>. QED BY <1>1, <1>2

LEMMA CopyInv ==
  ASSUME PagingInv, memory_copy, UNCHANGED image
  PROVE  PagingInv'
<1>1. CASE page_fault BY <1>1, FaultInv DEF memory_copy
<1>2. CASE ~page_fault
  <2>1. /\ UNCHANGED <<booting, size>> /\ new_page_table' = new_page_table
        /\ loader = "copy"
        /\ \/ loader' = "idle" /\ entry_counter' = 0
           \/ loader' = "copy" /\ entry_counter # size /\ entry_counter' = entry_counter + 1
    BY <1>2 DEF memory_copy, Go, booting
  <2>2. entry_counter \in Nat /\ size \in 0 .. ENTRIES /\ entry_counter <= size
    BY <2>1 DEF PagingInv, TypeOK, Measured
  <2>3. entry_counter' \in 0 .. ENTRIES + 1 /\ Measured'
    BY <2>1, <2>2, ConstantFacts DEF Measured
  <2>4. TypeOK' BY <2>1, <2>3 DEF PagingInv, TypeOK, memory_copy, booting
  <2>5. TablesOwned' /\ EntriesOwn' /\ BootProgress' BY <2>1, TablesKept DEF memory_copy
  <2>. QED BY <2>3, <2>4, <2>5 DEF PagingInv
<1>. QED BY <1>1, <1>2

---------------------------------------------------------------------------
\* A window's directory entry being set: the windows keep their own tables.
LEMMA DirectorySetInv ==
  ASSUME PagingInv, NEW w \in Windows,
         kernel_set_page_directory_entry(w, KERNEL_MODE, WRITEABLE),
         \/ new_page_table' = new_page_table
         \/ w = HARSHFS /\ new_page_table' = IF NewTable(HARSHFS) THEN Len(tables) + 1 ELSE NULL
  PROVE  /\ directory' \in [Windows -> EntryType] /\ tables' \in Seq([Places -> EntryType])
         /\ new_page_table' \in 0 .. Len(tables')
         /\ TablesOwned' /\ EntriesOwn'
         /\ \A v \in Windows : directory[v].present =>
              directory'[v].present /\ \A i \in Places : Entry(v, i)' = Entry(v, i)
         /\ directory'[w].present
         /\ \A v \in Windows \ {w} : directory'[v] = directory[v]
<1>. USE DEF Windows
<1>1. TypeOK /\ TablesOwned /\ EntriesOwn BY DEF PagingInv
<1>2. Len(tables) < HARSHFS_FRAME + ENTRIES + 1
  BY <1>1, ConstantFacts DEF TablesOwned, Count
<1>3. /\ directory' \in [Windows -> EntryType]
      /\ tables' \in Seq([Places -> EntryType])
      /\ \A v \in Windows \ {w} : directory'[v] = directory[v]
      /\ directory'[w].present
      /\ directory[w].present =>
           tables' = tables /\ directory'[w].number = directory[w].number
      /\ ~directory[w].present =>
           /\ tables' = Append(tables, Table)
           /\ directory'[w].number = Len(tables) + 1
  BY <1>1, <1>2, DirectorySet
<1>. HIDE DEF Windows
<1>4. DOMAIN tables = 1 .. Len(tables) /\ Len(tables) \in Nat BY <1>1, TablesType
<1>5. \A v \in Windows : directory[v].present => directory[v].number \in DOMAIN tables
  BY <1>1 DEF TablesOwned
<1>6. new_page_table \in 0 .. Len(tables) BY <1>1 DEF TypeOK
<1>7. KERNEL \in Windows /\ HARSHFS \in Windows /\ \A v \in Windows : v \in {KERNEL, HARSHFS}
  BY DEF Windows
<1>10. CASE directory[w].present
  <2>1. /\ \A v \in Windows : directory'[v].present <=> directory[v].present
        /\ \A v \in Windows : directory'[v].number = directory[v].number
        /\ tables' = tables
    BY <1>3, <1>10
  <2>2. \A v \in Windows, i \in Places : Entry(v, i)' = Entry(v, i) BY <2>1 DEF Entry
  <2>3. new_page_table' \in {NULL, new_page_table}
    BY <1>10 DEF NewTable
  <2>4. TablesOwned' BY <1>1, <2>1, <2>3, <1>7 DEF TablesOwned, Count
  <2>5. EntriesOwn'
    BY <1>1, <2>1, <2>2, <1>7, ConstantFacts DEF EntriesOwn, Places
  <2>6. new_page_table' \in 0 .. Len(tables') BY <2>1, <2>3, <1>4, <1>6 DEF NULL
  <2>. QED BY <2>1, <2>2, <2>4, <2>5, <2>6, <1>3
<1>11. CASE ~directory[w].present
  <2>1. /\ tables' = Append(tables, Table) /\ directory'[w].number = Len(tables) + 1
        /\ directory'[w].present
        /\ \A v \in Windows \ {w} : directory'[v] = directory[v]
    BY <1>3, <1>11
  <2>2. /\ Len(tables') = Len(tables) + 1 /\ DOMAIN tables' = 1 .. Len(tables) + 1
        /\ tables'[Len(tables) + 1] = Table
        /\ \A t \in DOMAIN tables : tables'[t] = tables[t]
    BY <2>1, <1>1, <1>4 DEF TypeOK
  <2>3. \A v \in Windows : directory[v].present =>
          directory'[v].present /\ \A i \in Places : Entry(v, i)' = Entry(v, i)
    BY <2>1, <2>2, <1>5, <1>11 DEF Entry
  <2>4. \A i \in Places : Entry(w, i)' = Absent BY <2>1, <2>2 DEF Entry, Table, Places
  <2>5. TablesOwned'
    <3>1. Len(tables)' = Count(KERNEL)' + Count(HARSHFS)'
      BY <2>1, <2>2, <1>1, <1>7, <1>11, ConstantFacts DEF TablesOwned, Count
    <3>2. \A v \in Windows : IF directory'[v].present THEN directory'[v].number \in DOMAIN tables'
                               ELSE directory'[v].number = 0
      BY <2>1, <2>2, <1>1, <1>4 DEF TablesOwned
    <3>3. directory'[KERNEL].present /\ directory'[HARSHFS].present =>
            directory'[KERNEL].number # directory'[HARSHFS].number
      BY <2>1, <1>4, <1>5, <1>7, ConstantFacts
    <3>4. new_page_table' # NULL =>
            directory'[HARSHFS].present /\ directory'[HARSHFS].number = new_page_table'
      BY <2>1, <1>1, <1>7, <1>11 DEF TablesOwned, NewTable
    <3>. QED BY <3>1, <3>2, <3>3, <3>4 DEF TablesOwned
  <2>6. EntriesOwn'
    <3>1. ENTRIES + 1 \in Places /\ ENTRIES \in Places BY ConstantFacts DEF Places
    <3>2. \A t \in DOMAIN tables' : t \in DOMAIN tables \/ tables'[t] = Table
      BY <2>2, <1>4
    <3>3. \A i \in Places : Table[i] = Absent BY DEF Table, Places
    <3>4. \A t \in DOMAIN tables' : ~tables'[t][ENTRIES + 1].present
      BY <3>1, <3>2, <3>3, <2>2, <1>1 DEF EntriesOwn, Absent
    <3>5. \A t \in DOMAIN tables', i \in Places : ~tables'[t][i].user
      BY <3>2, <3>3, <2>2, <1>1 DEF EntriesOwn, Absent
    <3>6. directory'[KERNEL].present =>
            /\ ~Entry(KERNEL, ENTRIES)'.present
            /\ \A i \in Places : Entry(KERNEL, i)'.present => Entry(KERNEL, i)'.number = i
      BY <2>1, <2>3, <2>4, <3>1, <1>1, <1>7 DEF EntriesOwn, Absent
    <3>7. directory'[HARSHFS].present =>
            \A i \in Places : Entry(HARSHFS, i)'.present =>
              Entry(HARSHFS, i)'.number = HARSHFS_FRAME + i
      BY <2>1, <2>3, <2>4, <1>1, <1>7 DEF EntriesOwn, Absent
    <3>. QED BY <3>4, <3>5, <3>6, <3>7 DEF EntriesOwn
  <2>7. new_page_table' \in 0 .. Len(tables')
    BY <2>2, <1>4, <1>6, <1>11 DEF NewTable, NULL
  <2>. QED BY <2>1, <2>3, <2>5, <2>6, <2>7, <1>3
<1>. QED BY <1>10, <1>11

\* A page of a window being mapped.
FrameOf(w, i) == IF w = KERNEL THEN i ELSE HARSHFS_FRAME + i
Written(frame) == [present |-> TRUE, number |-> frame, user |-> FALSE, writeable |-> TRUE]

LEMMA WindowEntryInv ==
  ASSUME PagingInv, NEW w \in Windows, directory[w].present,
         NEW i \in 0 .. ENTRIES, w = KERNEL => i < ENTRIES,
         kernel_set_page_table_entry(directory[w].number, FrameOf(w, i), i, KERNEL_MODE, WRITEABLE),
         UNCHANGED <<directory, new_page_table>>
  PROVE  /\ tables' \in Seq([Places -> EntryType]) /\ Len(tables') = Len(tables)
         /\ TablesOwned' /\ EntriesOwn'
         /\ \A v \in Windows, j \in Places : directory[v].present =>
              Entry(v, j)' = IF v = w /\ j = i THEN Written(FrameOf(w, i)) ELSE Entry(v, j)
<1>1. TypeOK /\ TablesOwned /\ EntriesOwn BY DEF PagingInv
<1>2. /\ i \in Places /\ i # ENTRIES + 1 /\ ENTRIES \in Places /\ ENTRIES + 1 \in Places
      /\ FrameOf(w, i) \in 0 .. HARSHFS_FRAME + ENTRIES + 1
  BY ConstantFacts DEF Places, FrameOf
<1>3. /\ KERNEL \in Windows /\ HARSHFS \in Windows /\ KERNEL # HARSHFS
      /\ \A v \in Windows : v \in {KERNEL, HARSHFS}
  BY ConstantFacts DEF Windows
<1>4. \A v \in Windows : directory[v].present => directory[v].number \in DOMAIN tables
  BY <1>1 DEF TablesOwned
<1>5. \A v \in Windows \ {w} : directory[v].present => directory[v].number # directory[w].number
  BY <1>1, <1>3 DEF TablesOwned
<1>. DEFINE t == directory[w].number
<1>6. t \in DOMAIN tables BY <1>4
<1>. HIDE DEF t
<1>7. /\ tables' \in Seq([Places -> EntryType])
      /\ DOMAIN tables' = DOMAIN tables /\ Len(tables') = Len(tables)
      /\ \A u \in DOMAIN tables, j \in Places :
           tables'[u][j] = IF u = t /\ j = i THEN Written(FrameOf(w, i)) ELSE tables[u][j]
  BY <1>1, <1>2, <1>6, EntryWritten DEF Written, t
<1>8. \A v \in Windows, j \in Places : directory[v].present =>
        Entry(v, j)' = IF v = w /\ j = i THEN Written(FrameOf(w, i)) ELSE Entry(v, j)
  BY <1>4, <1>5, <1>7 DEF Entry, t
<1>9. TablesOwned' BY <1>1, <1>7 DEF TablesOwned, Count
<1>10. EntriesOwn'
  <2>1. \A u \in DOMAIN tables' : ~tables'[u][ENTRIES + 1].present
    BY <1>1, <1>2, <1>7 DEF EntriesOwn
  <2>2. \A u \in DOMAIN tables', j \in Places : ~tables'[u][j].user
    BY <1>1, <1>7 DEF EntriesOwn, Written
  <2>3. directory'[KERNEL].present =>
          /\ ~Entry(KERNEL, ENTRIES)'.present
          /\ \A j \in Places : Entry(KERNEL, j)'.present => Entry(KERNEL, j)'.number = j
    BY <1>1, <1>2, <1>3, <1>8, ConstantFacts DEF EntriesOwn, Written, FrameOf
  <2>4. directory'[HARSHFS].present =>
          \A j \in Places : Entry(HARSHFS, j)'.present =>
            Entry(HARSHFS, j)'.number = HARSHFS_FRAME + j
    BY <1>1, <1>3, <1>8 DEF EntriesOwn, Written, FrameOf
  <2>. QED BY <2>1, <2>2, <2>3, <2>4 DEF EntriesOwn
<1>. QED BY <1>7, <1>8, <1>9, <1>10

---------------------------------------------------------------------------
LEMMA BootDirectoryInv ==
  ASSUME PagingInv, boot_directory_entry, UNCHANGED <<loading, image>>
  PROVE  PagingInv'
<1>. USE DEF boot_directory_entry, loading
<1>1. /\ directory' \in [Windows -> EntryType] /\ tables' \in Seq([Places -> EntryType])
      /\ new_page_table' \in 0 .. Len(tables') /\ TablesOwned' /\ EntriesOwn'
      /\ directory'[KERNEL].present
  BY DirectorySetInv DEF Windows
<1>2. TypeOK' BY <1>1, ConstantFacts DEF PagingInv, TypeOK, Places
<1>3. BootProgress'
  <2>1. ~currently_used_directory /\ cr3 # "kernel_directory"
    BY DEF PagingInv, BootProgress
  <2>2. FirstMapped(boot_entry)' BY DEF FirstMapped
  <2>. QED BY <1>1, <2>1, <2>2 DEF BootProgress
<1>4. Measured' BY DEF PagingInv, Measured
<1>. QED BY <1>1, <1>2, <1>3, <1>4 DEF PagingInv

LEMMA BootTableInv ==
  ASSUME PagingInv, boot_table_entry, UNCHANGED <<loading, image>>
  PROVE  PagingInv'
<1>1. /\ TypeOK /\ TablesOwned /\ EntriesOwn /\ BootProgress /\ Measured
      /\ boot = "table" /\ directory[KERNEL].present /\ FirstMapped(boot_entry)
      /\ ~currently_used_directory /\ cr3 # "kernel_directory"
      /\ boot_entry \in 0 .. ENTRIES
      /\ UNCHANGED <<directory, currently_used_directory, cr3, loader, new_page_table,
                     entry_counter, size, image>>
  BY DEF boot_table_entry, PagingInv, BootProgress, TypeOK, loading
<1>2. Measured' BY <1>1 DEF Measured
<1>3. CASE boot_entry # ENTRIES
  <2>1. /\ kernel_set_page_table_entry(directory[KERNEL].number, FrameOf(KERNEL, boot_entry),
                                       boot_entry, KERNEL_MODE, WRITEABLE)
        /\ boot_entry' = boot_entry + 1 /\ boot' = "table"
        /\ boot_entry < ENTRIES /\ boot_entry \in Places
    BY <1>1, <1>3, ConstantFacts DEF boot_table_entry, LastFrame, FrameOf, Places
  <2>2. /\ tables' \in Seq([Places -> EntryType]) /\ Len(tables') = Len(tables)
        /\ TablesOwned' /\ EntriesOwn'
        /\ \A j \in Places : Entry(KERNEL, j)' =
             IF j = boot_entry THEN Written(FrameOf(KERNEL, boot_entry)) ELSE Entry(KERNEL, j)
    BY <1>1, <2>1, WindowEntryInv DEF Windows
  <2>3. FirstMapped(boot_entry)'
    <3>1. ASSUME NEW i \in 0 .. boot_entry' - 1 PROVE Entry(KERNEL, i)'.present
      <4>1. i \in Places /\ (i = boot_entry \/ i \in 0 .. boot_entry - 1)
        BY <1>1, <2>1, ConstantFacts DEF Places
      <4>. QED BY <4>1, <1>1, <2>2 DEF FirstMapped, Written
    <3>. QED BY <3>1 DEF FirstMapped
  <2>4. TypeOK' BY <1>1, <2>1, <2>2, ConstantFacts DEF TypeOK, Places
  <2>5. BootProgress' BY <1>1, <2>1, <2>3 DEF BootProgress
  <2>. QED BY <1>2, <2>2, <2>4, <2>5 DEF PagingInv
<1>4. CASE boot_entry = ENTRIES
  <2>1. UNCHANGED <<tables, boot_entry>> /\ boot' = "activate"
    BY <1>1, <1>4 DEF boot_table_entry, LastFrame
  <2>2. TablesOwned' /\ EntriesOwn' BY <1>1, <2>1, TablesKept
  <2>3. FirstMapped(ENTRIES)' BY <1>1, <1>4, <2>1 DEF FirstMapped, Entry
  <2>4. BootProgress'
    <3>1. /\ boot' = "activate" /\ ~currently_used_directory' /\ cr3' # "kernel_directory"
          /\ directory'[KERNEL].present
      BY <1>1, <2>1
    <3>. QED BY <3>1, <2>3 DEF BootProgress, FirstMapped
  <2>5. TypeOK' BY <1>1, <2>1 DEF TypeOK
  <2>. QED BY <1>2, <2>2, <2>4, <2>5 DEF PagingInv
<1>. QED BY <1>3, <1>4

LEMMA ActivateInv ==
  ASSUME PagingInv, set_active_page_directory, UNCHANGED <<loading, image>>
  PROVE  PagingInv'
<1>. USE DEF set_active_page_directory, loading
<1>1. TablesOwned' /\ EntriesOwn' BY TablesKept
<1>2. TypeOK' BY DEF PagingInv, TypeOK
<1>3. BootProgress'
  <2>1. directory[KERNEL].present /\ FirstMapped(ENTRIES) BY DEF PagingInv, BootProgress
  <2>2. directory'[KERNEL].present /\ FirstMapped(ENTRIES)' BY <2>1 DEF FirstMapped, Entry
  <2>3. boot' \in {"cr3", "done"} OBVIOUS
  <2>4. currently_used_directory'
    <3>1. CASE boot = "activate" BY <3>1
    <3>2. CASE boot = "cr3" BY <3>2 DEF PagingInv, BootProgress
    <3>. QED BY <3>1, <3>2
  <2>. QED BY <2>2, <2>3, <2>4 DEF BootProgress
<1>4. Measured' BY DEF PagingInv, Measured
<1>. QED BY <1>1, <1>2, <1>3, <1>4 DEF PagingInv

LEMMA LoadDirectoryInv ==
  ASSUME PagingInv, load_directory_entry, UNCHANGED image
  PROVE  PagingInv'
<1>1. CASE ~currently_used_directory
  BY <1>1, FaultInv DEF load_directory_entry
<1>2. CASE currently_used_directory
  <2>1. /\ kernel_set_page_directory_entry(HARSHFS, KERNEL_MODE, WRITEABLE)
        /\ new_page_table' = IF NewTable(HARSHFS) THEN Len(tables) + 1 ELSE NULL
        /\ UNCHANGED booting /\ loader' = "table" /\ UNCHANGED <<entry_counter, size>>
    BY <1>2 DEF load_directory_entry, Go
  <2>2. /\ directory' \in [Windows -> EntryType] /\ tables' \in Seq([Places -> EntryType])
        /\ new_page_table' \in 0 .. Len(tables') /\ TablesOwned' /\ EntriesOwn'
        /\ \A v \in Windows : directory[v].present =>
             directory'[v].present /\ \A i \in Places : Entry(v, i)' = Entry(v, i)
        /\ directory'[KERNEL] = directory[KERNEL]
    BY <2>1, DirectorySetInv, ConstantFacts DEF Windows
  <2>3. TypeOK' BY <2>1, <2>2 DEF PagingInv, TypeOK, Places, booting
  <2>4. BootProgress'
    <3>1. directory[KERNEL].present /\ FirstMapped(ENTRIES) /\ ENTRIES \in Nat
      BY <1>2, ConstantFacts DEF PagingInv, BootProgress
    <3>2. FirstMapped(ENTRIES)'
      BY <3>1, <2>2 DEF FirstMapped, Places, Windows
    <3>. QED BY <1>2, <2>1, <2>2, <3>1, <3>2 DEF PagingInv, BootProgress, booting
  <2>5. Measured' BY <2>1 DEF Measured, PagingInv, load_directory_entry
  <2>. QED BY <2>2, <2>3, <2>4, <2>5 DEF PagingInv
<1>. QED BY <1>1, <1>2

LEMMA LoadTableInv ==
  ASSUME PagingInv, load_table_entry, UNCHANGED image
  PROVE  PagingInv'
<1>1. /\ TypeOK /\ TablesOwned /\ EntriesOwn /\ BootProgress
      /\ loader = "table" /\ UNCHANGED directory /\ entry_counter \in 0 .. ENTRIES + 1
      /\ size = 0
  BY DEF PagingInv, TypeOK, Measured, load_table_entry
<1>2. CASE entry_counter > LastPage
  <2>1. /\ UNCHANGED <<booting, tables, new_page_table, size>>
        /\ loader' = "search" /\ entry_counter' = IMAGE_START
    BY <1>2 DEF load_table_entry, Go
  <2>2. TypeOK' BY <1>1, <2>1, ConstantFacts DEF TypeOK, booting
  <2>3. TablesOwned' /\ EntriesOwn' /\ BootProgress' BY <1>1, <2>1, TablesKept
  <2>4. Measured' BY <1>1, <2>1 DEF Measured
  <2>. QED BY <2>2, <2>3, <2>4 DEF PagingInv
<1>3. CASE entry_counter <= LastPage /\ new_page_table = NULL
  <2>1. page_fault /\ UNCHANGED tables
    BY <1>1, <1>3, ConstantFacts DEF load_table_entry, LastPage
  <2>. QED BY <2>1, <1>1, FaultInv
<1>4. CASE entry_counter <= LastPage /\ new_page_table # NULL
  <2>1. /\ directory[HARSHFS].present /\ directory[HARSHFS].number = new_page_table
        /\ entry_counter \in 0 .. ENTRIES
        /\ HARSHFS \in Windows /\ HARSHFS # KERNEL /\ KERNEL \in Windows
        /\ FrameOf(HARSHFS, entry_counter) = Frame
    BY <1>1, <1>4, ConstantFacts DEF TablesOwned, LastPage, Windows, FrameOf, Frame
  <2>2. /\ kernel_set_page_table_entry(new_page_table, Frame, entry_counter,
                                       KERNEL_MODE, WRITEABLE)
        /\ entry_counter' = entry_counter + 1
        /\ UNCHANGED <<booting, loader, new_page_table, size>>
    BY <1>1, <1>4, ConstantFacts DEF load_table_entry, LastPage, NextEntry
  <2>3. /\ tables' \in Seq([Places -> EntryType]) /\ Len(tables') = Len(tables)
        /\ TablesOwned' /\ EntriesOwn'
        /\ \A v \in Windows, j \in Places : directory[v].present =>
             Entry(v, j)' = IF v = HARSHFS /\ j = entry_counter
                            THEN Written(FrameOf(HARSHFS, entry_counter)) ELSE Entry(v, j)
    BY <1>1, <2>1, <2>2, WindowEntryInv
  <2>4. TypeOK' BY <1>1, <2>1, <2>2, <2>3, ConstantFacts DEF TypeOK, Places, booting
  <2>5. BootProgress'
    <3>1. \A n \in 0 .. ENTRIES : directory[KERNEL].present => (FirstMapped(n)' <=> FirstMapped(n))
      BY <2>1, <2>3, ConstantFacts DEF FirstMapped, Places
    <3>2. boot_entry \in 0 .. ENTRIES /\ ENTRIES \in 0 .. ENTRIES
      BY <1>1, ConstantFacts DEF TypeOK
    <3>3. UNCHANGED <<boot, boot_entry, currently_used_directory, cr3, directory>>
      BY <1>1, <2>2 DEF booting
    <3>4. directory[KERNEL].present =>
            /\ FirstMapped(boot_entry)' <=> FirstMapped(boot_entry)
            /\ FirstMapped(ENTRIES)' <=> FirstMapped(ENTRIES)
      BY <3>1, <3>2, <3>3 DEF FirstMapped
    <3>. QED BY <1>1, <3>3, <3>4 DEF BootProgress
  <2>6. Measured' BY <1>1, <2>2 DEF Measured
  <2>. QED BY <2>3, <2>4, <2>5, <2>6 DEF PagingInv
<1>. QED BY <1>1, <1>2, <1>3, <1>4, ConstantFacts DEF LastPage

---------------------------------------------------------------------------
LEMMA NextInv ==
  ASSUME PagingInv, [Next]_vars
  PROVE  PagingInv'
<1>1. CASE start_paging
  BY <1>1, BootDirectoryInv, BootTableInv, ActivateInv DEF start_paging
<1>2. CASE Loader
  BY <1>2, LoadDirectoryInv, LoadTableInv, SearchInv, CopyInv DEF Loader
<1>3. CASE load_harshfs_kernel_image /\ UNCHANGED image BY <1>3, LoadStarts
<1>4. CASE UNCHANGED vars
  <2>1. UNCHANGED <<directory, tables, booting, loading, image>> BY <1>4 DEF vars
  <2>2. TablesOwned' /\ EntriesOwn' /\ BootProgress' BY <2>1, TablesKept DEF loading
  <2>3. TypeOK' /\ Measured'
    BY <2>1 DEF PagingInv, TypeOK, Measured, loading, booting
  <2>. QED BY <2>2, <2>3 DEF PagingInv
<1>. QED BY <1>1, <1>2, <1>3, <1>4 DEF Next

(***************************************************************************)
(* The inductive invariant, for tables of any length: which table is whose, *)
(* what stands in it, and how far start_paging has come.                    *)
(***************************************************************************)
THEOREM PagingInvHolds == Spec => []PagingInv
<1>1. Init => PagingInv BY InitInv
<1>2. PagingInv /\ [Next]_vars => PagingInv' BY NextInv
<1>. QED BY <1>1, <1>2, PTL DEF Spec

(***************************************************************************)
(* The tables, the counters and the sizes stay within their bounds.         *)
(***************************************************************************)
THEOREM PagingTypeCorrect == Spec => []TypeOK
<1>1. PagingInv => TypeOK BY DEF PagingInv
<1>. QED BY <1>1, PagingInvHolds, PTL

(***************************************************************************)
(* No page of the kernel's windows is ever open to user mode, although      *)
(* kernel_set_page_directory_entry swaps a new table's flags.               *)
(***************************************************************************)
THEOREM KernelPagesClosed == Spec => []KernelPagesNotUser
<1>1. PagingInv => KernelPagesNotUser
  <2>. SUFFICES ASSUME PagingInv, NEW w \in Windows, NEW i \in 0 .. ENTRIES - 1, Mapped(w, i)
                PROVE  ~Entry(w, i).user
    BY DEF KernelPagesNotUser
  <2>1. directory[w].number \in DOMAIN tables BY DEF PagingInv, TablesOwned, Mapped
  <2>2. i \in Places BY ConstantFacts DEF Places
  <2>. QED BY <2>1, <2>2 DEF PagingInv, EntriesOwn, Entry
<1>. QED BY <1>1, PagingInvHolds, PTL

(***************************************************************************)
(* When cr3 is given the kernel's directory, the window is mapped whole.    *)
(***************************************************************************)
THEOREM WindowIsWhole == Spec => []WindowWhole
<1>1. PagingInv => WindowWhole
  <2>. SUFFICES ASSUME PagingInv, cr3 = "kernel_directory", NEW i \in 0 .. ENTRIES - 1
                PROVE  Mapped(KERNEL, i) /\ Entry(KERNEL, i).number = i
    BY DEF WindowWhole
  <2>1. directory[KERNEL].present /\ FirstMapped(ENTRIES) BY DEF PagingInv, BootProgress
  <2>2. i \in Places /\ i < ENTRIES BY ConstantFacts DEF Places
  <2>3. Entry(KERNEL, i).present BY <2>1 DEF FirstMapped
  <2>. QED BY <2>1, <2>2, <2>3 DEF PagingInv, EntriesOwn, Mapped
<1>. QED BY <1>1, PagingInvHolds, PTL

(***************************************************************************)
(* The loader's entry too many stops in its own table's footer, and the     *)
(* kernel's table is not overrun.                                          *)
(***************************************************************************)
THEOREM OverrunStops == Spec => []OverrunInFooter
<1>1. PagingInv => OverrunInFooter
  <2>1. ASSUME PagingInv, NEW t \in DOMAIN tables, t = directory[KERNEL].number
        PROVE  ~tables[t][ENTRIES].present
    <3>1. CASE directory[KERNEL].present
      BY <2>1, <3>1 DEF PagingInv, EntriesOwn, Entry
    <3>2. CASE ~directory[KERNEL].present
      <4>1. t = 0 BY <2>1, <3>2 DEF PagingInv, TablesOwned, Windows
      <4>. QED BY <4>1, <2>1, TablesType DEF PagingInv
    <3>. QED BY <3>1, <3>2
  <2>. QED BY <2>1 DEF OverrunInFooter, PagingInv, EntriesOwn
<1>. QED BY <1>1, PagingInvHolds, PTL

---------------------------------------------------------------------------
\* A page that one entry is written for, and was mapped, was mapped to the same frame.
LEMMA RewrittenStays ==
  ASSUME PagingInv, NEW w \in Windows, directory[w].present,
         NEW n \in 0 .. ENTRIES, w = KERNEL => n < ENTRIES,
         kernel_set_page_table_entry(directory[w].number, FrameOf(w, n), n, KERNEL_MODE, WRITEABLE),
         UNCHANGED <<directory, new_page_table>>,
         NEW v \in Windows, NEW i \in 0 .. ENTRIES - 1, Mapped(v, i)
  PROVE  Mapped(v, i)' /\ Entry(v, i)'.number = Entry(v, i).number
<1>1. i \in Places /\ i < ENTRIES /\ directory[v].present /\ Entry(v, i).present
  BY ConstantFacts DEF Places, Mapped
<1>2. Entry(v, i)' = IF v = w /\ i = n THEN Written(FrameOf(w, n)) ELSE Entry(v, i)
  BY <1>1, WindowEntryInv
<1>3. Entry(v, i).number = FrameOf(v, i)
  BY <1>1 DEF PagingInv, EntriesOwn, FrameOf, Windows
<1>. QED BY <1>1, <1>2, <1>3 DEF Mapped, Written

LEMMA StepKeepsMapped ==
  ASSUME PagingInv, [Next]_vars, NEW v \in Windows, NEW i \in 0 .. ENTRIES - 1, Mapped(v, i)
  PROVE  Mapped(v, i)' /\ Entry(v, i)'.number = Entry(v, i).number
<1>1. i \in Places /\ directory[v].present BY ConstantFacts DEF Places, Mapped
<1>2. CASE UNCHANGED <<directory, tables>> BY <1>2 DEF Mapped, Entry
<1>3. CASE boot_directory_entry /\ UNCHANGED <<loading, image>>
  BY <1>1, <1>3, DirectorySetInv DEF boot_directory_entry, loading, Windows, Mapped
<1>4. CASE load_directory_entry /\ ~UNCHANGED <<directory, tables>>
  <2>1. /\ kernel_set_page_directory_entry(HARSHFS, KERNEL_MODE, WRITEABLE)
        /\ new_page_table' = IF NewTable(HARSHFS) THEN Len(tables) + 1 ELSE NULL
    BY <1>4 DEF load_directory_entry
  <2>2. directory'[v].present /\ Entry(v, i)' = Entry(v, i)
    BY <1>1, <2>1, DirectorySetInv DEF Windows
  <2>. QED BY <2>2 DEF Mapped
<1>5. CASE boot_table_entry /\ ~UNCHANGED tables /\ UNCHANGED loading
  <2>1. /\ boot_entry \in 0 .. ENTRIES /\ boot_entry # ENTRIES /\ directory[KERNEL].present
        /\ UNCHANGED <<directory, new_page_table>>
        /\ kernel_set_page_table_entry(directory[KERNEL].number, boot_entry, boot_entry,
                                       KERNEL_MODE, WRITEABLE)
    BY <1>5 DEF boot_table_entry, LastFrame, PagingInv, TypeOK, BootProgress, loading
  <2>2. KERNEL \in Windows /\ boot_entry < ENTRIES /\ FrameOf(KERNEL, boot_entry) = boot_entry
    BY <2>1, ConstantFacts DEF Windows, FrameOf
  <2>. QED BY <2>1, <2>2, RewrittenStays
<1>6. CASE load_table_entry /\ ~UNCHANGED tables
  <2>1. /\ entry_counter \in 0 .. ENTRIES /\ new_page_table # NULL
        /\ UNCHANGED <<directory, new_page_table>>
        /\ kernel_set_page_table_entry(new_page_table, Frame, entry_counter,
                                       KERNEL_MODE, WRITEABLE)
    BY <1>6, ConstantFacts DEF load_table_entry, LastPage, PagingInv, TypeOK
  <2>2. /\ directory[HARSHFS].present /\ directory[HARSHFS].number = new_page_table
        /\ HARSHFS \in Windows /\ HARSHFS # KERNEL /\ FrameOf(HARSHFS, entry_counter) = Frame
    BY <2>1, ConstantFacts DEF PagingInv, TablesOwned, Windows, FrameOf, Frame
  <2>. QED BY <2>1, <2>2, RewrittenStays
<1>7. CASE set_active_page_directory \/ search \/ memory_copy \/ load_harshfs_kernel_image
           \/ UNCHANGED vars
  BY <1>2, <1>7 DEF set_active_page_directory, search, memory_copy, load_harshfs_kernel_image, vars
<1>. QED
  <2>1. boot_table_entry \/ load_table_entry => UNCHANGED directory
    BY DEF boot_table_entry, load_table_entry
  <2>. QED BY <1>2, <1>3, <1>4, <1>5, <1>6, <1>7, <2>1 DEF Next, start_paging, Loader

(***************************************************************************)
(* A page that is mapped stays mapped to its frame, whenever "harshfs init" *)
(* is typed.                                                               *)
(***************************************************************************)
THEOREM MappedPagesStay == Spec => MappedStays
<1>1. PagingInv /\ [Next]_vars =>
        [\A w \in Windows, i \in 0 .. ENTRIES - 1 :
           Mapped(w, i) => Mapped(w, i)' /\ Entry(w, i)'.number = Entry(w, i).number]_vars
  BY StepKeepsMapped
<1>. QED BY <1>1, PagingInvHolds, PTL DEF Spec, MappedStays
=============================================================================
