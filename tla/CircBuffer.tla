----------------------------- MODULE CircBuffer -----------------------------
(***************************************************************************)
(* The circular buffers of Circ_Buffer.c, one for each graph, and send_CB  *)
(* of main.c, which copies one of them to cb_data, an array they all       *)
(* share, pads it to the width of a graph and writes it to the memory.     *)
(***************************************************************************)
EXTENDS Naturals, Sequences

CONSTANTS
    Cbs,   \* the buffers my_cbs[0] to my_cbs[4]
    Size,  \* what they are created with, G_N_COLS
    Byte   \* the values of a sample

ASSUME CircBufferAssumption == Size \in Nat \ {0} /\ 0 \in Byte

VARIABLES
    cb,       \* the fields of each buffer
    cb_data,  \* the shared array
    columns   \* the columns of each graph in the memory

bvars == <<cb, cb_data, columns>>

Index   == 0 .. Size - 1
Buffers == [buf : [Index -> Byte], n_el : 0 .. Size, head : Index, tail : Index,
            empty : BOOLEAN, full : BOOLEAN]
-----------------------------------------------------------------------------
\* The storage malloc returns holds anything.
CB_new_circ_buff(storage) ==
    [buf |-> storage, n_el |-> 0, head |-> 0, tail |-> 0, empty |-> TRUE, full |-> FALSE]

\* Mutants: n_el grows for ever; the tail stays when the buffer is full; cells
\* that are not sampled yet are not padded.
CB_put_Grow(b, data) ==
    [buf |-> [b.buf EXCEPT ![b.head] = data], n_el |-> b.n_el + 1,
     head |-> (b.head + 1) % Size, tail |-> IF b.full THEN (b.head + 1) % Size ELSE b.tail,
     empty |-> FALSE, full |-> b.full \/ (b.head + 1) % Size = b.tail]
CB_put_NoTail(b, data) ==
    [buf |-> [b.buf EXCEPT ![b.head] = data], n_el |-> IF b.full THEN b.n_el ELSE b.n_el + 1,
     head |-> (b.head + 1) % Size, tail |-> b.tail,
     empty |-> FALSE, full |-> b.full \/ (b.head + 1) % Size = b.tail]
pad_None(out_data, data_size) == out_data

CB_put(b, data) ==
    LET next == (b.head + 1) % Size
    IN  [buf   |-> [b.buf EXCEPT ![b.head] = data],
         n_el  |-> IF b.full THEN b.n_el ELSE b.n_el + 1,
         head  |-> next,
         tail  |-> IF b.full THEN next ELSE b.tail,
         empty |-> FALSE,
         full  |-> b.full \/ next = b.tail]

\* The array after the call: an empty buffer leaves it alone.
CB_get_data(b, out_data) ==
    [i \in Index |-> IF ~b.empty /\ i < b.n_el THEN b.buf[(b.tail + i) % Size]
                     ELSE out_data[i]]

\* cb_data[data_size-1] is read before it is overwritten: index by index, the
\* value that pads is the last of the data.
pad(out_data, data_size) ==
    [i \in Index |-> IF i < data_size THEN out_data[i] ELSE out_data[data_size - 1]]
-----------------------------------------------------------------------------
BInit == /\ cb \in [Cbs -> {CB_new_circ_buff(s) : s \in [Index -> Byte]}]
         /\ cb_data = [i \in Index |-> 0]
         /\ columns \in [Cbs -> [Index -> Byte]]

\* main() on one value of a data message: CB_put, then send_CB.
Sample(c, d) ==
    LET b   == CB_put(cb[c], d)
        out == pad(CB_get_data(b, cb_data), b.n_el)
    IN  /\ cb' = [cb EXCEPT ![c] = b]
        /\ cb_data' = out
        /\ columns' = [columns EXCEPT ![c] = out]

BNext == \E c \in Cbs, d \in Byte : Sample(c, d)

BSpec == BInit /\ [][BNext]_bvars
-----------------------------------------------------------------------------
BTypeOK == /\ cb \in [Cbs -> Buffers]
           /\ cb_data \in [Index -> Byte]
           /\ columns \in [Cbs -> [Index -> Byte]]

\* head, tail, n_el, empty and full are five views of two facts: how many
\* samples there are and where the oldest is.
FieldsAgree ==
    \A c \in Cbs : LET b == cb[c] IN
        /\ b.empty <=> b.n_el = 0
        /\ b.full <=> b.n_el = Size
        /\ b.full => b.head = b.tail
        /\ ~b.full => b.tail = 0 /\ b.head = b.n_el

\* The samples in a buffer, oldest first.
Samples(b) == [i \in 1 .. b.n_el |-> b.buf[(b.tail + i - 1) % Size]]

Window == INSTANCE SlidingWindow WITH win <- [c \in Cbs |-> Samples(cb[c])]

\* The buffers and send_CB implement SlidingWindow: the columns of a graph are
\* its own last samples in order, padded with its newest, whatever the shared
\* array held and whatever malloc returned.
SlidingWindows == Window!WSpec
=============================================================================
