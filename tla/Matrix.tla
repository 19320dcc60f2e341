------------------------------- MODULE Matrix -------------------------------
(***************************************************************************)
(* The dense matrix helper of p0_starter.h: RowMatrix<int> and the         *)
(* RowMatrixOperations Add, Multiply and GEMM.  A program holds a few      *)
(* matrices, named by Handles, and makes one call per step.  A matrix is   *)
(* a record of its rows, its columns and its elements, a function from     *)
(* (row, column) cells to values; the row pointers of data_ and the unused *)
(* linear_ array are left out.  The constructor does not initialise the    *)
(* elements (new T[cols] of an int), so a new matrix holds any values.     *)
(* The loops of the operations are RECURSIVE operators that visit the     *)
(* cells in the order the code does, and stop at the first exception.      *)
(***************************************************************************)
EXTENDS Integers, Sequences, Functions

CONSTANTS
    Handles,    \* the program's matrix variables
    Vals,       \* the element values (int) a program writes
    MaxDim      \* the largest row or column count constructed

VARIABLES
    mats,       \* handle -> matrix, for the handles constructed so far
    last        \* the last call: its operation, arguments and outcome

vars == <<mats, last>>

Dims == 0..MaxDim
Indices == -1..MaxDim

Cells(rows, cols) == (0..rows - 1) \X (0..cols - 1)

\* A matrix of the given size with the given elements.
Mat(rows, cols, data) == [rows |-> rows, cols |-> cols, data |-> data]

\* The outcome of a call: "ok" with its matrix or value, "null" (the
\* empty unique_ptr) or "throw" (an OUT_OF_RANGE exception).
NoMat == Mat(0, 0, <<>>)
Ok(m, v) == [kind |-> "ok", m |-> m, val |-> v]
Null == [kind |-> "null", m |-> NoMat, val |-> 0]
Throw == [kind |-> "throw", m |-> NoMat, val |-> 0]

\* RowMatrix(rows, cols): the elements are uninitialised.
NewMatrices(rows, cols) == {Mat(rows, cols, d) : d \in [Cells(rows, cols) -> Vals]}

\* The bounds test of GetElement and SetElement, as written.
OutOfRange(m, i, j) == i <= 0 \/ i >= m.rows \/ j < 0 \/ j >= m.cols

GetElement(m, i, j) ==
    IF OutOfRange(m, i, j) THEN Throw ELSE Ok(NoMat, m.data[<<i, j>>])

SetElement(m, i, j, v) ==
    IF OutOfRange(m, i, j) THEN Throw
    ELSE Ok([m EXCEPT !.data[<<i, j>>] = v], 0)

\* FillFrom: the size test, then source[k] to cell (k / cols, k % cols).
FillFrom(m, source) ==
    IF Len(source) # m.rows * m.cols THEN Throw
    ELSE Ok([m EXCEPT !.data = [c \in Cells(m.rows, m.cols) |->
                                  source[c[1] * m.cols + c[2] + 1]]], 0)

\* The cell the k-th iteration of a row-major double loop visits.
CellAt(m, k) == <<k \div m.cols, k % m.cols>>

\* The loop of Add from its k-th iteration, with mat_c as built so far.
RECURSIVE AddLoop(_, _, _, _)
AddLoop(a, b, c, k) ==
    IF k = a.rows * a.cols THEN Ok(c, 0)
    ELSE LET i == CellAt(a, k)[1]
             j == CellAt(a, k)[2]
             x == GetElement(a, i, j)
             y == GetElement(b, i, j)
             s == SetElement(c, i, j, x.val + y.val)
         IN IF x.kind = "throw" \/ y.kind = "throw" \/ s.kind = "throw" THEN Throw
            ELSE AddLoop(a, b, s.m, k + 1)

\* Add, with c the freshly constructed (uninitialised) mat_c.
Add(a, b, c) ==
    IF a.rows # b.rows \/ a.cols # b.cols THEN Null
    ELSE AddLoop(a, b, c, 0)

\* The inner loop of Multiply from its k-th iteration: sum += A(i,k) * B(k,j).
RECURSIVE DotLoop(_, _, _, _, _, _)
DotLoop(a, b, i, j, k, sum) ==
    IF k = a.cols THEN Ok(NoMat, sum)
    ELSE LET x == GetElement(a, i, k)
             y == GetElement(b, k, j)
         IN IF x.kind = "throw" \/ y.kind = "throw" THEN Throw
            ELSE DotLoop(a, b, i, j, k + 1, sum + x.val * y.val)

\* The two outer loops of Multiply from their n-th iteration.
RECURSIVE MulLoop(_, _, _, _)
MulLoop(a, b, c, n) ==
    IF n = c.rows * c.cols THEN Ok(c, 0)
    ELSE LET i == CellAt(c, n)[1]
             j == CellAt(c, n)[2]
             d == DotLoop(a, b, i, j, 0, 0)
             s == SetElement(c, i, j, d.val)
         IN IF d.kind = "throw" \/ s.kind = "throw" THEN Throw
            ELSE MulLoop(a, b, s.m, n + 1)

Multiply(a, b, c) ==
    IF a.cols # b.rows THEN Null
    ELSE MulLoop(a, b, c, 0)

\* GEMM: Multiply into tmp (an exception propagates), then Add tmp and C.
GEMM(a, b, c, tmp, sum) ==
    LET t == Multiply(a, b, tmp)
    IN IF t.kind # "ok" THEN t ELSE Add(t.m, c, sum)
(***************************************************************************)
(* The program: each step is one call on the matrices it holds.  An       *)
(* operation's result is stored in a handle; a call that throws or returns *)
(* nullptr leaves the handles as they were.                                *)
(***************************************************************************)
Call(op, args, idx, src, out) ==
    [op |-> op, args |-> args, idx |-> idx, src |-> src, out |-> out]

\* mats with handle h (re)bound to m.
Bind(h, m) == [x \in DOMAIN mats \cup {h} |-> IF x = h THEN m ELSE mats[x]]

\* The matrices bound to hs, in order.
Args(hs) == [n \in DOMAIN hs |-> mats[hs[n]]]

\* Store r's matrix in h if the call returned one.
Store(h, r) == mats' = IF r.kind = "ok" THEN Bind(h, r.m) ELSE mats

Init ==
    /\ mats = <<>>
    /\ last = Call("init", <<>>, <<>>, <<>>, Null)

Construct(h, rows, cols) ==
    \E m \in NewMatrices(rows, cols) :
        /\ mats' = Bind(h, m)
        /\ last' = Call("new", <<>>, <<rows, cols>>, <<>>, Ok(m, 0))

Get(h, i, j) ==
    /\ h \in DOMAIN mats
    /\ last' = Call("get", Args(<<h>>), <<i, j>>, <<>>, GetElement(mats[h], i, j))
    /\ UNCHANGED mats

Set(h, i, j, v) ==
    /\ h \in DOMAIN mats
    /\ LET r == SetElement(mats[h], i, j, v)
       IN /\ Store(h, r)
          /\ last' = Call("set", Args(<<h>>), <<i, j, v>>, <<>>, r)

Fill(h, src) ==
    /\ h \in DOMAIN mats
    /\ LET r == FillFrom(mats[h], src)
       IN /\ Store(h, r)
          /\ last' = Call("fill", Args(<<h>>), <<>>, src, r)

AddCall(ha, hb, hc) ==
    /\ {ha, hb} \subseteq DOMAIN mats
    /\ LET a == mats[ha]
           b == mats[hb]
       IN \E c \in NewMatrices(a.rows, a.cols) :
            LET r == Add(a, b, c)
            IN /\ Store(hc, r)
               /\ last' = Call("add", Args(<<ha, hb>>), <<>>, <<>>, r)

MultiplyCall(ha, hb, hc) ==
    /\ {ha, hb} \subseteq DOMAIN mats
    /\ LET a == mats[ha]
           b == mats[hb]
       IN \E c \in NewMatrices(a.rows, b.cols) :
            LET r == Multiply(a, b, c)
            IN /\ Store(hc, r)
               /\ last' = Call("multiply", Args(<<ha, hb>>), <<>>, <<>>, r)

GEMMCall(ha, hb, hc, hd) ==
    /\ {ha, hb, hc} \subseteq DOMAIN mats
    /\ LET a == mats[ha]
           b == mats[hb]
       IN \E tmp, sum \in NewMatrices(a.rows, b.cols) :
            LET r == GEMM(a, b, mats[hc], tmp, sum)
            IN /\ Store(hd, r)
               /\ last' = Call("gemm", Args(<<ha, hb, hc>>), <<>>, <<>>, r)

Sources == UNION {[1..n -> Vals] : n \in 0..MaxDim * MaxDim}

Next ==
    \/ \E h \in Handles, rows, cols \in Dims : Construct(h, rows, cols)
    \/ \E h \in Handles, i, j \in Indices : Get(h, i, j)
    \/ \E h \in Handles, i, j \in Indices, v \in Vals : Set(h, i, j, v)
    \/ \E h \in Handles, src \in Sources : Fill(h, src)
    \/ \E ha, hb, hc \in Handles : AddCall(ha, hb, hc)
    \/ \E ha, hb, hc \in Handles : MultiplyCall(ha, hb, hc)
    \/ \E ha, hb, hc, hd \in Handles : GEMMCall(ha, hb, hc, hd)

Spec == Init /\ [][Next]_vars

Matrices == UNION {NewMatrices(r, c) : r, c \in Dims}

TypeOK ==
    /\ DOMAIN mats \subseteq Handles
    /\ \A h \in DOMAIN mats : mats[h] \in Matrices
    /\ last.out.kind \in {"ok", "null", "throw"}

(***************************************************************************)
(* What the header comments of p0_starter.h document for each call, from  *)
(* reference definitions of the arithmetic.                                *)
(***************************************************************************)
InRange(m, i, j) == 0 <= i /\ i < m.rows /\ 0 <= j /\ j < m.cols

MatSum(a, b) == Mat(a.rows, a.cols, [x \in DOMAIN a.data |-> a.data[x] + b.data[x]])

MatProduct(a, b) ==
    Mat(a.rows, b.cols,
        [x \in Cells(a.rows, b.cols) |->
            SumFunctionOnSet([k \in 0..a.cols - 1 |-> a.data[<<x[1], k>>] * b.data[<<k, x[2]>>]],
                             0..a.cols - 1)])

SameSize(a, b) == a.rows = b.rows /\ a.cols = b.cols

Documented(call) ==
    LET a == call.args[1]
        b == call.args[2]
        c == call.args[3]
        i == call.idx[1]
        j == call.idx[2]
    IN CASE call.op = "get" ->
              IF InRange(a, i, j) THEN Ok(NoMat, a.data[<<i, j>>]) ELSE Throw
         [] call.op = "set" ->
              IF InRange(a, i, j) THEN Ok([a EXCEPT !.data[<<i, j>>] = call.idx[3]], 0)
              ELSE Throw
         [] call.op = "fill" ->
              IF Len(call.src) = a.rows * a.cols
              THEN Ok(Mat(a.rows, a.cols, [x \in Cells(a.rows, a.cols) |->
                                             call.src[x[1] * a.cols + x[2] + 1]]), 0)
              ELSE Throw
         [] call.op = "add" ->
              IF SameSize(a, b) THEN Ok(MatSum(a, b), 0) ELSE Null
         [] call.op = "multiply" ->
              IF a.cols = b.rows THEN Ok(MatProduct(a, b), 0) ELSE Null
         [] call.op = "gemm" ->
              IF a.cols = b.rows /\ SameSize(MatProduct(a, b), c)
              THEN Ok(MatSum(MatProduct(a, b), c), 0) ELSE Null
         [] OTHER -> call.out

\* Every call of RowMatrix and RowMatrixOperations returns what its header
\* comment documents: GetElement and SetElement throw exactly for an index
\* out of range, FillFrom exactly for a source of the wrong size, and Add,
\* Multiply and GEMM return nullptr exactly on a dimension mismatch and the
\* sum, product or A*B+C otherwise.
OperationsAsDocumented == last.out = Documented(last)
=============================================================================
