---------------------------- MODULE MCHeap ----------------------------
EXTENDS Heap
=============================================================================
