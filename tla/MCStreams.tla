----------------------------- MODULE MCStreams ------------------------------
EXTENDS Streams

MCReaderLists == {<<>>, <<2>>, <<1, 0, 2>>, <<0, 1>>}
=============================================================================
