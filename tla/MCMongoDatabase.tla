--------------------------- MODULE MCMongoDatabase ---------------------------
EXTENDS MongoDatabase
CONSTANTS A, B, v1
MCClasses == {A, B}
MCVals == {v1}
=============================================================================
