------------------------------ MODULE IoMethods ------------------------------
(***************************************************************************)
(* The readers of polars/io.ts: the options each declares, and those it    *)
(* hands to the native reader.  Defaults stand in for options not given.   *)
(***************************************************************************)
LOCAL INSTANCE Methods

LOCAL Frame(native, args) == <<Pli(native, args), New("DataFrame")>>
LOCAL Lazy(native, args)  == <<Pli(native, args), New("LazyDataFrame")>>

\* { ...defaults, ...options }
Defaults(defaults, names) ==
  Record([p \in DOMAIN defaults |-> Or(p, defaults[p])] @@ Forward(names))

ReadCsvOptions ==
  {"inferSchemaLength", "nRows", "batchSize", "hasHeader", "ignoreErrors", "endRows",
   "startRows", "projection", "sep", "columns", "rechunk", "encoding", "numThreads", "dtypes",
   "lowMemory", "commentChar", "quotChar", "nullValues", "chunkSize", "skipRows",
   "parseDates", "skipRowsAfterHeader", "rowCount"}

readCsvDefaultOptions ==
  [inferSchemaLength |-> "100", hasHeader |-> "true", ignoreErrors |-> "true",
   chunkSize |-> "10000", skipRows |-> "0", sep |-> ",", rechunk |-> "false",
   encoding |-> "utf8", lowMemory |-> "false", parseDates |-> "false",
   skipRowsAfterHeader |-> "0"]

\* A json option given is format: "json"; "lines" is the default.
ReadJsonOptions == {"batchSize", "inferSchemaLength"}
readJsonDefaultOptions == [batchSize |-> "10000", inferSchemaLength |-> "50", format |-> "lines"]

ScanCsvOptions ==
  {"hasHeader", "sep", "commentChar", "quoteChar", "skipRows", "nullValues", "ignoreErrors",
   "cache", "inferSchemaLength", "rechunk", "nRows", "encoding", "lowMemory", "parseDates",
   "skipRowsAfterHeader"}
scanCsvDefaultOptions ==
  [inferSchemaLength |-> "100", cache |-> "true", hasHeader |-> "true", ignoreErrors |-> "true",
   skipRows |-> "0", sep |-> ",", rechunk |-> "false", encoding |-> "utf8",
   lowMemory |-> "false", parseDates |-> "false", skipRowsAfterHeader |-> "0"]

ScanJsonOptions ==
  {"inferSchemaLength", "nThreads", "batchSize", "lowMemory", "numRows", "skipRows", "rowCount"}

ScanParquetOptions == {"columns", "numRows", "parallel", "rowCount", "cache", "rechunk"}

ReadersDeclared ==
  [readRecords |-> Plainly({"records"}, {"schema"}) \cup Plainly({"records"}, {"inferSchemaLength"}),
   readCSV     |-> Plainly({"pathOrBody"}, ReadCsvOptions),
   scanCSV     |-> Plainly({"path"}, ScanCsvOptions),
   readJSON    |-> Plainly({"path"}, ReadJsonOptions \cup {"json"})
                   \cup Plainly({"buffer"}, ReadJsonOptions \cup {"json"}),
   scanJson    |-> Plainly({"path"}, ScanJsonOptions)]

BinaryReadersDeclared ==
  [readParquet |-> Plainly({"pathOrBody"}, {"columns", "numRows", "parallel", "rowCount"})
                   \cup Plainly({"pathOrBody", "indices"}, {"numRows", "parallel", "rowCount"}),
   readAvro    |-> Plainly({"pathOrBody"}, {"columns", "projection", "nRows"}),
   scanParquet |-> Plainly({"path"}, ScanParquetOptions),
   readIPC     |-> Plainly({"pathOrBody"}, {"columns", "nRows"}),
   scanIPC     |-> Plainly({"path"}, {"nRows", "cache", "rechunk"})]

ReadRecords ==
  [readRecords |->
     PlainIf({"schema"}, Frame("fromRows", <<Value("records"), Value("schema")>>))
     \o Plain(Frame("fromRows", <<Value("records"), Value(""), Value("inferSchemaLength")>>))]

ReadCsv ==
  [readCSV |-> Plain(Frame("readCsv", <<Value("pathOrBody"),
                                        Defaults(readCsvDefaultOptions, ReadCsvOptions)>>))]

ScanCsv ==
  [scanCSV |-> Plain(Lazy("scanCsv", <<Value("path"),
                                       Defaults(scanCsvDefaultOptions, ScanCsvOptions)>>))]

\* A buffer is read by readJson whatever its format.
ReadJson ==
  LET options == Defaults(readJsonDefaultOptions, ReadJsonOptions)
      asJson  == Defaults([readJsonDefaultOptions EXCEPT !.format = "json"], ReadJsonOptions)
  IN
  [readJSON |-> PlainIf({"buffer", "json"}, Frame("readJson", <<Value("buffer"), asJson>>))
                \o PlainIf({"buffer"}, Frame("readJson", <<Value("buffer"), options>>))
                \o PlainIf({"json"}, Frame("readJson", <<Value("path"), asJson>>))
                \o Plain(Frame("readJsonLines", <<Value("path"), options>>))]

ScanJson ==
  [scanJson |-> Plain(Lazy("scanJson", <<Value("path"),
                                         Defaults(readJsonDefaultOptions, ScanJsonOptions)>>))]

ReadParquet ==
  LET rest == [nRows |-> Value("numRows"), rowCount |-> Value("rowCount")]
      read(options) == Frame("readParquet", <<Value("pathOrBody"), Record(options @@ rest),
                                              Or("parallel", "auto")>>)
  IN
  [readParquet |-> PlainIf({"indices"}, read([projection |-> Value("indices")]))
                   \o Plain(read([columns |-> Value("columns")]))]

ReadAvro ==
  [readAvro |-> Plain(Frame("readAvro", <<Value("pathOrBody"),
                                          Record(Forward({"columns", "projection", "nRows"}))>>))]

ScanParquet ==
  [scanParquet |-> Plain(Lazy("scanParquet",
     <<Value("path"), Record([nRows |-> Value("numRows"), rowCount |-> Value("rowCount")]),
       Or("parallel", "auto")>>))]

ReadIpc ==
  [readIPC |-> Plain(Frame("readIpc", <<Value("pathOrBody"), Record(Forward({"columns", "nRows"}))>>))]

\* Fault: the defaults are written into the object given.
ScanIpcDefaulting ==
  [scanIPC |-> Plain(<<Writes({"cache"})>>
                     \o Lazy("scanIpc", <<Value("path"),
                                          Record(Forward({"nRows", "cache", "rechunk"}))>>))]

ScanIpc ==
  [scanIPC |-> Plain(Lazy("scanIpc", <<Value("path"),
                                       Record(Forward({"nRows", "cache", "rechunk"}))>>))]

Readers ==
  ReadRecords @@ ReadCsv @@ ScanCsv @@ ReadJson @@ ScanJson @@ ReadParquet @@ ReadAvro
  @@ ScanParquet @@ ReadIpc @@ ScanIpc
=============================================================================
