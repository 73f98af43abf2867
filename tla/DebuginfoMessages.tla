------------------------------ MODULE DebuginfoMessages ------------------------------
(* The messages of the debuginfo service, as the generated client declares them: for each
   one its interface (what a value of it looks like) and its message type (how it is
   created, read and written).  The fields stand in the order in which internalBinaryWrite
   writes them. *)
EXTENDS WireFormat

ShouldInitiateUploadRequest ==
    [buildId |-> Required, hash |-> Required, force |-> Required, type |-> Required,
      buildIdType |-> Required]
ShouldInitiateUploadRequest_Type ==
    MessageType("debuginfo.ShouldInitiateUploadRequest", ShouldInitiateUploadRequest, <<
      Implicit(1, "buildId", Delimited), Implicit(2, "hash", Delimited),
      Implicit(3, "force", Varint), Implicit(4, "type", Varint),
      Implicit(5, "buildIdType", Varint)>>)

ShouldInitiateUploadResponse == [shouldInitiateUpload |-> Required, reason |-> Required]
ShouldInitiateUploadResponse_Type ==
    MessageType("debuginfo.ShouldInitiateUploadResponse", ShouldInitiateUploadResponse, <<
      Implicit(1, "shouldInitiateUpload", Varint), Implicit(2, "reason", Delimited)>>)

InitiateUploadRequest ==
    [buildId |-> Required, size |-> Required, hash |-> Required, force |-> Required,
      type |-> Required, buildIdType |-> Required]
InitiateUploadRequest_Type ==
    MessageType("debuginfo.InitiateUploadRequest", InitiateUploadRequest, <<
      Implicit(1, "buildId", Delimited), Implicit(2, "size", Varint),
      Implicit(3, "hash", Delimited), Implicit(4, "force", Varint), Implicit(5, "type", Varint),
      Implicit(6, "buildIdType", Varint)>>)

InitiateUploadResponse == [uploadInstructions |-> Optional("debuginfo.UploadInstructions")]
InitiateUploadResponse_Type ==
    MessageType("debuginfo.InitiateUploadResponse", InitiateUploadResponse, <<
      Submessage(1, "uploadInstructions", "debuginfo.UploadInstructions")>>)

UploadInstructions ==
    [buildId |-> Required, uploadId |-> Required, uploadStrategy |-> Required,
      signedUrl |-> Required, type |-> Required]
UploadInstructions_Type ==
    MessageType("debuginfo.UploadInstructions", UploadInstructions, <<
      Implicit(1, "buildId", Delimited), Implicit(2, "uploadId", Delimited),
      Implicit(3, "uploadStrategy", Varint), Implicit(4, "signedUrl", Delimited),
      Implicit(5, "type", Varint)>>)

MarkUploadFinishedRequest == [buildId |-> Required, uploadId |-> Required, type |-> Required]
MarkUploadFinishedRequest_Type ==
    MessageType("debuginfo.MarkUploadFinishedRequest", MarkUploadFinishedRequest, <<
      Implicit(1, "buildId", Delimited), Implicit(2, "uploadId", Delimited),
      Implicit(3, "type", Varint)>>)

MarkUploadFinishedResponse == NoProperties
MarkUploadFinishedResponse_Type ==
    MessageType("debuginfo.MarkUploadFinishedResponse", MarkUploadFinishedResponse, <<>>)

UploadRequest == [data |-> OneOf([info |-> "debuginfo.UploadInfo", chunkData |-> Scalar])]
UploadRequest_Type ==
    MessageType("debuginfo.UploadRequest", UploadRequest, <<
      Oneof(1, "data", "info", "debuginfo.UploadInfo"), Oneof(2, "data", "chunkData", Delimited)>>)

UploadInfo == [buildId |-> Required, uploadId |-> Required, type |-> Required]
UploadInfo_Type ==
    MessageType("debuginfo.UploadInfo", UploadInfo, <<Implicit(1, "buildId", Delimited),
      Implicit(2, "uploadId", Delimited), Implicit(3, "type", Varint)>>)

UploadResponse == [buildId |-> Required, size |-> Required]
UploadResponse_Type ==
    MessageType("debuginfo.UploadResponse", UploadResponse, <<Implicit(1, "buildId", Delimited),
      Implicit(2, "size", Varint)>>)

Debuginfo ==
    [buildId |-> Required, source |-> Required, upload |-> Optional("debuginfo.DebuginfoUpload"),
      quality |-> Optional("debuginfo.DebuginfoQuality"), debuginfodServers |-> Many(Scalar),
      type |-> Required]
Debuginfo_Type ==
    MessageType("debuginfo.Debuginfo", Debuginfo, <<Implicit(1, "buildId", Delimited),
      Implicit(2, "source", Varint), Submessage(3, "upload", "debuginfo.DebuginfoUpload"),
      Submessage(4, "quality", "debuginfo.DebuginfoQuality"),
      Repeated(5, "debuginfodServers", Delimited), Implicit(6, "type", Varint)>>)

DebuginfoUpload ==
    [id |-> Required, hash |-> Required, state |-> Required,
      startedAt |-> Optional("time.Timestamp"), finishedAt |-> Optional("time.Timestamp")]
DebuginfoUpload_Type ==
    MessageType("debuginfo.DebuginfoUpload", DebuginfoUpload, <<Implicit(1, "id", Delimited),
      Implicit(2, "hash", Delimited), Implicit(3, "state", Varint),
      Submessage(4, "startedAt", "time.Timestamp"), Submessage(5, "finishedAt", "time.Timestamp")>>)

DebuginfoQuality ==
    [notValidElf |-> Required, hasDwarf |-> Required, hasGoPclntab |-> Required,
      hasSymtab |-> Required, hasDynsym |-> Required]
DebuginfoQuality_Type ==
    MessageType("debuginfo.DebuginfoQuality", DebuginfoQuality, <<
      Implicit(1, "notValidElf", Varint), Implicit(2, "hasDwarf", Varint),
      Implicit(3, "hasGoPclntab", Varint), Implicit(4, "hasSymtab", Varint),
      Implicit(5, "hasDynsym", Varint)>>)

\* Every message type of this package.
Messages ==
    <<ShouldInitiateUploadRequest_Type, ShouldInitiateUploadResponse_Type,
      InitiateUploadRequest_Type, InitiateUploadResponse_Type, UploadInstructions_Type,
      MarkUploadFinishedRequest_Type, MarkUploadFinishedResponse_Type, UploadRequest_Type,
      UploadInfo_Type, UploadResponse_Type, Debuginfo_Type, DebuginfoUpload_Type,
      DebuginfoQuality_Type>>
================================================================================
